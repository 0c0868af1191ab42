------------------------- MODULE DitrixProxyProofs -------------------------
(***************************************************************************)
(* The safety properties of DitrixProxy, for any lists of tools, any number *)
(* of calls and attempts.  What a handler may ask is shown once, handler by *)
(* handler, for all arguments (HandlerSound); RegistryInv then says which   *)
(* tools have handlers, and JobInv how far a call, its request and EDT,     *)
(* which may part, can be from each other.                                 *)
(***************************************************************************)
EXTENDS DitrixProxy, SequenceTheorems, TLAPS

-----------------------------------------------------------------------------
(* Handlers *)

Facade(name) == Tool(name, "facade", name \in ReadingFacades, FALSE)
Facades == DOMAIN CompatibilityNeeds \cup MediumTools \cup LargeSubsystems
Alias == Tool("run_tests", "alias", FALSE, FALSE)

\* Every tool there may be.
Known == BaseTools \cup {Facade(name) : name \in Facades} \cup {Proxied(name) : name \in Reviewed}
         \cup {Alias} \cup LaterTools

Confirming == {"launch_debugger", "edit_metadata", "update_configuration"}

\* Unasked, of the operation a call was made with.
Exempt(op, r) == \/ r.tool = "update_configuration" /\ op = "replayCustomizations"
                 \/ r.tool = "PrepareSource"

\* A step that stays in the project and changes only what the tool may change.
Lawful(t, confirm, op) ==
  {r \in Step :
     /\ AcceptsProject(r.tool) => r.project = "fixed"
     /\ Changes(r) => /\ ~t.readOnly
                      /\ (t.name \in Confirming \/ r.tool \in OwnSteps) => confirm \/ Exempt(op, r)}

\* A step a call may have taken that is refused in the end.
Harmless(r) == Changes(r) => r.tool = "PrepareSource"

Sound(h, t, a) ==
  /\ h.plan \in Seq(Lawful(t, a.confirm, a.op))
  /\ h.end \in {"ok", "refused"}
  /\ h.end = "refused" => \A i \in DOMAIN h.plan : Harmless(h.plan[i])

\* Up to its last read a guarded write does no harm.
ReadsFirst(t, plan) ==
  GuardedWrite(t) =>
    \A i, k \in DOMAIN plan :
      i <= k /\ plan[k].tool \in {"read_module_source", "read_method_source"} => Harmless(plan[i])

\* An answer without a step.
LEMMA SilentSound == ASSUME NEW t, NEW a  PROVE Sound(Refuse, t, a) /\ Sound(Alone, t, a)
BY DEF Sound, Refuse, Alone, Ask, InVain

\* An answer after some.
LEMMA AskSound ==
  ASSUME NEW t, NEW a, NEW plan \in Seq(Lawful(t, a.confirm, a.op))
  PROVE  Sound(Ask(plan), t, a)
BY DEF Sound, Ask

\* ... after one.
LEMMA OneSound ==
  ASSUME NEW t, NEW a, NEW r \in Lawful(t, a.confirm, a.op)
  PROVE  Sound(Ask(<<r>>), t, a)
<1>1. ASSUME NEW S, NEW q \in S  PROVE <<q>> \in Seq(S)
  BY <1>1
<1> QED  BY <1>1, AskSound

\* A refusal after some.
LEMMA InVainSound ==
  ASSUME NEW t, NEW a, NEW plan \in Seq(Lawful(t, a.confirm, a.op)),
         \A i \in DOMAIN plan : Harmless(plan[i])
  PROVE  Sound(InVain(plan), t, a)
BY DEF Sound, InVain

\* The server's own steps are not EDT's.
LEMMA Apart == RemoteTools \cap OwnSteps = {}
BY DEF RemoteTools, OwnSteps, Reviewed, ReadPolicy, WritePolicy, DestructivePolicy

\* What a tool may change: anything, when it is no read and was confirmed if it asks.
Allowed(t, confirm) == ~t.readOnly /\ (t.name \in Confirming => confirm)

LEMMA FixedLawful ==
  ASSUME NEW t, NEW confirm, NEW op, NEW name \in RemoteTools,
         name \in WritePolicy \cup DestructivePolicy \cup {"new_tool"} => Allowed(t, confirm)
  PROVE  Fixed(name) \in Lawful(t, confirm, op)
<1>1. Fixed(name) \in Step
  BY ProxyAssumption DEF Fixed, Step
<1>2. Fixed(name).tool = name /\ Fixed(name).project = "fixed" /\ Fixed(name).op = "" /\ name \notin OwnSteps
  BY Apart DEF Fixed
<1>3. Changes(Fixed(name)) => Allowed(t, confirm)
  BY <1>2 DEF Changes
<1> QED  BY <1>1, <1>2, <1>3 DEF Lawful, Allowed

LEMMA BareLawful ==
  ASSUME NEW t, NEW confirm, NEW op, NEW name \in RemoteTools, ~AcceptsProject(name),
         name \in WritePolicy \cup DestructivePolicy \cup {"new_tool"} => Allowed(t, confirm)
  PROVE  Bare(name) \in Lawful(t, confirm, op)
<1>1. Bare(name) \in Step
  BY ProxyAssumption DEF Bare, Step
<1>2. Bare(name).tool = name /\ Bare(name).op = "" /\ name \notin OwnSteps
  BY Apart DEF Bare
<1>3. Changes(Bare(name)) => Allowed(t, confirm)
  BY <1>2 DEF Changes
<1> QED  BY <1>1, <1>2, <1>3 DEF Lawful, Allowed

\* A step of the server's own needs the confirmation, whatever the tool; the
\* preparation of a source does not.
LEMMA OwnLawful ==
  ASSUME NEW t, ~t.readOnly, NEW confirm, NEW op, NEW name \in OwnSteps, confirm \/ name = "PrepareSource"
  PROVE  Bare(name) \in Lawful(t, confirm, op)
<1>1. Bare(name) \in Step
  BY ProxyAssumption DEF Bare, Step
<1>2. Bare(name).tool = name /\ ~AcceptsProject(name)
  BY DEF Bare, AcceptsProject
<1>3. confirm \/ Exempt(op, Bare(name))
  BY <1>2 DEF Exempt
<1> QED  BY <1>1, <1>2, <1>3 DEF Lawful

\* Reads on the fixed project, and reads that take no project, are lawful for every tool.
LEMMA ReadsAreLawful ==
  ASSUME NEW t, NEW confirm, NEW op
  PROVE  /\ \A name \in ReadPolicy : Fixed(name) \in Lawful(t, confirm, op)
         /\ \A name \in {"list_projects", "debug_status"} : Bare(name) \in Lawful(t, confirm, op)
<1>1. ReadPolicy \subseteq RemoteTools /\ {"list_projects", "debug_status"} \subseteq RemoteTools
  BY DEF ReadPolicy, RemoteTools, Reviewed
<1>2. \A name \in ReadPolicy \cup {"list_projects", "debug_status"} :
        name \notin WritePolicy \cup DestructivePolicy \cup {"new_tool"}
  BY DEF ReadPolicy, WritePolicy, DestructivePolicy
<1>3. \A name \in {"list_projects", "debug_status"} : ~AcceptsProject(name)
  BY DEF AcceptsProject
<1> QED  BY <1>1, <1>2, <1>3, FixedLawful, BareLawful

\* Reads, and the preparation of a source, may come before a refusal.
LEMMA HarmlessSteps ==
  /\ \A name \in ReadPolicy : Harmless(Fixed(name))
  /\ Harmless(Bare("list_projects")) /\ Harmless(Bare("PrepareSource"))
<1>1. \A name \in ReadPolicy \cup {"list_projects"} :
        name \notin WritePolicy \cup DestructivePolicy \cup {"new_tool", "update_configuration"} \cup OwnSteps
  BY DEF ReadPolicy, WritePolicy, DestructivePolicy, OwnSteps
<1> QED  BY <1>1 DEF Harmless, Changes, Fixed, Bare

LEMMA WherePlan == ASSUME NEW S, NEW ok \in BOOLEAN, NEW r \in S  PROVE Where(ok, r) \in Seq(S)
BY DEF Where

LEMMA ForwardSound ==
  ASSUME NEW t \in Known, NEW a \in Arguments,
         NEW name \in Reviewed, t = Proxied(name) \/ (t = Alias /\ name = "run_yaxunit_tests")
  PROVE  Sound(Forward(name, a), t, a)
<1> DEFINE request == [Bare(name) EXCEPT !.project = IF AcceptsProject(name) THEN "fixed" ELSE a.project]
<1>1. CASE a.directory \/ (AcceptsProject(name) /\ a.project = "other")
  BY <1>1, SilentSound DEF Forward
<1>2. CASE ~(a.directory \/ (AcceptsProject(name) /\ a.project = "other"))
  <2>1. name \in RemoteTools /\ a.project \in {"none", "fixed", "other"}
    BY DEF RemoteTools, Arguments
  <2>2. /\ request \in Step
        /\ request.tool = name /\ (AcceptsProject(name) => request.project = "fixed")
    BY <2>1, ProxyAssumption DEF Bare, Step
  <2>3. /\ name \notin OwnSteps
        /\ Changes(request) => name \in WritePolicy \cup DestructivePolicy
    BY <2>1, <2>2, Apart DEF Changes, Reviewed, ReadPolicy, WritePolicy, DestructivePolicy
  <2>4. ASSUME name \in WritePolicy \cup DestructivePolicy  PROVE ~t.readOnly
    <3>1. name \notin ReadPolicy
      BY <2>4 DEF ReadPolicy, WritePolicy, DestructivePolicy
    <3>2. CASE t = Proxied(name)
      BY <3>1, <3>2 DEF Proxied, Tool
    <3>3. CASE t = Alias
      BY <3>3 DEF Alias, Tool
    <3> QED  BY <3>2, <3>3
  <2>5. t.name \notin Confirming
    BY DEF Proxied, Alias, Tool, Confirming, Reviewed, ReadPolicy, WritePolicy, DestructivePolicy
  <2>6. request \in Lawful(t, a.confirm, a.op)
    BY <2>2, <2>3, <2>4, <2>5 DEF Lawful
  <2>7. Sound(Ask(<<request>>), t, a)
    BY <2>6, OneSound
  <2> QED  BY <1>2, <2>7 DEF Forward
<1> QED  BY <1>1, <1>2

\* The facades that only read.
LEMMA ReadersSound ==
  ASSUME NEW t, NEW a \in Arguments, NEW has
  PROVE  /\ Sound(Ask(<<Fixed("get_metadata_details")>>), t, a)
         /\ Sound(Ask(<<Bare("list_projects")>>), t, a)
         /\ Sound(GetObjectHelp, t, a) /\ Sound(CodeReview(has), t, a)
         /\ Sound(CodeSearch(a, has), t, a) /\ Sound(AiContext(a, has), t, a)
<1> DEFINE S == Lawful(t, a.confirm, a.op)
<1>1. /\ Bare("list_projects") \in S
      /\ \A name \in {"get_metadata_details", "get_module_structure", "read_module_source", "search_in_code",
                      "find_references", "get_project_errors"} : Fixed(name) \in S
  BY ReadsAreLawful DEF ReadPolicy
<1>2. Sound(Ask(<<Fixed("get_metadata_details")>>), t, a) /\ Sound(Ask(<<Bare("list_projects")>>), t, a)
  BY <1>1, OneSound
<1>3. Sound(GetObjectHelp, t, a)
  <2>1. <<Bare("list_projects"), Fixed("get_metadata_details")>> \in Seq(S)
    <3> HIDE DEF S
    <3> QED  BY <1>1
  <2> QED  BY <2>1, AskSound DEF GetObjectHelp
<1>4. Sound(CodeReview(has), t, a)
  BY <1>2, SilentSound DEF CodeReview
<1>5. Sound(CodeSearch(a, has), t, a)
  <2>1. /\ Sound(Ask(<<Fixed("search_in_code")>>), t, a)
        /\ Sound(Ask(<<Fixed("find_references")>>), t, a)
    BY <1>1, OneSound
  <2> QED  BY <2>1, SilentSound DEF CodeSearch
<1>6. Sound(AiContext(a, has), t, a)
  <2> DEFINE errors == Where(a.depth = "full" /\ "get_project_errors" \in has, Fixed("get_project_errors"))
             object == <<Fixed("get_metadata_details")>>
                       \o Where(a.depth = "full" /\ "find_references" \in has, Fixed("find_references"))
             module == <<Fixed("get_module_structure")>>
                       \o Where(a.depth # "minimal", Fixed("read_module_source"))
  <2>1. /\ errors \in Seq(S)
        /\ Where(a.depth = "full" /\ "find_references" \in has, Fixed("find_references")) \in Seq(S)
        /\ Where(a.depth # "minimal", Fixed("read_module_source")) \in Seq(S)
    BY <1>1, WherePlan
  <2>2. <<Fixed("get_metadata_details")>> \in Seq(S) /\ <<Fixed("get_module_structure")>> \in Seq(S)
    BY <1>1
  <2>3. object \in Seq(S) /\ module \in Seq(S)
    BY <2>1, <2>2, ConcatProperties
  <2>4. object \o errors \in Seq(S) /\ module \o errors \in Seq(S)
    BY <2>1, <2>3, ConcatProperties
  <2>5. Sound(Ask(object \o errors), t, a) /\ Sound(Ask(module \o errors), t, a)
    BY <2>4, AskSound
  <2> QED  BY <2>5, SilentSound DEF AiContext
<1> QED  BY <1>2, <1>3, <1>4, <1>5, <1>6

LEMMA PagesNat == ASSUME NEW a \in Arguments  PROVE a.pages \in Nat
<1>1. a.pages \in 1..MaxPages
  BY DEF Arguments
<1>2. MaxPages \in Nat
  BY ProxyAssumption
<1> QED  BY <1>1, <1>2

\* The guarded write asks for no confirmation of its own: it is announced as a write.
LEMMA WriteModuleSound ==
  ASSUME NEW t, t = Facade("write_module_source"), NEW a \in Arguments, NEW has
  PROVE  Sound(WriteModule(a, has), t, a)
<1> DEFINE S == Lawful(t, a.confirm, a.op)
           pages == [n \in 1..a.pages |-> Fixed("read_module_source")]
           reads == pages \o Where(a.op = "replaceMethod", Fixed("read_method_source"))
           write == Where(a.dryRun = "false", Fixed("write_module_source"))
           errors == Where(a.dryRun = "false" /\ "get_project_errors" \in has, Fixed("get_project_errors"))
<1>1. /\ Fixed("read_module_source") \in S /\ Fixed("read_method_source") \in S
      /\ Fixed("get_project_errors") \in S
  BY ReadsAreLawful DEF ReadPolicy
<1>2. Fixed("write_module_source") \in S
  <2>1. Allowed(t, a.confirm)
    BY DEF Facade, Tool, ReadingFacades, Allowed, Confirming
  <2> QED  BY <2>1, FixedLawful DEF RemoteTools, Reviewed, WritePolicy
<1>3. pages \in Seq(S) /\ \A i \in DOMAIN pages : Harmless(pages[i])
  <2>1. a.pages \in Nat /\ Harmless(Fixed("read_module_source"))
    BY PagesNat, HarmlessSteps DEF ReadPolicy
  <2> HIDE DEF S
  <2> QED  BY <1>1, <2>1
<1>4. /\ Where(a.op = "replaceMethod", Fixed("read_method_source")) \in Seq(S)
      /\ write \in Seq(S) /\ errors \in Seq(S)
  BY <1>1, <1>2, WherePlan
<1>5. reads \o write \o errors \in Seq(S)
  <2> HIDE DEF S, pages, write, errors
  <2> QED  BY <1>3, <1>4, ConcatProperties
<1>6. Sound(Ask(reads \o write \o errors), t, a) /\ Sound(InVain(pages), t, a)
  BY <1>3, <1>5, AskSound, InVainSound
<1> QED  BY <1>6 DEF WriteModule

\* Good steps, and behind them bad ones.
Before(Good, Bad, plan) ==
  \A i, k \in DOMAIN plan : i <= k /\ plan[k] \notin Bad => plan[i] \in Good

LEMMA BeforeMore ==
  ASSUME NEW Good, NEW Bad, NEW p \in Seq(Good \cup Bad), NEW q \in Seq(Bad), Before(Good, Bad, p)
  PROVE  p \o q \in Seq(Good \cup Bad) /\ Before(Good, Bad, p \o q)
<1>1. q \in Seq(Good \cup Bad)
  OBVIOUS
<1>2. /\ p \o q \in Seq(Good \cup Bad) /\ Len(p \o q) = Len(p) + Len(q)
      /\ \A i \in 1..Len(p \o q) : (p \o q)[i] = IF i <= Len(p) THEN p[i] ELSE q[i - Len(p)]
  BY <1>1, ConcatProperties
<1>3. \A i \in 1..Len(p \o q) : i > Len(p) => (p \o q)[i] \in Bad
  BY <1>2
<1> QED  BY <1>2, <1>3 DEF Before

LEMMA WriteModuleReadsFirst ==
  ASSUME NEW t, NEW a \in Arguments, NEW has
  PROVE  ReadsFirst(t, WriteModule(a, has).plan)
<1> DEFINE Good == {Fixed("read_module_source"), Fixed("read_method_source")}
           Bad == {Fixed("write_module_source"), Fixed("get_project_errors")}
           pages == [n \in 1..a.pages |-> Fixed("read_module_source")]
           method == Where(a.op = "replaceMethod", Fixed("read_method_source"))
           reads == pages \o method
           write == Where(a.dryRun = "false", Fixed("write_module_source"))
           errors == Where(a.dryRun = "false" /\ "get_project_errors" \in has, Fixed("get_project_errors"))
<1>1. method \in Seq(Good) /\ write \in Seq(Bad) /\ errors \in Seq(Bad)
  BY WherePlan
<1>2. pages \in Seq(Good)
  <2>1. Fixed("read_module_source") \in Good
    OBVIOUS
  <2> HIDE DEF Good
  <2> QED  BY <2>1, PagesNat
<1>3. \A r \in Good : Harmless(r)
  BY HarmlessSteps DEF ReadPolicy
<1>4. \A r \in Bad : r.tool \notin {"read_module_source", "read_method_source"}
  <2>1. /\ Fixed("write_module_source").tool = "write_module_source"
        /\ Fixed("get_project_errors").tool = "get_project_errors"
    BY DEF Fixed
  <2> QED  BY <2>1
<1> HIDE DEF Good, Bad, pages, method, write, errors
<1>5. reads \in Seq(Good) /\ reads \in Seq(Good \cup Bad)
  BY <1>1, <1>2, ConcatProperties
<1>6. Before(Good, Bad, reads) /\ Before(Good, Bad, pages)
  BY <1>2, <1>5 DEF Before
<1> HIDE DEF reads
<1>7. reads \o write \in Seq(Good \cup Bad) /\ Before(Good, Bad, reads \o write)
  BY <1>1, <1>5, <1>6, BeforeMore
<1>8. Before(Good, Bad, reads \o write \o errors)
  BY <1>1, <1>7, BeforeMore
<1>9. WriteModule(a, has).plan = pages \/ WriteModule(a, has).plan = reads \o write \o errors
  BY DEF WriteModule, Ask, InVain, pages, reads, method, write, errors
<1>10. Before(Good, Bad, WriteModule(a, has).plan)
  BY <1>6, <1>8, <1>9
<1> QED  BY <1>3, <1>4, <1>10 DEF Before, ReadsFirst

\* A tool that confirms sends a change only with the confirmation.
LEMMA LaunchDebuggerSound ==
  ASSUME NEW t, t = Facade("launch_debugger"), NEW a \in Arguments, NEW has
  PROVE  Sound(LaunchDebugger(a, has), t, a)
<1> DEFINE S == Lawful(t, a.confirm, a.op)
<1>1. ~t.readOnly
  BY DEF Facade, Tool, ReadingFacades
<1>2. Bare("debug_status") \in S /\ Fixed("list_breakpoints") \in S
  BY ReadsAreLawful DEF ReadPolicy
<1>3. a.confirm => Bare("set_variable") \in S /\ Fixed("debug_launch") \in S
  <2>1. a.confirm => Allowed(t, a.confirm)
    BY <1>1 DEF Allowed
  <2>2. {"set_variable", "debug_launch"} \subseteq RemoteTools /\ ~AcceptsProject("set_variable")
    BY DEF RemoteTools, Reviewed, WritePolicy, AcceptsProject
  <2> QED  BY <2>1, <2>2, FixedLawful, BareLawful
<1>4. /\ Sound(Ask(<<Bare("debug_status")>>), t, a) /\ Sound(Ask(<<Fixed("list_breakpoints")>>), t, a)
      /\ a.confirm => /\ Sound(Ask(<<Bare("set_variable")>>), t, a)
                      /\ Sound(Ask(<<Fixed("debug_launch")>>), t, a)
  BY <1>2, <1>3, OneSound
<1>5. Sound(Refuse, t, a)
  BY SilentSound
<1>6. /\ DOMAIN DebuggerTool = {"status", "listBreakpoints", "setVariable", "launch"}
      /\ DebuggerTool["status"] = "debug_status" /\ DebuggerTool["listBreakpoints"] = "list_breakpoints"
      /\ DebuggerTool["setVariable"] = "set_variable" /\ DebuggerTool["launch"] = "debug_launch"
  BY DEF DebuggerTool
<1>7. LaunchDebugger(a, has) = Refuse \/
      /\ a.op \in DOMAIN DebuggerTool /\ (a.op \in {"status", "listBreakpoints"} \/ a.confirm)
      /\ LaunchDebugger(a, has) = Ask(<<IF a.op \in {"listBreakpoints", "launch"} THEN Fixed(DebuggerTool[a.op])
                                        ELSE Bare(DebuggerTool[a.op])>>)
  BY DEF LaunchDebugger
<1>8. CASE LaunchDebugger(a, has) = Refuse
  BY <1>5, <1>8
<1>9. CASE LaunchDebugger(a, has) # Refuse
  <2>1. LaunchDebugger(a, has) \in
          {Ask(<<Bare("debug_status")>>), Ask(<<Fixed("list_breakpoints")>>)}
          \cup (IF a.confirm THEN {Ask(<<Bare("set_variable")>>), Ask(<<Fixed("debug_launch")>>)} ELSE {})
    BY <1>6, <1>7, <1>9
  <2> QED  BY <1>4, <2>1
<1> QED  BY <1>8, <1>9

LEMMA EditMetadataSound ==
  ASSUME NEW t, t = Facade("edit_metadata"), NEW a \in Arguments, NEW has
  PROVE  Sound(EditMetadata(a, has), t, a)
<1> DEFINE S == Lawful(t, a.confirm, a.op)
<1>1. ~t.readOnly
  BY DEF Facade, Tool, ReadingFacades
<1>2. Fixed("get_metadata_details") \in S
  BY ReadsAreLawful DEF ReadPolicy
<1>3. ASSUME a.confirm, NEW name \in {"create_metadata", "delete_metadata", "modify_metadata"}
      PROVE  Fixed(name) \in S
  <2>1. Allowed(t, a.confirm)
    BY <1>1, <1>3 DEF Allowed
  <2> QED  BY <2>1, FixedLawful DEF RemoteTools, Reviewed, WritePolicy, DestructivePolicy
<1>4. /\ Sound(Ask(<<Fixed("get_metadata_details")>>), t, a)
      /\ a.confirm => /\ Sound(Ask(<<Fixed("create_metadata")>>), t, a)
                      /\ Sound(Ask(<<Fixed("delete_metadata")>>), t, a)
                      /\ Sound(Ask(<<Fixed("modify_metadata")>>), t, a)
  BY <1>2, <1>3, OneSound
<1>5. Sound(Refuse, t, a) /\ Sound(Alone, t, a)
  BY SilentSound
<1>6. /\ DOMAIN MetadataTool = {"details", "create", "delete", "addField"}
      /\ MetadataTool["details"] = "get_metadata_details" /\ MetadataTool["create"] = "create_metadata"
      /\ MetadataTool["delete"] = "delete_metadata" /\ MetadataTool["addField"] = "modify_metadata"
  BY DEF MetadataTool
<1>7. EditMetadata(a, has) \in
        {Refuse, Alone, Ask(<<Fixed("get_metadata_details")>>)}
        \cup (IF a.confirm THEN {Ask(<<Fixed("create_metadata")>>), Ask(<<Fixed("delete_metadata")>>),
                                 Ask(<<Fixed("modify_metadata")>>)} ELSE {})
  BY <1>6 DEF EditMetadata
<1> QED  BY <1>4, <1>5, <1>7

LEMMA DiagnosticsSound ==
  ASSUME NEW t, t = Facade("diagnostics"), NEW a \in Arguments, NEW has
  PROVE  Sound(Diagnostics(a, has), t, a)
<1> DEFINE S == Lawful(t, a.confirm, a.op)
<1>1. ~t.readOnly /\ t.name = "diagnostics"
  BY DEF Facade, Tool, ReadingFacades
<1>2. Fixed("get_profiling_results") \in S
  BY ReadsAreLawful DEF ReadPolicy
<1>3. Fixed("start_profiling") \in S
  <2>1. Allowed(t, a.confirm)
    BY <1>1 DEF Allowed, Confirming
  <2> QED  BY <2>1, FixedLawful DEF RemoteTools, Reviewed, WritePolicy
<1>4. Sound(Ask(<<Fixed("get_profiling_results")>>), t, a) /\ Sound(Ask(<<Fixed("start_profiling")>>), t, a)
  BY <1>2, <1>3, OneSound
<1>5. Sound(Refuse, t, a) /\ Sound(Alone, t, a) /\ (a.confirm => Sound(Ask(<<Bare("Techlog")>>), t, a))
  BY <1>1, SilentSound, OwnLawful, OneSound DEF OwnSteps
<1>6. /\ DOMAIN MeasureTool = {"measureStart", "measureResults"}
      /\ MeasureTool["measureStart"] = "start_profiling" /\ MeasureTool["measureResults"] = "get_profiling_results"
  BY DEF MeasureTool
<1>7. Diagnostics(a, has) \in
        {Refuse, Alone, Ask(<<Fixed("start_profiling")>>), Ask(<<Fixed("get_profiling_results")>>)}
        \cup (IF a.confirm THEN {Ask(<<Bare("Techlog")>>)} ELSE {})
  BY <1>6 DEF Diagnostics
<1> QED  BY <1>4, <1>5, <1>7

\* Without the confirmation nothing is merged, and what was done before it did no harm.
LEMMA MergingSound ==
  ASSUME NEW t, ~t.readOnly, NEW a \in Arguments, NEW steps \in Seq(Lawful(t, a.confirm, a.op)),
         \A i \in DOMAIN steps : Harmless(steps[i])
  PROVE  Sound(Merging(a, steps), t, a)
<1>1. Sound(Ask(steps), t, a) /\ Sound(InVain(steps), t, a)
  BY AskSound, InVainSound
<1>2. ASSUME a.confirm  PROVE Sound(Ask(Append(steps, Bare("Merge"))), t, a)
  <2>1. Bare("Merge") \in Lawful(t, a.confirm, a.op)
    BY <1>2, OwnLawful DEF OwnSteps
  <2>2. ASSUME NEW S, NEW p \in Seq(S), NEW r \in S  PROVE Append(p, r) \in Seq(S)
    BY <2>2
  <2> QED  BY <2>1, <2>2, AskSound
<1> QED  BY <1>1, <1>2 DEF Merging

LEMMA UpdateSourcesSound ==
  ASSUME NEW t, ~t.readOnly, NEW a \in Arguments
  PROVE  Sound(UpdateSources(a), t, a)
<1> DEFINE S == Lawful(t, a.confirm, a.op)
           prepared == <<Bare("PrepareSource"), Bare("list_projects")>>
<1>1. /\ Bare("PrepareSource") \in S /\ Bare("list_projects") \in S
      /\ a.confirm => Bare("Cleanup") \in S
  BY OwnLawful, ReadsAreLawful DEF OwnSteps
<1>2. prepared \in Seq(S) /\ \A i \in DOMAIN prepared : Harmless(prepared[i])
  <2> HIDE DEF S
  <2>1. prepared \in Seq(S)
    BY <1>1
  <2> QED  BY <2>1, HarmlessSteps
<1>3. /\ Sound(Ask(<<Bare("PrepareSource")>>), t, a) /\ Sound(Ask(<<Bare("list_projects")>>), t, a)
      /\ a.confirm => Sound(Ask(<<Bare("Cleanup")>>), t, a)
  BY <1>1, OneSound
<1>4. Sound(Ask(prepared), t, a) /\ Sound(Merging(a, prepared), t, a)
  <2> HIDE DEF prepared
  <2> QED  BY <1>2, AskSound, MergingSound
<1>5. Sound(Merging(a, <<>>), t, a)
  <2>1. <<>> \in Seq(S) /\ DOMAIN <<>> = {}
    OBVIOUS
  <2> QED  BY <2>1, MergingSound
<1> QED  BY <1>3, <1>4, <1>5, SilentSound DEF UpdateSources

LEMMA UpdateConfigurationSound ==
  ASSUME NEW t, t = Facade("update_configuration"), NEW a \in Arguments, NEW has
  PROVE  Sound(UpdateConfiguration(a, has), t, a)
<1> DEFINE S == Lawful(t, a.confirm, a.op)
           dry == a.op \in {"merge", "updateVendor", "cleanupSources"} /\ ~(a.confirm /\ a.dryRun = "false")
           request == [tool |-> "update_configuration", project |-> "fixed", op |-> a.op, dryRun |-> dry]
<1>1. ~t.readOnly
  BY DEF Facade, Tool, ReadingFacades
<1>2. Sound(Refuse, t, a) /\ Sound(UpdateSources(a), t, a)
  BY <1>1, SilentSound, UpdateSourcesSound
<1> HIDE DEF dry
<1>3. request \in Step
  <2>1. dry \in BOOLEAN /\ a.op \in Operations
    BY DEF dry, Arguments
  <2> QED  BY <2>1 DEF Step, RemoteTools
<1>4. Changes(request) => a.confirm \/ Exempt(a.op, request)
  BY DEF Changes, Exempt, dry, Reviewed, ReadPolicy, WritePolicy, DestructivePolicy, OwnSteps
<1>5. request \in S
  BY <1>1, <1>3, <1>4 DEF Lawful
<1>6. Sound(Ask(<<request>>), t, a)
  BY <1>5, OneSound
<1> QED  BY <1>2, <1>6 DEF UpdateConfiguration, dry

LEMMA VanessaSound ==
  ASSUME NEW t, t = Facade("vanessa"), NEW a \in Arguments
  PROVE  Sound(Vanessa(a), t, a)
<1>1. ~t.readOnly
  BY DEF Facade, Tool, ReadingFacades
<1>2. a.confirm => Sound(Ask(<<Bare("Vanessa")>>), t, a)
  BY <1>1, OwnLawful, OneSound DEF OwnSteps
<1> QED  BY <1>2, SilentSound DEF Vanessa

\* Whatever it is called with, a tool asks what it may ask.
LEMMA HandlerSound ==
  ASSUME NEW t \in Known, NEW a \in Arguments, NEW has
  PROVE  Sound(Handler(t, a, has), t, a)
<1>1. ASSUME NEW name \in Reviewed, t = Proxied(name)  PROVE Sound(Handler(t, a, has), t, a)
  <2>1. t.origin = "proxy" /\ t.name = name
    BY <1>1 DEF Proxied, Tool
  <2>2. Handler(t, a, has) = Forward(t.name, a)
    BY <2>1 DEF Handler, NativeHandler
  <2> QED  BY <1>1, <2>1, <2>2, ForwardSound
<1>2. CASE t = Alias
  <2>1. t.origin = "alias"
    BY <1>2 DEF Alias, Tool
  <2>2. Handler(t, a, has) = Forward("run_yaxunit_tests", a)
    BY <2>1 DEF Handler, NativeHandler
  <2> QED  BY <1>2, <2>2, ForwardSound DEF Reviewed, WritePolicy
<1>3. CASE t \in BaseTools \cup LaterTools
  <2>1. /\ t.origin = "native"
        /\ t.name \in {"get_object_structure", "get_metadata_tree", "get_ditrix_edt_capabilities",
                       "find_references", "memory_put"}
    BY <1>3 DEF BaseTools, LaterTools, Tool
  <2>2. Handler(t, a, has) \in {Ask(<<Fixed("get_metadata_details")>>), Alone}
    BY <2>1 DEF Handler, NativeHandler
  <2> QED  BY <2>2, ReadersSound, SilentSound
<1>4. ASSUME NEW name \in Facades, t = Facade(name)  PROVE Sound(Handler(t, a, has), t, a)
  <2>1. t.origin = "facade" /\ t.name = name
    BY <1>4 DEF Facade, Tool
  <2>2. name \in {"list_workspace_projects", "ai_context", "code_search", "write_module_source",
                  "get_object_help", "launch_debugger", "edit_metadata", "code_review", "diagnostics",
                  "vanessa", "update_configuration"}
    BY DEF Facades, CompatibilityNeeds, MediumTools, LargeSubsystems
  <2>3. CASE name \in {"list_workspace_projects", "ai_context", "code_search", "get_object_help", "code_review"}
    <3>1. Handler(t, a, has) \in {Ask(<<Bare("list_projects")>>), AiContext(a, has), CodeSearch(a, has),
                                  GetObjectHelp, CodeReview(has)}
      BY <2>1, <2>3 DEF Handler, NativeHandler
    <3> QED  BY <3>1, ReadersSound
  <2>4. CASE name = "write_module_source"
    <3>1. Handler(t, a, has) = WriteModule(a, has)
      BY <2>1, <2>4 DEF Handler, NativeHandler
    <3> QED  BY <1>4, <2>4, <3>1, WriteModuleSound
  <2>5. CASE name = "launch_debugger"
    <3>1. Handler(t, a, has) = LaunchDebugger(a, has)
      BY <2>1, <2>5 DEF Handler, NativeHandler
    <3> QED  BY <1>4, <2>5, <3>1, LaunchDebuggerSound
  <2>6. CASE name = "edit_metadata"
    <3>1. Handler(t, a, has) = EditMetadata(a, has)
      BY <2>1, <2>6 DEF Handler, NativeHandler
    <3> QED  BY <1>4, <2>6, <3>1, EditMetadataSound
  <2>7. CASE name = "diagnostics"
    <3>1. Handler(t, a, has) = Diagnostics(a, has)
      BY <2>1, <2>7 DEF Handler, NativeHandler
    <3> QED  BY <1>4, <2>7, <3>1, DiagnosticsSound
  <2>8. CASE name = "vanessa"
    <3>1. Handler(t, a, has) = Vanessa(a)
      BY <2>1, <2>8 DEF Handler, NativeHandler
    <3> QED  BY <1>4, <2>8, <3>1, VanessaSound
  <2>9. CASE name = "update_configuration"
    <3>1. Handler(t, a, has) = UpdateConfiguration(a, has)
      BY <2>1, <2>9 DEF Handler, NativeHandler
    <3> QED  BY <1>4, <2>9, <3>1, UpdateConfigurationSound
  <2> QED  BY <2>2, <2>3, <2>4, <2>5, <2>6, <2>7, <2>8, <2>9
<1> QED  BY <1>1, <1>2, <1>3, <1>4 DEF Known

LEMMA HandlerReadsFirst ==
  ASSUME NEW t, NEW a \in Arguments, NEW has
  PROVE  ReadsFirst(t, Handler(t, a, has).plan)
<1>1. CASE GuardedWrite(t)
  <2>1. Handler(t, a, has) = WriteModule(a, has)
    BY <1>1 DEF GuardedWrite, Handler, NativeHandler
  <2> QED  BY <2>1, WriteModuleReadsFirst
<1>2. CASE ~GuardedWrite(t)
  BY <1>2 DEF ReadsFirst
<1> QED  BY <1>1, <1>2

-----------------------------------------------------------------------------
(* The start *)

Early == BaseTools \cup CompatibilityTools(Has)

Seen == {offered[i] : i \in 1..(next - 1)}
Accounted(rep) == (rep.registered \ {"run_tests"}) \cup rep.nativeWins \cup rep.excluded
Reports == [registered : SUBSET ToolNames, nativeWins : SUBSET ToolNames, excluded : SUBSET ToolNames]

\* The part of the list the loop has seen is accounted for at every turn; what is
\* registered before it is there while it runs.
RegistryInv ==
  /\ phase \in {"flags", "base", "discover", "compat", "proxy", "later", "serving", "exited"}
  /\ offered \in Offers /\ next \in 1..(Len(offered) + 1)
  /\ registry \subseteq Known
  /\ report \in Reports
  /\ \A t, u \in registry : t.name = u.name => t = u
  /\ \A t \in registry : t.origin = "proxy" => t.name \in (Reviewed \cap Has) \ Names(Early)
  /\ phase \in {"flags", "base"} => registry = {}
  /\ phase \in {"discover", "compat"} => registry = BaseTools
  /\ phase \in {"flags", "base", "discover", "compat"} => report.excluded = {}
  /\ phase = "proxy" => Names(Early) \subseteq Names(registry)
  /\ phase \in {"later", "serving"} => next = Len(offered) + 1
  /\ report.excluded \subseteq Has \ (Reviewed \cup Names(registry))
  /\ Seen = Accounted(report)

\* Names in one batch of tools are different.
LEMMA BatchNames ==
  /\ \A t, u \in BaseTools : t.name = u.name => t = u
  /\ \A has : \A t, u \in CompatibilityTools(has) : t.name = u.name => t = u
  /\ \A t, u \in LaterTools : t.name = u.name => t = u
<1> DEFINE structure == Tool("get_object_structure", "native", FALSE, FALSE)
           tree == Tool("get_metadata_tree", "native", FALSE, FALSE)
           capabilities == Tool("get_ditrix_edt_capabilities", "native", TRUE, FALSE)
           references == Tool("find_references", "native", TRUE, FALSE)
           memory == Tool("memory_put", "native", FALSE, FALSE)
<1>1. /\ BaseTools = {structure, tree} /\ LaterTools = {capabilities, references, memory}
      /\ structure.name = "get_object_structure" /\ tree.name = "get_metadata_tree"
      /\ capabilities.name = "get_ditrix_edt_capabilities" /\ references.name = "find_references"
      /\ memory.name = "memory_put"
  BY DEF BaseTools, LaterTools, Tool
<1>2. ASSUME NEW has, NEW t \in CompatibilityTools(has), NEW u \in CompatibilityTools(has), t.name = u.name
      PROVE  t = u
  <2>1. PICK m, n : t = Facade(m) /\ u = Facade(n)
    BY <1>2 DEF CompatibilityTools, Facade
  <2>2. t.name = m /\ u.name = n
    BY <2>1 DEF Facade, Tool
  <2> QED  BY <1>2, <2>1, <2>2
<1> HIDE DEF structure, tree, capabilities, references, memory
<1> QED  BY <1>1, <1>2

\* What addIfMissing does to a registry: the names stay apart, and what was there stays.
LEMMA AddIfMissingNames ==
  ASSUME NEW tools, \A t, u \in tools : t.name = u.name => t = u,
         NEW known, \A t, u \in known : t.name = u.name => t = u
  PROVE  LET all == AddIfMissing(known, tools)
         IN /\ \A t, u \in all : t.name = u.name => t = u
            /\ known \subseteq all /\ all \subseteq known \cup tools
            /\ Names(all) = Names(known) \cup Names(tools)
BY DEF AddIfMissing, HasTool, Names

\* Nothing but the loop serves a tool of the plug-in as it is.
LEMMA Origins ==
  /\ \A t \in BaseTools \cup LaterTools : t.origin = "native" /\ t \in Known
  /\ \A has : \A t \in CompatibilityTools(has) : t.origin = "facade" /\ t \in Known
  /\ Alias.origin = "alias" /\ Alias.name = "run_tests" /\ Alias \in Known
  /\ \A name : Proxied(name).origin = "proxy" /\ Proxied(name).name = name
<1>1. \A t \in BaseTools \cup LaterTools : t.origin = "native" /\ t \in Known
  BY DEF BaseTools, LaterTools, Tool, Known
<1>2. ASSUME NEW has, NEW t \in CompatibilityTools(has)  PROVE t.origin = "facade" /\ t \in Known
  <2>1. PICK name \in Facades : t = Facade(name)
    BY <1>2 DEF CompatibilityTools, Facades, Facade
  <2> QED  BY <2>1 DEF Facade, Tool, Known
<1>3. Alias.origin = "alias" /\ Alias.name = "run_tests" /\ Alias \in Known
  BY DEF Alias, Tool, Known
<1>4. \A name : Proxied(name).origin = "proxy" /\ Proxied(name).name = name
  BY DEF Proxied, Tool
<1> QED  BY <1>1, <1>2, <1>3, <1>4

LEMMA RegistryInit == Init => RegistryInv
<1> SUFFICES ASSUME Init  PROVE RegistryInv
  OBVIOUS
<1>1. offered \in Seq(RemoteTools)
  BY ProxyAssumption DEF Init
<1>2. next \in 1..(Len(offered) + 1) /\ Seen = {} /\ Accounted(report) = {} /\ report \in Reports
  BY <1>1 DEF Init, Seen, Accounted, Reports
<1> QED  BY <1>2 DEF Init, RegistryInv, Names

\* One more offered tool in the report.
LEMMA ReportOne ==
  ASSUME NEW rep \in Reports, NEW name \in ToolNames, name # "run_tests",
         NEW more \in {[rep EXCEPT !.registered = @ \cup {name}], [rep EXCEPT !.nativeWins = @ \cup {name}],
                      [rep EXCEPT !.excluded = @ \cup {name}]}
  PROVE  more \in Reports /\ Accounted(more) = Accounted(rep) \cup {name}
BY DEF Reports, Accounted

LEMMA RegistryStep ==
  ASSUME RegistryInv, Start
  PROVE  RegistryInv'
<1> USE DEF Names, Seen
<1>0. offered \in Seq(RemoteTools) /\ Has \subseteq RemoteTools /\ Has \subseteq ToolNames
  <2>1. offered \in Seq(RemoteTools)
    BY ProxyAssumption DEF RegistryInv
  <2>2. Has \subseteq RemoteTools
    BY <2>1 DEF Has
  <2> QED  BY <2>1, <2>2 DEF ToolNames
<1>1. CASE Configure
  BY <1>1 DEF Configure, RegistryInv, Early, Has
<1>2. CASE RegisterBase
  <2>1. registry' = BaseTools /\ phase' = "discover" /\ UNCHANGED <<offered, next, report>>
    BY <1>2 DEF RegisterBase, RegistryInv
  <2> QED  BY <2>1, <1>2, BatchNames, Origins DEF RegisterBase, RegistryInv, Early, Has
<1>3. CASE Discover
  BY <1>3 DEF Discover, RegistryInv, Early, Has
<1>4. CASE RegisterCompatibility
  <2> DEFINE tools == CompatibilityTools(Has)
  <2>1. /\ registry = BaseTools /\ registry' = AddIfMissing(registry, tools)
        /\ phase' = "proxy" /\ UNCHANGED <<offered, next, report>>
    BY <1>4 DEF RegisterCompatibility, RegistryInv
  <2>2. /\ \A t, u \in registry' : t.name = u.name => t = u
        /\ registry' \subseteq BaseTools \cup tools
        /\ Names(registry') = Names(BaseTools) \cup Names(tools)
    <3>1. /\ \A t, u \in BaseTools : t.name = u.name => t = u
          /\ \A t, u \in tools : t.name = u.name => t = u
      BY BatchNames
    <3> HIDE DEF tools
    <3>2. /\ \A t, u \in AddIfMissing(BaseTools, tools) : t.name = u.name => t = u
          /\ AddIfMissing(BaseTools, tools) \subseteq BaseTools \cup tools
          /\ Names(AddIfMissing(BaseTools, tools)) = Names(BaseTools) \cup Names(tools)
      BY <3>1, AddIfMissingNames
    <3> QED  BY <2>1, <3>2
  <2>3. \A t \in registry' : t \in Known /\ t.origin # "proxy"
    BY <2>2, Origins
  <2>4. Names(Early) \subseteq Names(registry')
    BY <2>2 DEF Early
  <2>5. Has' = Has /\ Early' = Early /\ report.excluded = {}
    BY <1>4, <2>1 DEF RegisterCompatibility, RegistryInv, Has, Early
  <2> HIDE DEF tools
  <2> QED  BY <2>1, <2>2, <2>3, <2>4, <2>5 DEF RegistryInv
<1>5. CASE RegisterRemote
  <2> DEFINE name == offered[next]
  <2>0. name \in ToolNames /\ name # "run_tests"
    <3>1. name \in Has
      BY <1>5 DEF RegisterRemote, Has
    <3> QED  BY <1>0, <3>1 DEF RemoteTools, Reviewed, ReadPolicy, WritePolicy, DestructivePolicy
  <2>1. name \in Has /\ next \in 1..Len(offered)
    BY <1>0, <1>5 DEF RegisterRemote, Has
  <2>2. /\ next' = next + 1 /\ next' \in 1..(Len(offered) + 1) /\ next' - 1 = next /\ phase = "proxy"
        /\ UNCHANGED <<phase, offered>> /\ Has' = Has /\ Early' = Early
    BY <1>0, <1>5, <2>1 DEF RegisterRemote, Early, Has
  <2>3. Seen' = Seen \cup {name}
    BY <2>1, <2>2 DEF Seen
  <2>4. CASE HasTool(registry, name)
    <3>1. registry' = registry /\ report' = [report EXCEPT !.nativeWins = @ \cup {name}]
      BY <1>5, <2>4 DEF RegisterRemote
    <3>2. report' \in Reports /\ Accounted(report') = Accounted(report) \cup {name} /\ report'.excluded = report.excluded
      BY <2>0, <2>1, <3>1, ReportOne DEF RegistryInv, Reports
    <3> HIDE DEF name
    <3> QED  BY <1>0, <2>2, <2>3, <3>1, <3>2 DEF RegistryInv
  <2>5. CASE ~HasTool(registry, name) /\ name \notin Reviewed
    <3>1. registry' = registry /\ report' = [report EXCEPT !.excluded = @ \cup {name}]
      BY <1>5, <2>5 DEF RegisterRemote
    <3>2. name \notin Names(registry)
      BY <2>5 DEF HasTool
    <3>3. /\ report' \in Reports /\ Accounted(report') = Accounted(report) \cup {name}
          /\ report'.excluded = report.excluded \cup {name}
      BY <2>0, <2>1, <3>1, ReportOne DEF RegistryInv, Reports
    <3> HIDE DEF name
    <3> QED  BY <1>0, <2>1, <2>2, <2>3, <2>5, <3>1, <3>2, <3>3 DEF RegistryInv
  <2>6. CASE ~HasTool(registry, name) /\ name \in Reviewed
    <3>1. registry' = registry \cup {Proxied(name)} /\ report' = [report EXCEPT !.registered = @ \cup {name}]
      BY <1>5, <2>6 DEF RegisterRemote
    <3>2. name \notin Names(registry) /\ name \notin Names(Early)
      BY <2>2, <2>6 DEF HasTool, RegistryInv
    <3>3. Proxied(name) \in Known /\ Proxied(name).origin = "proxy" /\ Proxied(name).name = name
      BY <2>6, Origins DEF Known
    <3>4. report' \in Reports /\ Accounted(report') = Accounted(report) \cup {name} /\ report'.excluded = report.excluded
      BY <2>0, <2>1, <3>1, ReportOne DEF RegistryInv, Reports
    <3>5. \A t, u \in registry' : t.name = u.name => t = u
      BY <3>1, <3>2, <3>3 DEF RegistryInv
    <3>6. \A t \in registry' : t.origin = "proxy" => t.name \in (Reviewed \cap Has) \ Names(Early)
      BY <2>1, <2>6, <3>1, <3>2, <3>3 DEF RegistryInv
    <3>7. Names(registry') = Names(registry) \cup {name} /\ registry' \subseteq Known
      BY <3>1, <3>3 DEF RegistryInv
    <3> HIDE DEF name, Names, Seen
    <3> QED  BY <1>0, <2>1, <2>2, <2>3, <2>6, <3>4, <3>5, <3>6, <3>7 DEF RegistryInv
  <2> QED  BY <2>4, <2>5, <2>6
<1>6. CASE RegisterAlias
  <2>1. /\ phase' = "later" /\ UNCHANGED <<offered, next>> /\ next = Len(offered) + 1 /\ Has' = Has
    BY <1>0, <1>6 DEF RegisterAlias, RegistryInv, Has
  <2>2. "run_tests" \notin Has
    BY <1>0 DEF RemoteTools, Reviewed, ReadPolicy, WritePolicy, DestructivePolicy
  <2>3. CASE "run_tests" \notin Names(registry) /\ registry' = registry \cup {Alias}
             /\ report' = [report EXCEPT !.registered = @ \cup {"run_tests"}]
    <3>1. report' \in Reports /\ Accounted(report') = Accounted(report) /\ report'.excluded = report.excluded
      BY <2>3 DEF RegistryInv, Reports, Accounted, ToolNames
    <3>2. Early' = Early
      BY <2>1 DEF Early
    <3>3. Alias.origin = "alias" /\ Alias.name = "run_tests" /\ Alias \in Known
      BY Origins
    <3>4. \A t, u \in registry' : t.name = u.name => t = u
      BY <2>3, <3>3 DEF RegistryInv
    <3>5. \A t \in registry' : t.origin = "proxy" => t \in registry
      BY <2>3, <3>3
    <3>6. Names(registry') = Names(registry) \cup {"run_tests"} /\ registry' \subseteq Known
      BY <2>3, <3>3 DEF RegistryInv
    <3>7. Seen' = Seen
      BY <2>1
    <3> HIDE DEF Names, Seen
    <3> QED  BY <1>0, <2>1, <2>2, <3>1, <3>2, <3>4, <3>5, <3>6, <3>7 DEF RegistryInv
  <2>4. CASE UNCHANGED <<registry, report>>
    BY <2>1, <2>4 DEF RegistryInv, Early
  <2> QED  BY <1>6, <2>3, <2>4 DEF RegisterAlias, HasTool, Alias
<1>7. CASE RegisterLater
  <2>1. /\ registry' = AddIfMissing(registry, LaterTools) /\ UNCHANGED <<offered, next, report>>
        /\ phase = "later" /\ phase' = "serving" /\ Has' = Has /\ Early' = Early
    BY <1>7 DEF RegisterLater, Has, Early
  <2>2. /\ \A t, u \in registry' : t.name = u.name => t = u
        /\ registry' \subseteq registry \cup LaterTools
        /\ Names(registry') = Names(registry) \cup Names(LaterTools)
    BY <2>1, BatchNames, AddIfMissingNames DEF RegistryInv
  <2>3. \A t \in registry' : t \in Known /\ (t.origin = "proxy" => t \in registry)
    BY <2>2, Origins DEF RegistryInv
  <2>4. Names(LaterTools) \cap (Has \ Reviewed) = {}
    <3>1. Names(LaterTools) \subseteq {"get_ditrix_edt_capabilities", "find_references", "memory_put"}
      BY DEF LaterTools, Tool
    <3> QED  BY <1>0, <3>1 DEF RemoteTools, Reviewed, ReadPolicy, WritePolicy, DestructivePolicy
  <2> QED  BY <1>0, <2>1, <2>2, <2>3, <2>4 DEF RegistryInv
<1> QED  BY <1>1, <1>2, <1>3, <1>4, <1>5, <1>6, <1>7 DEF Start

\* Calls, EDT and a start that is over do not touch the registry.
LEMMA RegistryUntouched ==
  ASSUME RegistryInv, UNCHANGED startVars
  PROVE  RegistryInv'
<1>1. /\ UNCHANGED <<phase, offered, next, registry, report>>
      /\ Has' = Has /\ Early' = Early /\ Seen' = Seen
  BY DEF startVars, Has, Early, Seen
<1> QED  BY <1>1 DEF RegistryInv

-----------------------------------------------------------------------------
(* Calls *)

Places == {"idle", "ready", "wait", "pause", "done"}

\* The errors a guarded write asks for last, which it can do without.
Spare(j) == GuardedWrite(j.tool) /\ j.plan[Len(j.plan)].tool = "get_project_errors"

\* Where a call can be with what it has sent and what has been executed of it.
Fits(place, j) ==
  /\ j.plan \in Seq(Lawful(j.tool, j.confirm, j.op)) /\ ReadsFirst(j.tool, j.plan)
  /\ j.end = "refused" => \A i \in DOMAIN j.plan : Harmless(j.plan[i])
  /\ \A i \in DOMAIN j.ran : j.ran[i] = i
  /\ j.inflight \in {0, 1} /\ Len(j.ran) <= j.at /\ j.at - 1 <= Len(j.ran) /\ Len(j.ran) <= Len(j.plan)
  /\ j.inflight = 1 => Len(j.ran) = j.at - 1 /\ j.at <= Len(j.plan)
  /\ place = "idle" => j.ran = <<>> /\ j.inflight = 0 /\ j.outcome = "none"
  /\ place \in {"ready", "wait", "pause"} => j.at <= Len(j.plan) /\ j.outcome = "none"
  /\ place \in {"ready", "pause"} => j.inflight = 0 /\ Len(j.ran) = j.at - 1 /\ j.attempts < MaxAttempts
  /\ place = "wait" => (j.reply = "none" <=> j.inflight = 1)
  /\ place = "wait" /\ j.reply = "ok" => Len(j.ran) = j.at
  /\ place = "wait" /\ j.reply = "building" => Len(j.ran) = j.at - 1
  /\ j.outcome = "ok" => Len(j.ran) = Len(j.plan) \/ (Len(j.ran) = Len(j.plan) - 1 /\ Spare(j))
  /\ j.outcome \in {"refused", "preview"} => j.inflight = 0 /\ \A i \in DOMAIN j.ran : Harmless(j.plan[i])
  /\ j.outcome \in {"building", "cancelled"} => Len(j.ran) = j.at - 1 /\ j.inflight = 0

JobInv ==
  /\ building \in BOOLEAN /\ builds \in 0..MaxBuilds
  /\ pc \in [Calls -> Places] /\ job \in [Calls -> Job]
  /\ \A c \in Calls : Fits(pc[c], job[c])

LEMMA Bounds == MaxAttempts \in Nat \ {0} /\ MaxBuilds \in Nat
BY ProxyAssumption

\* Calls keep out of each other's way.
LEMMA OneCall ==
  ASSUME JobInv, NEW c \in Calls, NEW place \in Places, NEW j \in Job, Fits(place, j),
         pc' = [pc EXCEPT ![c] = place], job' = [job EXCEPT ![c] = j], UNCHANGED <<building, builds>>
  PROVE  JobInv'
BY DEF JobInv

LEMMA KnownKinds == Known \subseteq Kinds
<1>1. ASSUME NEW name \in ToolNames, NEW origin \in {"native", "facade", "proxy", "alias", "none"},
             NEW reads \in BOOLEAN, NEW destroys \in BOOLEAN
      PROVE  Tool(name, origin, reads, destroys) \in Kinds
  BY DEF Tool, Kinds
<1>2. /\ {"get_object_structure", "get_metadata_tree", "get_ditrix_edt_capabilities", "find_references",
           "memory_put", "run_tests"} \subseteq ToolNames
      /\ Facades \subseteq ToolNames /\ Reviewed \subseteq ToolNames
  BY DEF ToolNames, Facades, RemoteTools, Reviewed, ReadPolicy
<1>3. BaseTools \cup LaterTools \cup {Alias} \subseteq Kinds
  BY <1>1, <1>2 DEF BaseTools, LaterTools, Alias
<1>4. \A name \in Facades : Facade(name) \in Kinds
  BY <1>2 DEF Facade, Tool, Kinds
<1>5. \A name \in Reviewed : Proxied(name) \in Kinds
  BY <1>2 DEF Proxied, Tool, Kinds
<1> QED  BY <1>3, <1>4, <1>5 DEF Known

\* One more step that was executed: the next of the plan.
LEMMA AppendedRuns ==
  ASSUME NEW ran \in Seq(Nat \ {0}), NEW at \in Nat \ {0}, Len(ran) = at - 1, \A i \in DOMAIN ran : ran[i] = i
  PROVE  Len(Append(ran, at)) = at /\ \A i \in DOMAIN Append(ran, at) : Append(ran, at)[i] = i
<1>1. /\ Len(Append(ran, at)) = Len(ran) + 1 /\ Append(ran, at)[Len(ran) + 1] = at
      /\ \A i \in 1..Len(ran) : Append(ran, at)[i] = ran[i]
      /\ DOMAIN Append(ran, at) = 1..(Len(ran) + 1) /\ DOMAIN ran = 1..Len(ran)
  OBVIOUS
<1> QED  BY <1>1

LEMMA NoJobFits == NoJob \in Job /\ Fits("idle", NoJob)
<1>1. NoTool \in Kinds
  BY DEF NoTool, Tool, Kinds, ToolNames
<1>2. NoJob = [tool |-> NoTool, confirm |-> FALSE, op |-> "", plan |-> <<>>, end |-> "ok", at |-> 1,
               attempts |-> 0, inflight |-> 0, reply |-> "none", ran |-> <<>>, outcome |-> "none"]
  <2>1. Alone.plan = <<>> /\ Alone.end = "ok"
    BY DEF Alone, Ask
  <2> QED  BY <2>1 DEF NoJob, Begun
<1>3. NoJob \in Job
  <2>1. /\ 0 \in 0..MaxAttempts /\ 1 \in Nat \ {0} /\ 0 \in Nat
        /\ <<>> \in Seq(Step) /\ <<>> \in Seq(Nat \ {0})
    BY Bounds
  <2>2. "" \in Operations
    BY ProxyAssumption
  <2> QED  BY <1>1, <1>2, <2>1, <2>2 DEF Job
<1>4. Fits("idle", NoJob)
  <2>1. /\ NoJob.plan = <<>> /\ NoJob.ran = <<>> /\ NoJob.at = 1 /\ NoJob.inflight = 0
        /\ NoJob.outcome = "none" /\ NoJob.end = "ok"
    BY <1>2
  <2>2. ReadsFirst(NoJob.tool, NoJob.plan)
    BY <2>1 DEF ReadsFirst
  <2> QED  BY <2>1, <2>2 DEF Fits
<1> QED  BY <1>3, <1>4

\* Sending: the only step that puts a request on its way, from where none is.
LEMMA SendFits ==
  ASSUME NEW j \in Job, Fits("ready", j),
         NEW k, k = [j EXCEPT !.attempts = @ + 1, !.inflight = @ + 1, !.reply = "none"]
  PROVE  k \in Job /\ Fits("wait", k)
<1>1. /\ k.tool = j.tool /\ k.confirm = j.confirm /\ k.op = j.op /\ k.plan = j.plan /\ k.end = j.end /\ k.at = j.at
      /\ k.ran = j.ran /\ k.outcome = j.outcome
      /\ k.attempts = j.attempts + 1 /\ k.inflight = j.inflight + 1 /\ k.reply = "none"
  BY DEF Job
<1>2. j.attempts + 1 \in 0..MaxAttempts /\ j.inflight + 1 \in Nat
  BY Bounds DEF Job, Fits
<1>3. k \in Job
  BY <1>2 DEF Job
<1> QED  BY <1>1, <1>3 DEF Job, Fits

LEMMA AdvanceFits ==
  ASSUME NEW j \in Job, NEW place \in Places, Fits(place, j), j.at < Len(j.plan), Len(j.ran) = j.at,
         j.inflight = 0, j.outcome = "none",
         NEW k \in Job, k.tool = j.tool, k.confirm = j.confirm, k.op = j.op, k.plan = j.plan, k.end = j.end,
         k.at = j.at + 1, k.attempts < MaxAttempts, k.inflight = j.inflight, k.ran = j.ran,
         k.outcome = j.outcome
  PROVE  Fits("ready", k)
<1>1. j.at \in Nat /\ Len(j.plan) \in Nat
  BY DEF Job
<1>2. /\ k.plan \in Seq(Lawful(k.tool, k.confirm, k.op)) /\ ReadsFirst(k.tool, k.plan)
      /\ k.end = "refused" => \A i \in DOMAIN k.plan : Harmless(k.plan[i])
      /\ \A i \in DOMAIN k.ran : k.ran[i] = i
  BY DEF Fits
<1> QED  BY <1>1, <1>2 DEF Fits

LEMMA LastFits ==
  ASSUME NEW j \in Job, NEW place \in Places, Fits(place, j), Len(j.ran) = Len(j.plan), j.inflight = 0,
         NEW k, k = [j EXCEPT !.outcome = j.end]
  PROVE  k \in Job /\ Fits("done", k)
<1>1. /\ k.tool = j.tool /\ k.confirm = j.confirm /\ k.op = j.op /\ k.plan = j.plan /\ k.end = j.end
      /\ k.at = j.at /\ k.ran = j.ran /\ k.inflight = j.inflight /\ k.outcome = j.end
      /\ j.end \in {"ok", "refused"}
  BY DEF Job
<1>2. k \in Job
  BY DEF Job
<1>3. DOMAIN k.ran = 1..Len(k.ran) /\ DOMAIN k.plan = 1..Len(k.plan)
  BY <1>2 DEF Job
<1> QED  BY <1>1, <1>2, <1>3 DEF Fits

LEMMA ReceiveFits ==
  ASSUME NEW j \in Job, Fits("wait", j), j.reply = "ok"
  PROVE  /\ j.at < Len(j.plan) =>
              LET k == [j EXCEPT !.at = @ + 1, !.attempts = 0, !.reply = "none"]
              IN k \in Job /\ Fits("ready", k)
         /\ ~(j.at < Len(j.plan)) =>
              LET k == [j EXCEPT !.outcome = j.end] IN k \in Job /\ Fits("done", k)
<1>0. /\ j.at \in Nat \ {0} /\ Len(j.plan) \in Nat /\ Len(j.ran) = j.at /\ j.inflight = 0
      /\ j.outcome = "none" /\ j.at <= Len(j.plan)
  BY DEF Job, Fits
<1>1. ASSUME j.at < Len(j.plan), NEW k, k = [j EXCEPT !.at = @ + 1, !.attempts = 0, !.reply = "none"]
      PROVE  k \in Job /\ Fits("ready", k)
  <2>1. /\ k.tool = j.tool /\ k.confirm = j.confirm /\ k.op = j.op /\ k.plan = j.plan /\ k.end = j.end
        /\ k.at = j.at + 1 /\ k.ran = j.ran /\ k.outcome = j.outcome /\ k.attempts = 0 /\ k.inflight = j.inflight
    BY <1>1 DEF Job
  <2>2. j.at + 1 \in Nat \ {0} /\ 0 \in 0..MaxAttempts /\ 0 < MaxAttempts
    BY Bounds DEF Job
  <2>3. k \in Job
    BY <1>1, <2>2 DEF Job
  <2> QED  BY <1>0, <1>1, <2>1, <2>2, <2>3, AdvanceFits DEF Places
<1>2. ASSUME ~(j.at < Len(j.plan)), NEW k, k = [j EXCEPT !.outcome = j.end]
      PROVE  k \in Job /\ Fits("done", k)
  <2>1. Len(j.ran) = Len(j.plan)
    BY <1>0, <1>2
  <2> QED  BY <1>0, <1>2, <2>1, LastFits DEF Places
<1> QED  BY <1>1, <1>2

\* A step of the handler's own: taken, or not.
LEMMA DidFits ==
  ASSUME NEW j \in Job, Fits("ready", j), NEW did, did = [j EXCEPT !.ran = Append(@, j.at)]
  PROVE  /\ did \in Job /\ Fits("done", did)
         /\ Len(did.ran) = j.at
<1>1. /\ did.tool = j.tool /\ did.confirm = j.confirm /\ did.op = j.op /\ did.plan = j.plan /\ did.end = j.end
      /\ did.at = j.at /\ did.ran = Append(j.ran, j.at) /\ did.inflight = j.inflight /\ did.outcome = j.outcome
  BY DEF Job
<1>2. Append(j.ran, j.at) \in Seq(Nat \ {0})
  BY DEF Job
<1>3. did \in Job
  BY <1>2 DEF Job
<1>4. /\ j.at \in Nat \ {0} /\ Len(j.plan) \in Nat /\ Len(j.ran) = j.at - 1 /\ j.at <= Len(j.plan)
      /\ j.inflight = 0 /\ j.outcome = "none"
  BY DEF Job, Fits
<1>5. Len(did.ran) = j.at /\ \A i \in DOMAIN did.ran : did.ran[i] = i
  BY <1>1, <1>4, AppendedRuns DEF Job, Fits
<1>6. /\ did.plan \in Seq(Lawful(did.tool, did.confirm, did.op)) /\ ReadsFirst(did.tool, did.plan)
      /\ did.end = "refused" => \A i \in DOMAIN did.plan : Harmless(did.plan[i])
  BY <1>1 DEF Fits
<1>7. Fits("done", did)
  BY <1>1, <1>4, <1>5, <1>6 DEF Fits
<1> QED  BY <1>3, <1>5, <1>7

LEMMA DoOwnFits ==
  ASSUME NEW j \in Job, Fits("ready", j), NEW did, did = [j EXCEPT !.ran = Append(@, j.at)]
  PROVE  /\ j.at < Len(j.plan) =>
              LET k == [did EXCEPT !.at = @ + 1] IN k \in Job /\ Fits("ready", k)
         /\ j.at = Len(j.plan) =>
              LET k == [did EXCEPT !.outcome = j.end] IN k \in Job /\ Fits("done", k)
         /\ \A i \in {j, did} : LET k == [i EXCEPT !.outcome = "failed"] IN k \in Job /\ Fits("done", k)
<1>1. did \in Job /\ Fits("done", did) /\ Len(did.ran) = j.at
  BY DidFits
<1>2. /\ j.at \in Nat \ {0} /\ Len(j.plan) \in Nat /\ j.inflight = 0 /\ j.outcome = "none"
      /\ j.attempts < MaxAttempts
  BY DEF Job, Fits
<1>3. /\ did.at = j.at /\ did.plan = j.plan /\ did.end = j.end /\ did.inflight = 0
      /\ did.outcome = "none" /\ did.attempts = j.attempts
  BY <1>2 DEF Job
<1>4. ASSUME j.at < Len(j.plan), NEW k, k = [did EXCEPT !.at = @ + 1]  PROVE k \in Job /\ Fits("ready", k)
  <2>1. /\ k.tool = did.tool /\ k.confirm = did.confirm /\ k.op = did.op /\ k.plan = did.plan
        /\ k.end = did.end /\ k.at = did.at + 1 /\ k.ran = did.ran /\ k.outcome = did.outcome
        /\ k.attempts = did.attempts /\ k.inflight = did.inflight
    BY <1>1, <1>4 DEF Job
  <2>2. k \in Job
    <3>1. did.at + 1 \in Nat \ {0}
      BY <1>2, <1>3
    <3> QED  BY <1>1, <1>4, <3>1 DEF Job
  <2> QED  BY <1>1, <1>2, <1>3, <1>4, <2>1, <2>2, AdvanceFits DEF Places
<1>5. ASSUME j.at = Len(j.plan), NEW k, k = [did EXCEPT !.outcome = j.end]  PROVE k \in Job /\ Fits("done", k)
  BY <1>1, <1>3, <1>5, LastFits DEF Places
<1>6. ASSUME NEW i \in {j, did}, NEW k, k = [i EXCEPT !.outcome = "failed"]  PROVE k \in Job /\ Fits("done", k)
  <2>1. i \in Job /\ Fits("done", i)
    BY <1>1 DEF Fits
  <2> QED  BY <1>6, <2>1 DEF Job, Fits
<1> QED  BY <1>4, <1>5, <1>6

\* The guarded write that ends with a read: nothing before it did harm.
LEMMA ConcludeFits ==
  ASSUME NEW j \in Job, Fits("wait", j), j.reply = "ok", GuardedWrite(j.tool),
         j.plan[j.at].tool \in {"read_module_source", "read_method_source"},
         NEW outcome \in {"refused", "preview"}, NEW k, k = [j EXCEPT !.outcome = outcome]
  PROVE  k \in Job /\ Fits("done", k)
<1>1. /\ j.at \in Nat \ {0} /\ Len(j.plan) \in Nat /\ Len(j.ran) = j.at /\ j.at <= Len(j.plan)
      /\ j.inflight = 0 /\ DOMAIN j.ran = 1..Len(j.ran) /\ DOMAIN j.plan = 1..Len(j.plan)
  BY DEF Job, Fits
<1>2. \A i \in DOMAIN j.ran : Harmless(j.plan[i])
  <2>1. ReadsFirst(j.tool, j.plan)
    BY DEF Fits
  <2>2. \A i \in DOMAIN j.ran : i \in DOMAIN j.plan /\ i <= j.at
    BY <1>1
  <2> QED  BY <1>1, <2>1, <2>2 DEF ReadsFirst
<1>3. /\ k.tool = j.tool /\ k.confirm = j.confirm /\ k.op = j.op /\ k.plan = j.plan /\ k.end = j.end
      /\ k.at = j.at /\ k.ran = j.ran /\ k.inflight = j.inflight /\ k.outcome = outcome
  BY DEF Job
<1>4. k \in Job
  BY DEF Job
<1> QED  BY <1>1, <1>2, <1>3, <1>4 DEF Fits

\* A guarded write that got no errors of the project has written.
LEMMA ToleratedFits ==
  ASSUME NEW j \in Job, NEW place \in {"wait", "pause"}, Fits(place, j), Tolerated(j),
         NEW k, k = [j EXCEPT !.outcome = "ok"]
  PROVE  k \in Job /\ Fits("done", k)
<1>1. /\ j.at \in Nat \ {0} /\ Len(j.plan) \in Nat /\ Len(j.ran) \in Nat
      /\ j.at - 1 <= Len(j.ran) /\ Len(j.ran) <= j.at /\ j.at = Len(j.plan) /\ Spare(j)
  BY DEF Job, Fits, Tolerated, Spare
<1>2. /\ k.tool = j.tool /\ k.confirm = j.confirm /\ k.op = j.op /\ k.plan = j.plan /\ k.end = j.end
      /\ k.at = j.at /\ k.ran = j.ran /\ k.inflight = j.inflight /\ k.outcome = "ok"
  BY DEF Job
<1>3. k \in Job
  BY DEF Job
<1> QED  BY <1>1, <1>2, <1>3 DEF Fits, Spare

\* The ends that tell nothing of what EDT did.
LEMMA EndFits ==
  ASSUME NEW j \in Job, NEW outcome \in {"failed", "lost"}, NEW place \in {"wait", "pause"}, Fits(place, j),
         NEW k, k = [j EXCEPT !.outcome = outcome]
  PROVE  k \in Job /\ Fits("done", k)
BY DEF Job, Fits

\* ... and those that say that nothing was executed.
LEMMA NothingRanFits ==
  ASSUME NEW j \in Job, NEW outcome \in {"building", "cancelled"},
         Fits("pause", j) \/ (Fits("wait", j) /\ j.reply = "building"),
         NEW k, k = [j EXCEPT !.outcome = outcome]
  PROVE  k \in Job /\ Fits("done", k)
BY DEF Job, Fits

LEMMA PauseFits ==
  ASSUME NEW j \in Job
  PROVE  /\ Fits("wait", j) /\ j.reply = "building" /\ j.attempts < MaxAttempts => Fits("pause", j)
         /\ Fits("pause", j) => Fits("ready", j)
BY DEF Job, Fits

\* An answer: to a caller that waits, or to nobody.
LEMMA AnswerFits ==
  ASSUME NEW j \in Job, NEW place \in Places, Fits(place, j), j.inflight > 0,
         NEW reply \in {"failed", "building"},
         NEW k, k = [j EXCEPT !.inflight = @ - 1, !.reply = IF place = "wait" THEN reply ELSE @]
  PROVE  k \in Job /\ Fits(place, k)
<1>1. /\ k.tool = j.tool /\ k.confirm = j.confirm /\ k.op = j.op /\ k.plan = j.plan /\ k.end = j.end /\ k.at = j.at
      /\ k.ran = j.ran /\ k.outcome = j.outcome /\ k.attempts = j.attempts /\ k.inflight = j.inflight - 1
      /\ k.reply = IF place = "wait" THEN reply ELSE j.reply
  BY DEF Job
<1>2. j.inflight - 1 \in Nat /\ (IF place = "wait" THEN reply ELSE j.reply) \in {"none", "ok", "failed", "building"}
  BY DEF Job, Fits
<1>3. k \in Job
  BY <1>2 DEF Job
<1>4. /\ k.plan \in Seq(Lawful(k.tool, k.confirm, k.op)) /\ ReadsFirst(k.tool, k.plan)
      /\ k.end = "refused" => \A i \in DOMAIN k.plan : Harmless(k.plan[i])
      /\ \A i \in DOMAIN k.ran : k.ran[i] = i
      /\ Spare(k) <=> Spare(j)
  BY <1>1 DEF Fits, Spare
<1>5. j.inflight = 1 /\ k.inflight = 0
  BY <1>1 DEF Fits
<1> QED  BY <1>1, <1>3, <1>4, <1>5 DEF Fits, Places

\* An execution: the request is the next of the plan, for the ones before have run.
LEMMA ExecuteFits ==
  ASSUME NEW j \in Job, NEW place \in Places, Fits(place, j), j.inflight > 0,
         NEW reply \in {"ok", "failed"},
         NEW k, k = [j EXCEPT !.ran = Append(@, j.at), !.inflight = @ - 1,
                              !.reply = IF place = "wait" THEN reply ELSE @]
  PROVE  k \in Job /\ Fits(place, k)
<1>1. /\ k.tool = j.tool /\ k.confirm = j.confirm /\ k.op = j.op /\ k.plan = j.plan /\ k.end = j.end /\ k.at = j.at
      /\ k.ran = Append(j.ran, j.at) /\ k.outcome = j.outcome /\ k.attempts = j.attempts
      /\ k.inflight = 0 /\ k.reply = IF place = "wait" THEN reply ELSE j.reply
  BY DEF Job, Fits
<1>2. k \in Job
  <2>1. /\ j.inflight - 1 \in Nat /\ Append(j.ran, j.at) \in Seq(Nat \ {0})
        /\ (IF place = "wait" THEN reply ELSE j.reply) \in {"none", "ok", "failed", "building"}
    BY DEF Job, Fits
  <2> QED  BY <2>1 DEF Job
<1>3. Len(j.ran) = j.at - 1 /\ j.at <= Len(j.plan)
  BY DEF Job, Fits
<1>4. Len(k.ran) = j.at /\ \A i \in DOMAIN k.ran : k.ran[i] = i
  <2>1. j.ran \in Seq(Nat \ {0}) /\ j.at \in Nat \ {0} /\ \A i \in DOMAIN j.ran : j.ran[i] = i
    BY DEF Job, Fits
  <2> QED  BY <1>1, <1>3, <2>1, AppendedRuns
<1> QED  BY <1>1, <1>2, <1>3, <1>4 DEF Job, Fits, Places

\* A call that begins: what HandlerSound says of its requests is what Fits asks of them.
LEMMA CallFits ==
  ASSUME NEW t \in Known, NEW a \in Arguments, NEW h, Sound(h, t, a), ReadsFirst(t, h.plan),
         NEW outcome, outcome = IF h.plan = <<>> THEN h.end ELSE "none",
         NEW k, k = Begun(t, a.confirm, a.op, h, outcome)
  PROVE  k \in Job /\ Fits(IF h.plan = <<>> THEN "done" ELSE "ready", k)
<1>1. t \in Kinds
  BY KnownKinds
<1>2. h.plan \in Seq(Step)
  <2>1. Lawful(t, a.confirm, a.op) \subseteq Step
    BY DEF Lawful
  <2> QED  BY <2>1 DEF Sound
<1>3. k \in Job
  <2>1. /\ 0 \in 0..MaxAttempts /\ 1 \in Nat \ {0} /\ 0 \in Nat /\ <<>> \in Seq(Nat \ {0})
    BY Bounds
  <2>2. a.confirm \in BOOLEAN /\ a.op \in Operations
    BY DEF Arguments
  <2>3. h.end \in {"ok", "refused"} /\ outcome \in {"none", "ok", "refused"}
    BY DEF Sound
  <2> QED  BY <1>1, <1>2, <2>1, <2>2, <2>3 DEF Job, Begun
<1>4. /\ k.tool = t /\ k.plan = h.plan /\ k.end = h.end /\ k.op = a.op /\ k.at = 1 /\ k.attempts = 0
      /\ k.inflight = 0 /\ k.ran = <<>> /\ k.reply = "none"
      /\ k.outcome = IF h.plan = <<>> THEN h.end ELSE "none"
  BY DEF Begun
<1>5. k.confirm = a.confirm
  BY DEF Begun
<1>6. h.end \in {"ok", "refused"} /\ (h.plan # <<>> => Len(h.plan) \in Nat \ {0})
  BY DEF Sound
<1> QED  BY <1>3, <1>4, <1>5, <1>6, Bounds DEF Fits, Sound

LEMMA JobInit == Init => JobInv
<1>1. 0 \in 0..MaxBuilds /\ "idle" \in Places
  BY Bounds DEF Places
<1> QED  BY <1>1, NoJobFits DEF Init, JobInv

LEMMA JobUntouched == ASSUME JobInv, UNCHANGED callVars  PROVE JobInv'
BY DEF JobInv, callVars

\* The step of a call, of its caller or of EDT for it.
LEMMA JobStep ==
  ASSUME RegistryInv, JobInv, NEW c \in Calls,
         \/ CallStep(c) \/ Cancel(c) \/ RefuseBuilding(c) \/ Execute(c) \/ Reject(c)
         \/ \E a \in Requests[c] : Call(c, a)
  PROVE  JobInv'
<1> DEFINE j == job[c]
<1>0. j \in Job /\ pc[c] \in Places /\ Fits(pc[c], j) /\ pc = [pc EXCEPT ![c] = pc[c]] /\ job = [job EXCEPT ![c] = j]
  BY DEF JobInv
<1>1. CASE Send(c)
  <2> DEFINE k == [j EXCEPT !.attempts = @ + 1, !.inflight = @ + 1, !.reply = "none"]
  <2>1. /\ pc[c] = "ready" /\ pc' = [pc EXCEPT ![c] = "wait"] /\ job' = [job EXCEPT ![c] = k]
        /\ UNCHANGED <<building, builds>>
    BY <1>1 DEF Send, Goto, Note
  <2>2. k \in Job /\ Fits("wait", k)
    BY <1>0, <2>1, SendFits
  <2> HIDE DEF k
  <2> QED  BY <2>1, <2>2, OneCall DEF Places
<1>2. CASE Receive(c)
  <2> DEFINE k == [j EXCEPT !.at = @ + 1, !.attempts = 0, !.reply = "none"]
             last == [j EXCEPT !.outcome = j.end]
  <2>1. j.reply = "ok" /\ pc[c] = "wait" /\ UNCHANGED <<building, builds>>
    BY <1>2 DEF Receive
  <2>2. \/ j.at < Len(j.plan) /\ pc' = [pc EXCEPT ![c] = "ready"] /\ job' = [job EXCEPT ![c] = k]
        \/ ~(j.at < Len(j.plan)) /\ pc' = [pc EXCEPT ![c] = "done"] /\ job' = [job EXCEPT ![c] = last]
    BY <1>2 DEF Receive, Goto, Note, Finish
  <2>3. /\ j.at < Len(j.plan) => k \in Job /\ Fits("ready", k)
        /\ ~(j.at < Len(j.plan)) => last \in Job /\ Fits("done", last)
    BY <1>0, <2>1, ReceiveFits
  <2> HIDE DEF j, k, last
  <2> QED  BY <2>1, <2>2, <2>3, OneCall DEF Places
<1>3. CASE ReceiveUnusable(c) \/ ReceiveFailure(c) \/ Lose(c)
  <2>1. PICK outcome \in {"failed", "lost"} :
          /\ Finish(c, outcome) \/ GiveUp(c, outcome)
          /\ pc[c] = "wait" /\ UNCHANGED <<building, builds>>
    BY <1>3 DEF ReceiveUnusable, ReceiveFailure, Lose
  <2>2. PICK ending : /\ Finish(c, ending) /\ (ending = outcome \/ (ending = "ok" /\ Tolerated(j)))
    BY <2>1 DEF GiveUp
  <2> DEFINE k == [j EXCEPT !.outcome = ending]
  <2>3. k \in Job /\ Fits("done", k)
    BY <1>0, <2>1, <2>2, EndFits, ToleratedFits
  <2>4. pc' = [pc EXCEPT ![c] = "done"] /\ job' = [job EXCEPT ![c] = k]
    BY <2>2 DEF Finish, Goto, Note
  <2> HIDE DEF k
  <2> QED  BY <2>1, <2>3, <2>4, OneCall DEF Places
<1>4. CASE TooLate(c) \/ Cancel(c)
  <2>1. PICK outcome \in {"building", "cancelled"}, place \in {"pause", "wait"} :
          /\ GiveUp(c, outcome) /\ UNCHANGED <<building, builds>>
          /\ pc[c] = place /\ (place = "wait" => j.reply = "building")
    BY <1>4 DEF TooLate, Cancel, IsProjectBuilding
  <2>2. PICK ending : /\ Finish(c, ending) /\ (ending = outcome \/ (ending = "ok" /\ Tolerated(j)))
    BY <2>1 DEF GiveUp
  <2> DEFINE k == [j EXCEPT !.outcome = ending]
  <2>3. k \in Job /\ Fits("done", k)
    <3>1. Fits(place, j) /\ (Fits("pause", j) \/ (Fits("wait", j) /\ j.reply = "building"))
      BY <1>0, <2>1
    <3> QED  BY <1>0, <2>2, <3>1, NothingRanFits, ToleratedFits
  <2>4. pc' = [pc EXCEPT ![c] = "done"] /\ job' = [job EXCEPT ![c] = k]
    BY <2>2 DEF Finish, Goto, Note
  <2> HIDE DEF k
  <2> QED  BY <2>1, <2>3, <2>4, OneCall DEF Places
<1>5. CASE Pause(c) \/ Retry(c)
  <2>1. PICK place \in {"pause", "ready"} : Fits(place, j) /\ pc' = [pc EXCEPT ![c] = place]
    BY <1>0, <1>5, PauseFits DEF Pause, Retry, IsProjectBuilding, Goto
  <2>2. job' = [job EXCEPT ![c] = j] /\ UNCHANGED <<building, builds>>
    BY <1>0, <1>5 DEF Pause, Retry
  <2>3. j \in Job /\ place \in Places
    BY <1>0 DEF Places
  <2> HIDE DEF j
  <2> QED  BY <2>1, <2>2, <2>3, OneCall
<1>6. CASE RefuseBuilding(c) \/ Reject(c)
  <2>1. PICK reply \in {"failed", "building"} :
          Answer(c, j, reply) /\ j.inflight > 0 /\ UNCHANGED <<building, builds, pc>>
    BY <1>6 DEF RefuseBuilding, Reject
  <2> DEFINE k == [j EXCEPT !.inflight = @ - 1, !.reply = IF pc[c] = "wait" THEN reply ELSE @]
  <2>2. k \in Job /\ Fits(pc[c], k)
    BY <1>0, <2>1, AnswerFits
  <2>3. job' = [job EXCEPT ![c] = k]
    BY <2>1 DEF Answer, Note
  <2> HIDE DEF k
  <2> QED  BY <1>0, <2>1, <2>2, <2>3, OneCall
<1>7. CASE Execute(c)
  <2>1. PICK reply \in {"ok", "failed"} :
          /\ Answer(c, [j EXCEPT !.ran = Append(@, j.at)], reply)
          /\ j.inflight > 0 /\ UNCHANGED <<building, builds, pc>>
    BY <1>7 DEF Execute
  <2> DEFINE k == [j EXCEPT !.ran = Append(@, j.at), !.inflight = @ - 1,
                            !.reply = IF pc[c] = "wait" THEN reply ELSE @]
  <2>2. k \in Job /\ Fits(pc[c], k)
    BY <1>0, <2>1, ExecuteFits
  <2>3. job' = [job EXCEPT ![c] = k]
    BY <1>0, <2>1 DEF Answer, Note, Job
  <2> HIDE DEF k
  <2> QED  BY <1>0, <2>1, <2>2, <2>3, OneCall
<1>8. ASSUME NEW a \in Requests[c], Call(c, a)  PROVE JobInv'
  <2>1. PICK t \in registry :
          LET h == Handler(t, a, Has)
          IN IF h.plan = <<>>
               THEN Goto(c, "done") /\ Note(c, Begun(t, a.confirm, a.op, h, h.end))
               ELSE Goto(c, "ready") /\ Note(c, Begun(t, a.confirm, a.op, h, "none"))
    BY <1>8 DEF Call
  <2> DEFINE h == Handler(t, a, Has)
             outcome == IF h.plan = <<>> THEN h.end ELSE "none"
             k == Begun(t, a.confirm, a.op, h, outcome)
             place == IF h.plan = <<>> THEN "done" ELSE "ready"
  <2>2. t \in Known /\ a \in Arguments
    BY <1>8, ProxyAssumption DEF RegistryInv
  <2>3. Sound(h, t, a) /\ ReadsFirst(t, h.plan)
    BY <2>2, HandlerSound, HandlerReadsFirst
  <2>4. pc' = [pc EXCEPT ![c] = place] /\ job' = [job EXCEPT ![c] = k]
    BY <2>1 DEF Goto, Note
  <2>5. UNCHANGED <<building, builds>>
    BY <1>8 DEF Call
  <2> HIDE DEF h
  <2>6. k \in Job /\ Fits(place, k)
    BY <2>2, <2>3, CallFits
  <2>7. place \in Places
    BY DEF Places
  <2> HIDE DEF k, place
  <2> QED  BY <2>4, <2>5, <2>6, <2>7, OneCall
<1>9. CASE DoOwn(c)
  <2> DEFINE did == [j EXCEPT !.ran = Append(@, j.at)]
             next1 == [did EXCEPT !.at = @ + 1]
             last == [did EXCEPT !.outcome = j.end]
             failed(i) == [i EXCEPT !.outcome = "failed"]
  <2>1. /\ pc[c] = "ready" /\ UNCHANGED <<building, builds>>
        /\ \/ j.at < Len(j.plan) /\ pc' = pc /\ job' = [job EXCEPT ![c] = next1]
           \/ j.at = Len(j.plan) /\ pc' = [pc EXCEPT ![c] = "done"] /\ job' = [job EXCEPT ![c] = last]
           \/ \E i \in {j, did} : pc' = [pc EXCEPT ![c] = "done"] /\ job' = [job EXCEPT ![c] = failed(i)]
    BY <1>9 DEF DoOwn, Goto, Note
  <2>2. /\ j.at < Len(j.plan) => next1 \in Job /\ Fits("ready", next1)
        /\ j.at = Len(j.plan) => last \in Job /\ Fits("done", last)
        /\ \A i \in {j, did} : failed(i) \in Job /\ Fits("done", failed(i))
    BY <1>0, <2>1, DoOwnFits
  <2>3. pc' = pc => pc' = [pc EXCEPT ![c] = "ready"]
    BY <1>0, <2>1
  <2> HIDE DEF j, did, next1, last, failed
  <2> QED  BY <2>1, <2>2, <2>3, OneCall DEF Places
<1>10. CASE Conclude(c)
  <2>1. PICK outcome \in {"refused", "preview"} : Finish(c, outcome)
    BY <1>10 DEF Conclude
  <2> DEFINE k == [j EXCEPT !.outcome = outcome]
  <2>2. /\ pc[c] = "wait" /\ j.reply = "ok" /\ GuardedWrite(j.tool) /\ UNCHANGED <<building, builds>>
        /\ j.plan[j.at].tool \in {"read_module_source", "read_method_source"}
    BY <1>10 DEF Conclude, Current
  <2>3. k \in Job /\ Fits("done", k)
    BY <1>0, <2>2, ConcludeFits
  <2>4. pc' = [pc EXCEPT ![c] = "done"] /\ job' = [job EXCEPT ![c] = k]
    BY <2>1 DEF Finish, Goto, Note
  <2> HIDE DEF k
  <2> QED  BY <2>2, <2>3, <2>4, OneCall DEF Places
<1> QED  BY <1>1, <1>2, <1>3, <1>4, <1>5, <1>6, <1>7, <1>8, <1>9, <1>10 DEF CallStep

-----------------------------------------------------------------------------
(* The invariants, and the properties that follow from them *)

LEMMA InvariantHolds == Spec => [](RegistryInv /\ JobInv)
<1>1. Init => RegistryInv /\ JobInv
  BY RegistryInit, JobInit
<1>2. RegistryInv /\ JobInv /\ [Next]_vars => (RegistryInv /\ JobInv)'
  <2> SUFFICES ASSUME RegistryInv, JobInv, [Next]_vars  PROVE (RegistryInv /\ JobInv)'
    OBVIOUS
  <2>1. CASE Start
    <3>1. UNCHANGED callVars
      BY <2>1 DEF Start, Configure, RegisterBase, Discover, RegisterCompatibility, RegisterRemote,
                  RegisterAlias, RegisterLater
    <3> QED  BY <2>1, <3>1, RegistryStep, JobUntouched
  <2>2. ASSUME NEW c \in Calls,
               \/ CallStep(c) \/ Cancel(c) \/ RefuseBuilding(c) \/ Execute(c) \/ Reject(c)
               \/ \E a \in Requests[c] : Call(c, a)
        PROVE  (RegistryInv /\ JobInv)'
    <3>1. UNCHANGED startVars
      BY <2>2 DEF CallStep, DoOwn, Send, Receive, ReceiveUnusable, Conclude, ReceiveFailure, Pause, TooLate, Retry, Lose,
                  Cancel, RefuseBuilding, Execute, Reject, Call
    <3> QED  BY <2>2, <3>1, JobStep, RegistryUntouched
  <2>3. CASE StartBuild \/ EndBuild
    <3>1. UNCHANGED startVars
      BY <2>3 DEF StartBuild, EndBuild
    <3>2. JobInv'
      <4>1. UNCHANGED <<pc, job>> /\ building' \in BOOLEAN
        BY <2>3 DEF StartBuild, EndBuild
      <4>2. builds' \in 0..MaxBuilds
        BY <2>3, Bounds DEF StartBuild, EndBuild, JobInv
      <4> QED  BY <4>1, <4>2 DEF JobInv
    <3> QED  BY <3>1, <3>2, RegistryUntouched
  <2>4. CASE UNCHANGED vars
    BY <2>4, RegistryUntouched, JobUntouched DEF vars, callVars
  <2> QED  BY <2>1, <2>2, <2>3, <2>4 DEF Next
<1> QED  BY <1>1, <1>2, PTL DEF Spec

\* Every variable keeps its type: no request is sent more often than it may be.
THEOREM ProxyTypes == Spec => []TypeOK
<1>1. RegistryInv /\ JobInv => TypeOK
  BY KnownKinds DEF RegistryInv, JobInv, Places, Reports, TypeOK
<1> QED  BY <1>1, InvariantHolds, PTL

\* Whatever a plug-in offers, in whatever order and how often, no name is served by
\* two tools, none of the server's own is replaced, nothing unreviewed is served.
THEOREM RegistryTheorem == Spec => []RegistryIsSound
<1>1. RegistryInv => RegistryIsSound
  <2> SUFFICES ASSUME RegistryInv  PROVE RegistryIsSound
    OBVIOUS
  <2>1. phase = "serving" => Seen = Has
    <3>1. offered \in Seq(RemoteTools)
      BY ProxyAssumption DEF RegistryInv
    <3> QED  BY <3>1 DEF RegistryInv, Seen, Has
  <2> QED  BY <2>1 DEF RegistryInv, RegistryIsSound, Accounted, Early
<1> QED  BY <1>1, InvariantHolds, PTL

\* No arguments take a request out of the fixed project.
THEOREM ProjectTheorem == Spec => []StaysInProject
<1>1. JobInv => StaysInProject
  <2> SUFFICES ASSUME JobInv, NEW c \in Calls, NEW i \in DOMAIN job[c].plan
               PROVE  LET r == job[c].plan[i] IN AcceptsProject(r.tool) => r.project = "fixed"
    BY DEF StaysInProject
  <2>1. job[c].plan[i] \in Lawful(job[c].tool, job[c].confirm, job[c].op)
    BY DEF JobInv, Fits
  <2> QED  BY <2>1 DEF Lawful
<1> QED  BY <1>1, InvariantHolds, PTL

\* No arguments change anything through a read, or past a confirmation; the two cases
\* that go past one are those the property names.
THEOREM AnnouncedTheorem == Spec => []AsAnnounced
<1>1. JobInv => AsAnnounced
  <2> SUFFICES ASSUME JobInv, NEW c \in Calls, NEW i \in DOMAIN job[c].ran
               PROVE  LET j == job[c]
                          r == j.plan[j.ran[i]]
                      IN Changes(r) =>
                           /\ ~j.tool.readOnly
                           /\ \/ j.tool.name \in {"launch_debugger", "edit_metadata", "update_configuration"}
                              \/ r.tool \in OwnSteps
                              => j.confirm \/ Unasked(j, r)
    BY DEF AsAnnounced
  <2> DEFINE j == job[c]
             r == j.plan[j.ran[i]]
  <2>1. j \in Job /\ Fits(pc[c], j)
    BY DEF JobInv
  <2>2. r \in Lawful(j.tool, j.confirm, j.op)
    <3>1. j.ran[i] = i /\ i \in 1..Len(j.plan)
      BY <2>1 DEF Job, Fits
    <3> QED  BY <2>1, <3>1 DEF Fits
  <2>3. Exempt(j.op, r) => Unasked(j, r)
    BY DEF Exempt, Unasked
  <2> QED  BY <2>2, <2>3 DEF Lawful, Confirming
<1> QED  BY <1>1, InvariantHolds, PTL

\* A step is executed once at most, and what a caller is told of it is true and stays
\* true: the next attempt is made only when EDT answered that it builds, a refusal
\* comes before any change, and the one request whose failure is passed over is the last.
THEOREM ProxyOutcomeTheorem == Spec => []OutcomeIsTrue
<1>1. JobInv => OutcomeIsTrue
  <2> SUFFICES ASSUME JobInv, NEW c \in Calls
               PROVE  LET j == job[c]
                      IN /\ \A i \in DOMAIN j.ran : j.ran[i] = i
                         /\ j.outcome = "ok" => \A i \in DOMAIN j.plan :
                              \/ i \in DOMAIN j.ran
                              \/ GuardedWrite(j.tool) /\ j.plan[i].tool = "get_project_errors"
                         /\ j.outcome \in {"refused", "preview"} =>
                              \A i \in DOMAIN j.ran : Changes(j.plan[i]) => j.plan[i].tool = "PrepareSource"
                         /\ j.outcome \in {"building", "cancelled"} => Len(j.ran) < j.at /\ j.inflight = 0
    BY DEF OutcomeIsTrue
  <2> DEFINE j == job[c]
  <2>1. j \in Job /\ Fits(pc[c], j)
    BY DEF JobInv
  <2>2. /\ DOMAIN j.ran = 1..Len(j.ran) /\ DOMAIN j.plan = 1..Len(j.plan)
        /\ Len(j.ran) \in Nat /\ Len(j.plan) \in Nat /\ j.at \in Nat
    BY <2>1 DEF Job
  <2>3. j.outcome = "ok" => \A i \in DOMAIN j.plan :
          i \in DOMAIN j.ran \/ (GuardedWrite(j.tool) /\ j.plan[i].tool = "get_project_errors")
    <3> SUFFICES ASSUME j.outcome = "ok", NEW i \in DOMAIN j.plan, i \notin DOMAIN j.ran
                 PROVE  GuardedWrite(j.tool) /\ j.plan[i].tool = "get_project_errors"
      OBVIOUS
    <3>1. Len(j.ran) = Len(j.plan) - 1 /\ Spare(j)
      BY <2>1, <2>2 DEF Fits
    <3>2. i = Len(j.plan)
      BY <2>2, <3>1
    <3> QED  BY <3>1, <3>2 DEF Spare
  <2> QED  BY <2>1, <2>2, <2>3 DEF Fits, Harmless
<1> QED  BY <1>1, InvariantHolds, PTL

=============================================================================
