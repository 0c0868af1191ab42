# TLA+ specifications of 1C_MCP

1C_MCP lets an MCP client (Codex) work on 1C:Enterprise configurations. A Go server
(`mcp-wrapper`) is started by the client and speaks STDIO with it. It reaches the
configuration in four ways: it runs the Designer of the platform on an infobase, reads
and edits a dump of the configuration on the disk, calls a plug-in of its own inside
1C:EDT (`edt-bridge`, Java) over a loopback HTTP port, and calls other MCP servers
(DitriX).

Most tools only read and format; a model of them would repeat them. What can go wrong in
ways a test hardly reaches is where the server *changes* something that it does not own
and cannot lock: an infobase, a project open in EDT, a tree of sources, a cache shared
between processes. Those parts are modelled here. All paths below are under `src/`; `G/`
stands for `mcp-wrapper/internal/`, `J/` for
`edt-bridge/bundles/org.example.ui/src/com/codex/onec/edt/mcp/`.

Contents: [the parts of the system](#the-parts-of-the-system) ·
[what is modelled](#the-modules) · [the runs](#the-runs) · [fairness](#fairness) ·
[findings](#findings) · [the proofs](#the-proofs) ·
[what is left out](#what-is-left-out) · [plan](#plan)

## The parts of the system

Two facts about scheduling hold everywhere. The Go server handles tool calls
concurrently (`G/mcp/server.go`, one goroutine per request), and a client may start
several servers, which share work directories, caches and infobases and nothing else.
The plug-in gives each connection a thread of its own. Any process can be killed.

| part | state | operations | meets | correct when |
|---|---|---|---|---|
| metadata clone manager `G/metadata/` | per plan a directory: `manifest.json`, canonical dump, CF backup; a mutex per process | prepare, apply (with rollback), discard, list, status | Designer, other servers on the directory, people in Configurator | a plan is loaded only while fresh; a backup exists as long as it is needed; the manifest is true |
| Designer client `G/designer/` | none; log and exit code of each command | dump, load, update, backup, restore | the platform, with a timeout of 30 minutes | a failure is never taken for a success |
| configuration merge `G/configmerge/` | saved plans, snapshots, prepared source trees | prepareSource, compare, merge, cleanup, status, export | the project's files, edited by others; no lock | files become what was asked and reviewed; whatever is overwritten is in the snapshot |
| technological log `G/techlog/` | `logcfg.xml`, its backup in the work directory, log files | enable, disable, clear, analyze, status | the administrator, the 1C server, other work directories; no lock | the administrator's file is never lost; an analysis names the longest events |
| EDT metadata plans `J/EdtMetadataService.java` | plans in memory for two hours; a monitor | prepareClone, applyClone, discard, health, inspect | the developer who edits the project meanwhile | a plan changes the project once, exactly, and not after it was dropped |
| EDT bridge `J/EdtBridgeServer.java`, `J/Activator.java`, `G/edt/client.go` | a port, a token, `bridge.json` | start, stop, accept, dispatch; read `bridge.json`, call | several starts of EDT, the client's timeout | requests reach the EDT they were meant for; answers are true |
| EDT infobase binding `J/EdtInfobaseService.java` | associations of projects and infobases, kept by EDT | bind, unbind | EDT's infobase manager | not modelled |
| tool registry, DitriX client and proxy `G/mcp/server.go`, `G/tools/ditrix_proxy.go`, `rsv_compat.go`, `medium_compat.go`, `large_subsystems.go`, `G/ditrix/` | the list of tools, fixed after the start | register; call: refuse, lock on the project, send, retry while EDT builds | another MCP server inside EDT | one tool per name, reviewed tools only; a call stays in its project, is carried out at most once, and changes nothing unannounced, but for what is named below |
| BSL module writing `G/tools/rsv_compat.go` | backups of modules | write_module_source: read in pages, edit, guard, back up, write | EDT, the developer, other calls | what is written is the edit of the text it replaces, as far as the pages bring that over |
| dump index `G/dump/index.go` | a cache file per dump | Open: freshness, walk, pool of goroutines, save | files rewritten meanwhile, other processes | the index says what the files say; opening never hangs |
| extension installer `G/installer/` | a temporary tree of sources; the extension in the infobase | install, with a cascade of retries | every version of the platform | it succeeds where its cascade can and lowers no more than it must |
| profiles and workspace memory `G/profile/`, `G/workspace/`, `mcp-wrapper/cmd/mcp-1c-analog/commands.go` | a file per profile; managed blocks of Codex's `config.toml`; a notes file | setup, remove, import, serve; put, list | Codex and the user, who write `config.toml` too | a registered server has a profile it can start with; nobody else's text is touched |
| external objects `J/EdtExternalObjectService.java`, `G/tools/managed_external.go`, `export_object.go` | EDT projects, built artifacts | import, build, replace | EDT, Designer | not modelled |
| Vanessa runner, git tools, analysis, quality rules, BSL help, dumps of forms and subsystems, HTTP service, command line | none of their own | read, run one command, format | | not modelled, see [below](#what-is-left-out) |

What is hard in each is listed line by line under `hazards` in `PROJECT.json`, with the
properties that would notice it.

## The modules

Every module models the whole of the handlers named with it. Shared state is a variable,
each stretch of code between two points where another actor can come in is an action,
`pc` says where a call is (`caller` in `EdtBridge`, `doing` in `Profiles`). Data is abstracted to what the properties tell apart: a hash
is the thing hashed, a configuration is the set of its objects. Variables commented
`history` are read by no guard. Operators commented `Mutant` are plausible bugs, each of
which a property notices; they are part of no specification.

### MetadataClone, PlanLifecycle

`G/metadata/manager.go`: `Prepare` dumps the infobase, adds a copy of an object, loads
the result into a throw-away infobase, compares and saves a plan. `Apply` dumps again,
compares fingerprints, backs up, *notes the backup in the manifest*, loads, updates the
database, dumps once more to verify, and saves `applied`; a failure after the load
rolls back. `Discard` removes the directory.

State: `main` and `db` (the two configurations of an infobase), `plan[id]` (the
manifest), `canonical[id]`, `backup[id]`, and per server process `pc`, `cur`, `mem` (its
copy of the manifest). The mutex of a process is the guard `pc = "idle"` of the three
beginnings; nothing orders two processes. Each Designer command has an action that
succeeds and one that fails, with its effect or without it (log, exit code, timeout).
`os.RemoveAll` may stop half-way. `Crash` loses the memory of a process, `EditMain` and
`EditDb` are other people.

`PlanLifecycle` is what the tools promise without saying how: a plan is prepared once,
may be installed until it is settled or dropped, and what is settled or dropped stays
so. `MetadataClone` implements it (`FollowsLifecycle`), with `origin`, the plan whose
content was loaded last, as the abstract `holder`.

### ConfigMerge

`G/configmerge/manager.go`: a project is compared with another tree (a directory, or
the dump `prepareSource` made of a `.cf`), and a reviewed plan is merged file by file
after a snapshot, with or without a common ancestor. Trees map paths to contents. A
merge checks the fingerprint of the project and makes the directory of its snapshot
(`MergeBegin`), copies, then handles the files in lexical order, each read and written
when its turn comes. The name of a snapshot has the second in it, so two merges can
share one; a file missing from the ancestor reads as empty; a write may be cut short
(`Torn`). Edits and cleanups come in between.

### EdtPlans

`J/EdtMetadataService.java`: `prepareClone` reads the source's UUID and then the
fingerprint of the project; `applyClone` compares them, has EDT copy and attach the
object, renames it, looks for it, and deletes the copy when a step fails, which EDT may
refuse as well. Both hold the monitor; `discard` does not. The clock lets plans expire;
a restart of EDT loses plans and requests and keeps the project.

### EdtBridge

Sessions of EDT, each with a token and a port it is told to use (two of them the same),
and calls through `bridge.json`. A session opens the port, writes the file, starts the
thread that accepts; `stop` and `startBridge` exclude each other; closing deletes the
file whoever wrote it; a kill leaves it; a start that cannot write it leaves the port
open with nobody behind it. A call reads the file, connects to whoever has that port
now, and is accepted if the token is that session's. The caller may give up while the
handler goes on, so `caller` and `handler` (the request) are apart.

### ModuleWrite

`write_module_source` of `G/tools/rsv_compat.go`: the module is read from EDT in pages,
with the hash of the first page; edited in one of seven ways (the method's lines are
looked up by a request of their own); checked against the caller's expectations and the
50 % guard; backed up; and written with the hash, which EDT compares. Developers and
other calls change the module between any two requests; answers are refused or lost.

A text is a sequence of words and line breaks, for the breaks are what the reading may lose.
The source of a page is cut out of a Markdown fence by a pattern that takes the line break
before the closing fence for the fence's own (`rsv_compat.go:21`), and the pages are joined
with nothing in between (`:471`): `Chunk`. Whether EDT puts a break of its own there is not
in this repository (the one answer a test shows, `rsv_compat_test.go:58`, is of a single line),
nor is whether it gives a hash, or a further start line with a page that is not the last.
`edt`, any of the eight manners, keeps all of it open. A page cut short without a further start line (`:463`)
and the last of a thousand pages (`:443`) end the reading as if the module ended there;
without a hash of EDT's the server makes one of what it put together (`:468`).

### DumpIndex

`dump.Open`: load the cache; compare size and time of one file after the other; if they
differ, or the number of files does, walk the dump and hand the paths to a pool of
goroutines over unbuffered channels. A worker stats, reads, sends, in that order; a
channel's rendezvous is one action; the collected documents replace the cache by a
rename. Unreadable files are dropped without a word, as in the code.

### InstallExtension

`G/installer/upstream.go`: the sources are lowered to what is known of the platform,
loaded, and, as long as the log of Designer complains of something known, lowered by the
next remedy of one fixed cascade and loaded again; then the database is updated, with
one more retry. `base` is the infobase and its platform with all they may complain of,
`src` the sources as far as remedies change them. The log of a failed command (`err`) may
name any of the complaints there are: all of them, one, or none; no order is assumed.
`missed` (history) are the complaints that were not named when their remedy had its turn.

### DitrixProxy

Two halves. The *start* (`legacyMain`, `RegisterDitrixEDTWithOptions`): the server
registers its own tools, facades over what the plug-in offers (`CompatibilityNeeds`),
one by one the offered tools that were reviewed (`ditrixToolPolicies`), the alias
`run_tests`, and last the analysis tools, each only if the name is free. `registry` and
`report` are what these steps leave.

The *calls*: `Handler` says for every tool and arguments what its handler goes through, a
`plan` of steps, and whether the call ends as answered or refused when all of them succeeded.
A step is a request to EDT or a thing the server does itself (`OwnSteps`: preparing a source,
merging, cleaning up, the technological log, Vanessa), which `ConfigMerge` and `Techlog` have
in detail and which here is done, half done or not done (`DoOwn`). The plan of
`write_module_source` is its pages, the method's text, the write, and the errors of the project;
`Conclude` is every way its handler ends after a read, refusing or with nothing to write;
`Tolerated` is that last request, whose failure the handler passes over
(`rsv_compat.go:321`). `updateVendor` prepares its source before anything asks for a
confirmation (`large_subsystems.go:180`), and merges with `acceptAll`.

`pc` and `job` follow a call through `callToolOnce`, the retry every half second while
EDT builds (`attempts`), lost answers and cancellation. A request on its way (`inflight`)
may be executed after its caller has gone. A facade with two dozen operations is
represented by one operation of each kind (read, write, delete, with and without the
project).

### Techlog

`G/techlog/manager.go`: `Enable` reads `logcfg.xml`, copies it into the work directory
unless a copy is there, and replaces it; the copy is written in place and hence torn
meanwhile (`EnableKeep`, `EnableSave`). `WriteAtomic` renames, and when that is refused
removes the old file first (`WriteAgain`). `Disable` writes the copy back and then
removes it; without a copy it removes the configuration, whoever wrote it. `Clear`
removes the log files at the top of the root, `Analyze` reads those of the whole tree one
after the other: the root is listed when it begins, a directory when the walk comes to it
(`todo` are the listed files, `unlisted` the places of the others, `AnalyzeList`; the model
may list each file of a directory at a time of its own, which covers all at once). `found` is the set of
events read so far, `Longest` the answers the sort, which is not stable, may give, and
`start` (history) the logs as the analysis found them. `upset` records (history) what the code cannot make up for, and
`OriginalIsKept` says precisely which of it.

### Profiles

`setup` saves `<id>.json` and then replaces the block of the profile in Codex's
`config.toml`; `profile remove` takes the block out and then the file; `profile import`
writes the file alone. `codex` is the sequence of the lines of `config.toml` with the
markers as the code finds them: `Marks` is a substring test, so the marker of `base`
is found in that of `base_test`. A command reads `config.toml` in one step (`Rewrites` keeps
the text read and the new one) and replaces it in another. `Options` and `Accepted` are what `serve` makes of a
profile and what the server refuses to start with. `PutRead` and `PutWrite` are
`memory_put`.

### MC modules

`MCMetadataClone`, `MCConfigMerge`, `MCEdtPlans`, `MCModuleWrite`, `MCDumpIndex`,
`MCInstallExtension`, `MCEdtBridge`, `MCDitrixProxy`, `MCTechlog` and `MCProfiles` give
the constants values that a `.cfg` cannot write and declare the symmetry. Symmetry is
used only where the values are just compared and the properties of the run are safety
properties.

## The runs

| run | instance | shows |
|---|---|---|
| `clone_one_server` | 1 process, 2 plans, 2 objects, 2 edits, 1 kill | backups, manifests and infobase stay consistent; plans follow `PlanLifecycle` |
| `clone_two_servers` | 2 processes, 1 plan, 2 objects, 1 edit | a manifest still means a validated dump; calls return |
| `clone_unaccounted` | 1 process, 1 plan | *violated*: an apply can end with the infobase changed and the manifest `prepared` |
| `merge` | 2 calls, 2 files, 3 starting trees, 1 edit, 2 merges | a merge does what was asked and can be undone |
| `edt_plans` | 2 requests, 3 names, 2 plans, 1 edit, life 1 of 2 ticks | at most one copy per plan, exact applies, dropped plans stay out |
| `module_write` | 2 calls, pages of 1 line, 2 pages at most, modules up to 3 lines, every manner of EDT, 2 edits | what is written is the edit of what it replaces, as far as the pages bring it over; backed up, not halved |
| `dump_index` | 2 processes, pools of 2, 2 files, 2 changes, 2 opens | the cache is sound, the index current, opening ends |
| `install_extension` | 9 platforms, every base, every log, 3 installs | the cascade is enough but for four named reasons, and no more than that |
| `edt_bridge` | 3 sessions (2 on one port), 2 calls | requests stay where they were meant, answers are true, calls return |
| `ditrix_proxy` | 2 calls (one of 31 kinds, one of 2), 3 lists of tools, 2 pages, 2 attempts, 2 builds | the registry is sound; calls stay in the project, change what was announced, run once, return |
| `techlog` | 2 calls, 2 work directories, 2 logs (one perhaps missing at first), 3 calls in all, 1 edit, 1 change of the logs, 1 kill | the administrator's file survives; analyses answer with the longest events |
| `profiles` | 2 calls, 3 profiles (one id begins another), 3 calls in all, 1 edit | registered servers can start; foreign text and notes survive |

Why the bounds are enough. The properties relate at most two plans, two calls or two
sessions, so two actors show every interference between a pair, and the third session
shows a port that is taken over *while* another instance runs. Every numeric bound is
one more than its hazard needs: in the clone runs one edit makes a plan stale and the second
falls between check and load; in `module_write` one edit changes the module and the second
changes it back; three installs are one that leaves something half-done, one that fails
on it and one that must repair it; in `module_write` pages of one line have a module of two
lines read to the end and one of three cut off; two attempts are one that meets the build and one that is the
last; in `ditrix_proxy` the calls share nothing but the build, so one call of every kind
beside one that reads or writes is enough, and one list of tools offers everything (one tool twice)
while another lacks what most facades need and the third what the guarded write may do without; in `techlog` three calls are an
enable, an enable or a failed disable after it, and a disable. `MCPlatforms` has the versions on both sides of each
boundary in the installer. Calls, work directories and the administrator's configurations
of `techlog` are interchangeable, hence its symmetry. `MCStarts` has a pair of files for each way two sides and an
ancestor differ. Of everything but liveness the proofs remove the bounds altogether.

Deadlock is not checked: a server without calls, with its bounds used up, rightly stops.
That calls do not get stuck is stated as liveness where the code waits for something.

### The properties, and what would break them

* `BackupOutlivesChange`: while the infobase holds what a plan loaded, its manifest names
  a whole backup, of the configuration the plan was prepared from. Breaks if the
  manifest is saved after the load, or if a second apply overwrites the first backup,
  which only the fingerprint check prevents.
* `PreparedIsComplete`: whoever crashed, a manifest means a validated dump.
* `LoadsOnlyFreshPlan`, `SettlesTruthfully`: what is loaded over what, and what
  `applied` and `rolled_back` say of both configurations.
* `HandledAsAsked`, `CompletedAsAskedAndUndoable`: for every prefix of a merge, the files
  handled are what was asked for and what was overwritten is in the snapshot. `Asked` is
  the reference, taken from what the tool answers about its rules; `DeletedByMerge` is the
  case where code and answer differ (see [divergences](#findings)).
* `AttachedOnce`, `ApplyIsExact`: retries, races with the developer and with `discard`,
  and restarts of EDT: one copy per plan, none after the plan was dropped, and exactly
  the one asked for.
* `WritesWhatWasAsked`: the reference is the edit applied in one piece to the text that
  is replaced, so any mixture of revisions is noticed. What the edit was made of is that text
  exactly where the pages bring it over (`Whole`), and otherwise that text without some of
  its breaks and without what lies beyond the pages reached (`Received`): words are
  never mixed, repeated or put in another order.
* `OverwritesWithCare`: whatever is *replaced* (not what was read) is backed up, as good as
  it was received, and no more than half of the lines of that goes unless the caller allowed it.
* `CacheIsSound`: a stamp in the cache never vouches for another text. Breaks if a worker
  reads before it stats.
* `IndexIsCurrent`, `OpenReturns`: against lost documents, early exits of workers and a
  channel closed too soon.
* `SucceedsWherePossible`: an install that nothing disturbs fails only for one of four
  reasons: the platform is too old, the base holds no extensions, the extension it loaded itself is
  in the way of its reload (`InItsOwnWay`), or a complaint that still stands was not named
  by the log when its remedy had its turn (`missed`). Breaks if a remedy is missing, or
  if one comes that does not do what it is for.
* `NoMoreThanNeeded`: against a remedy that goes too far, or without the note about the role.
* `CarriedOutWhereMeant`, `OutcomeIsTrue`, `StoppedIsForgotten`, `CallReturns` (bridge):
  against an old `bridge.json`, a port taken over, a handler that goes on after the
  timeout, and a `stop` that overtakes `startBridge`.
* `RegistryIsSound`: one tool per name although four sources register them in turn; what
  is proxied was reviewed, offered, and not the server's own before; the report accounts
  for every offered tool. Breaks if one of the sources does not look whether the name is
  taken.
* `StaysInProject`: whichever way a request takes - proxy, alias, facade - it names the
  fixed project. Breaks if one facade forwards arguments without the lock.
* `AsAnnounced`: nothing is changed through a tool announced as a read, which clients
  approve unasked, nor by EDT for a confirming facade, or by the server itself, before the
  confirmation - refused calls and those that fail half-way included. Relates the
  annotations in one file to the switch over operations in another. `Unasked` names the two
  exceptions the code makes.
* `OutcomeIsTrue`, `CallReturns` (proxy): a step is executed at most once and in
  order however often its request was sent; an answered call had every step executed, but for the
  errors the guarded write asks for last; a refused or previewed one changed nothing but maybe
  prepared a source; giving up because of the build leaves nothing behind, and one
  deadline bounds all attempts.
* `OriginalIsKept`: the administrator's file is in force or saved after any sequence of
  calls, refusals and kills, and `Disable` has it back before it gives up the copy.
* `AnalysisIsLongest`: what an analysis names is in order, each event once; an event of the logs
  as they were when it began is missing only if the limit is reached by others at least so
  long; everything named was there or has been logged since. Relates an answer to the
  files at an earlier moment, while 1C goes on writing them. Removing a file meanwhile is
  exempt (`cleared`): the code then answers with a part, as a success.
* `RegisteredIsServed`: at every moment of every command, a server Codex is told to start
  has a profile, of a kind the server does not refuse. Relates two files written one
  after the other, and the conversion to the rules of another function.
* `NothingIsLost`: the lines between and around the managed blocks are the same and in the
  same order (`SameOthers` compares the n-th of one text with the n-th of the other), and
  so are the other notes.

Each of them has a mutant in `PROJECT.json`: a change of one definition, of the kind a
bug would be, under which its run finds the property violated.

## Fairness

* `clone_two_servers`: weak fairness of the steps of a call in progress (`Step`). Designer is killed after
  30 minutes (`G/designer/client.go:176`), file operations end; starting calls, kills and
  edits have no fairness.
* `dump_index`: weak fairness of the steps of `dump.Open` (`Opening`): goroutines that can run do. Starting,
  kills and changes of files have none.
* `edt_bridge`: weak fairness only of the caller's three steps, reading the file,
  connecting, and giving up: `http.Client` has a timeout of ten minutes
  (`G/edt/client.go:28`). EDT is trusted with nothing; it may hang in a dialogue.
* `ditrix_proxy`: weak fairness of the start and of the steps of a call: sending,
  receiving, pausing, giving up. They are those of the server and its timers
  (`G/ditrix/client.go:89`, `:132`). EDT is trusted with nothing: it may build forever or
  keep silent.

The other specifications have no fairness, and state no liveness.

## Findings

`clone_unaccounted` (`G/metadata/manager.go:219`). When the verification dump after
load and update fails, `Apply` returns the error without rollback and without saving the
manifest. The tool's description promises an "automatic rollback on failure"
(`G/tools/metadata.go:84`).

Met while modelling, stated in the modules as the exceptions of the passing properties, without a run of their own:

* **Clone.** The plan of such an apply is still `prepared`, so `Discard`, described as
  "delete an unapplied prepared plan" (`G/tools/metadata.go:109`), removes it with
  `backup-before-apply.cf` (`manager.go:258`).
* **Merge.** `mergeMain` deletes a file that only the project has: the scope is looked at
  before the rule (`G/configmerge/manager.go:299`), while the answer says "the selected
  priority side wins" (`:324`). `prepareSource` takes an existing directory for a complete
  dump (`:89`), and `DumpConfig` makes the directory before it starts Designer.
* **Registry.** "Native always wins" (`G/mcp/server.go:163`) holds for what is registered
  before the plug-in is asked; `find_references` of the analysis comes after, and gives way.
  When the plug-in offers `write_module_source` without `read_module_source` there is no
  facade, and the raw tool is proxied without the guards of `ModuleWrite`. The writing
  tools of the debugger need confirmation behind the facade and none when proxied.
* **Update.** `confirm` is "required for merge, updateVendor and cleanupSources"
  (`G/tools/large_subsystems.go:125`). Without it `updateVendor`, where EDT has no update of its own,
  still runs Designer and writes the tree of its source, before anything looks for a confirmation
  (`:180`). `replayCustomizations`, a merge with confirmation in the server's own mode (`:167`), reaches EDT's
  `update_configuration` without one (`:135`).
* **Module write.** Unless EDT puts a break of its own after each page, the last line of a page
  and the first of the next are written as one (`G/tools/rsv_compat.go:21`, `:471`). A page that is cut short without
  a further start line counts as the end (`:463`), so its rest is gone with the next write. The hash EDT compares is of
  its own text and passes both; a backup holds what was received.
* **Installer.** When the update refuses inherited properties, the sources are stripped and
  loaded over the extension loaded before, without the deletion of the cascade (`G/installer/upstream.go:281`): where
  a load does not replace an extension the install ends there, though the stripped extension
  would load after a deletion.
* **Technological log** (`docs/TOOLS_0_8.md:14` says disable restores). `Disable` without a
  copy deletes the administrator's file. `Enable` twice without any configuration saves
  the server's own as the original, which `Disable` then restores while it answers that
  logging is off. A copy torn by a crash is kept, and restored, by every later call.
  `Clear` leaves the files of subdirectories that `Analyze` reads. An analysis under which
  a file disappears answers, as a success, with what it has, unsorted and unlimited.
* **Profiles.** The block of a profile whose id begins another's is looked for by its
  marker as a substring (`G/profile/codex.go:71`) and may be taken from the other. A
  section somebody wrote by hand is refused only when the profile has no block (`:15`).
  `profile remove` with the id in capitals removes the file and leaves the block; the
  error of `RemoveCodexProfile` is ignored. A profile with `external_objects_root` but
  without bridge or DitriX registers a server that exits at the start.

## The proofs

TLC checks the instances above; the TLA+ proof system checks the following for every
value of the constants. The assumptions on constants (`ConstantsAssumption`,
`PlansAssumption`, `BridgeAssumption`, `ProxyAssumption`, `DumpAssumption`, `WriteAssumption`,
`TechlogAssumption`, `InstallAssumption`, `NoneAssumption`, `MergeAssumption`,
`ProfilesAssumption`) only say that model values are distinct, bounds are numbers, the files
of a dump are finitely many, "no such file" is no sequence of log lines, those of a merge are numbered in the order it takes them,
`config.toml` has no block of a profile before the first `setup`, no id begins
itself and goes on, and lists of tools, requests, lines and versions hold what the module knows. The
components proved about in one module, `EdtBridge` with `EdtPlans` and `InstallExtension` with
`Profiles`, share neither constants nor variables: a theorem is about one of them, whatever the
other does.

### MetadataCloneProofs

`TypeCorrect` holds for any number of processes. The others assume `OneServer`
(`\A p, q \in Servers : p = q`), because the mutex is local to a process and two
processes do overwrite each other's backups. Nothing in the repository keeps two servers
from sharing a work directory, and nothing promises that they may; `clone_two_servers`
shows what holds all the same.

* `BackupTheorem`, `PreparedTheorem`: `[]BackupOutlivesChange`, `[]PreparedIsComplete`.
* `FreshPlanTheorem`, `TruthTheorem`: the two action properties.
* `RefinementTheorem`: `Spec => FollowsLifecycle`, the initial state and every step mapped to one
  of `PlanLifecycle` or a stutter.

The properties are not inductive: nothing in `BackupOutlivesChange` says why `record`,
about to save the manifest, has a whole backup. The strengthening is a conjunction of
named parts: what a call knows of its plan at each value of `pc` (`CallKnowsItsPlan`),
that identifiers not drawn left no trace (`FreshIds`), that the dump of a plan matches
its manifest (`DumpMatches`), and where the infobase stands at each step of an apply
nobody raced (`InfobaseFollowsCall`). There is one lemma per action and group of parts.

### ConfigMergeProofs

`MergeTypes`, `HandledTheorem` and `CompletedTheorem` prove both invariants and the action
property for any number of calls, files, plans, edits and merges.

* `HandledAsAsked` is not inductive, for it does not say what the files still to come will be
  made of. `Undisturbed` adds what a merge that nobody raced may count on: the other tree is
  still as it was compared, and the snapshot is the project as far as it is copied.
* Two facts carry the steps. An edit, a cleanup or another call's write puts every merge that
  works on the tree into `raced`, so it leaves no other merge's `Undisturbed` to prove. And
  what is written to one file (`NewFile`, `MergeText`) is what `Asked` says of that file, by cases on
  the rule and the sides that have the file (`AskedOfMerge`, `WrittenAsAsked`).

### EdtProofs

**EdtBridge.** `BridgeTypes`, `MeantTheorem`, `OutcomeTheorem` and `ForgottenTheorem` prove the type
invariant and the three safety properties for any number of sessions, ports and calls.
Two invariants that do not need each other's history: `SessionInv` (a thread is in
`startBridge` only while its session's port is open, hence a session stopped in order
will not write the file again) and `CallInv`, whose part `Request(c)` ties the caller to
the request it may have left behind: a running request has not been carried out and is
where its token belongs; an answered or refused caller has no request left.

**EdtPlans.** `PlanTypes`, `AttachedTheorem` and `ExactTheorem` prove the type invariant and both action
properties for any number of requests, names, plans and edits.

* `TypeInv` is inductive by itself; its part `Mutex` (whoever is not idle holds the
  monitor, and is alone) is what the synchronized methods give, and lets every lemma
  about a step of one request say "the others are idle".
* `PlanInv` is why a plan attaches one copy although a failed apply keeps it: a plan that
  did is *outgrown*, the stamp in its fingerprint is below the stamp of the project for
  good, so that no later apply passes the comparison; and nobody works for a plan that was
  dropped.
* `ExactInv` says how far the project is, at each stage of an apply that nobody edited
  across, from the one its plan was prepared for.

### DitrixProxyProofs

`ProxyTypes`, `RegistryTheorem`, `ProjectTheorem`, `AnnouncedTheorem` and
`ProxyOutcomeTheorem` prove the type invariant and the four safety properties for any list of tools
the plug-in may offer (in any order, with repetitions), any number of calls, all
arguments, and any number of attempts.

* *Handlers.* `HandlerSound`: for every tool that can be registered and every argument
  record, the steps of the handler, requests and its own, are `Lawful`: in the project, and a
  change only where tool, confirmation and operation allow it; and those of a call that is
  refused in the end are `Harmless`. `HandlerReadsFirst`: so is all a guarded write
  does up to its last read, after which `Conclude` may end it (`Before` splits its plan there). There is one lemma per handler, and one for
  all that only read.
* *Registry.* `RegistryInv` is inductive: which tools there may be in each phase, that
  names differ, that the report matches the part of the list already seen. What the later
  phases add cannot clash because `AddIfMissing` asks, and because the tools of one batch
  have different names (`BatchNames`).
* *Calls.* `JobInv` says of each call, at its place `pc`, how far the caller, the request on
  its way and EDT can be apart (`Fits`): only the current request can be on its way, at
  most once, not yet executed; only a caller that lost an answer leaves one behind; and an
  answered call has executed its whole plan or, when the last step is `Spare`, all but that.

### DumpIndexProofs

`IndexTypes`, `CacheTheorem` and `CurrentTheorem` prove the three invariants for any number
of processes, files, goroutines, changes and openings. The strengthening `ProcInv` is
stated of the values one process holds, so that a step of another, or a change on the
disk, is one lemma for all:

* `Documents`: each was true of its stamp, and there is one per file. A change gives the
  file a stamp no document has, so this survives it.
* `Workers`: they hold different files, none of them still to be handed out or done.
* `Progress`: a file nobody changed is to be handed out, with a worker, or says in the
  documents what it says on the disk.
* `Checked`, for `cacheFresh`: that it looks for documents only of files that are there,
  and never for a file of a document, suffices because it counted them: as many documents as
  files, and one for each, leave no other (`Counted`, by cardinality).

### ModuleWriteProofs

`WriteTypes`, `AskedTheorem` and `CareTheorem` prove the type invariant and both action
properties for any number of calls, lines, methods and edits, and every page size.

* That the seven kinds of edit lead from texts to texts (`EditType` and the lemmas before
  it) rests on the library's theorems about sequences.
* `Faithful` is why the hash of the first page is enough although pages are read at
  different moments: while the module is the text of the hash, what was read so far is its
  first pages but for breaks (`Reading`), what was read to the end is `Received`, and what was decided was decided of
  it. A write is only accepted then. Whoever edits the module makes the premise false; only
  whoever restores the text brings it back, and `returned` sets those calls apart.
* `OnlyBreaksLost` is a map of the places of one text into those of another. `LostFromPage` gives it
  for a page as the fence pattern cuts it, `LostFromBoth` joins the maps of two pages,
  `AllReached` and `LastPage` say that the pages together are what `Reached` says.

### TechlogProofs

`TechlogTypes`, `OriginalTheorem` and `AnalysisTheorem` prove all three invariants for any
number of calls, work directories, configurations, kills and edits, and any number and length
of log files.

* `Safe` is the state between calls: a copy, where there is one, is the administrator's file,
  and where there is none his file is in force (or he has none).
* `Safe` fails while a copy is being written, for it is written in place and torn meanwhile;
  `Saving` says that the original is then still in its place. `Knows` lists what a call knows
  at each other step: that `Disable` writes back what the copy holds, and removes the copy
  only once that is in force.
* `KeptInv` says all this of runs with `upset` empty, in which one call at most changes the
  configuration. A step that could break it puts its cause into `upset` (`ToldStep`).
* *Analysis.* Files that are not removed only grow (`Grown`, `GrownByOne`), hence a line keeps its
  number. `Walked`: every matching event of the start is found, or lies in a file still to be
  read or listed; everything found is `Known`, of the start or later. With nothing left to read all
  of the start is found, and `LongestOf` says what the sort and the cut make of it: of as many
  different events as were found none is missing (an injection between finite sets of one
  size is onto). A walk that ends early has met a file that was removed (`AnalyzeEndsPartly`).

### SetupProofs

**InstallExtension.** `InstallTypes`, `SucceedsTheorem` and `NoMoreTheorem` prove all three invariants for any set
of platforms and any number of installs, failed and killed ones included.

* *Versions.* `FormatFits`: the format written is one the platform reads, whether its version
  is known or not. Which entry of the table is the first needs a least number, taken from
  the library's theorem that `<` is well-founded.
* *Cascade.* It never looks back, so a complaint that outlives its turn must have been missed
  by the log (`Past`). `NextTurn`: the remedy that comes next is for a complaint the log names,
  hence there is one, and it is taken for cause; those passed over go into `missed`.
* *Enough, and no more.* `Caused` says of the sources what `NoMoreThanNeeded` says of the
  result; `Cascade` says at each place how far `Past`, `Caused` and the note have come.

**Profiles.** `ProfilesTypes`, `ServedTheorem` and `LostTheorem` prove both invariants and the
action property for any ids (any of which may begin others), any number of overlapping
commands, kills and edits, and any text of the user in `config.toml`.

* *Text.* `WellFormed`: the lines of a block follow one another without a gap, from a begin
  marker to an end marker of one id. Hence the block that is found is one whole block, of the
  id or of a longer one (`BlockFound`), and without one nothing of the id is registered
  (`NoBlock`). Edits of lines that are of no block, joining texts, rendering a block and
  taking one out keep this.
* *Lines of others.* `SameByMap`: a map of the places of such lines in one text onto those in
  the other that keeps order and line shows `SameOthers`; `RemoveKeeps` gives that map for a
  text of which a block was taken out, and lines of its own were added. `WholeInv` carries
  it from the moment `config.toml` was read to the moment it is replaced.
* *Registered is served.* `ServedInv` says it of `config.toml` and of what a command is about to
  write, while one command is at work: no id has two blocks, hence taking one out leaves
  none (`RemoveDeregisters`), and `profile remove` is past that when it deletes the file.
  `ModeInv` adds that the sections are of the modes the profile asks for, but for the profile
  a `setup` saved a moment ago. Both say so of runs with their causes absent from `upset`;
  `UpsetGrows`: what happened is not forgotten.
* *Options.* `OptionsAccepted` is a fact about every set of fields and both modes.

### Only model-checked

Liveness (`EveryCallReturns`, `OpenReturns`, both `CallReturns`), for it needs fairness and
`ENABLED`, which the provers do not handle. Every other property of the passing runs is a theorem.

## What is left out

Within the modelled parts:

* **MetadataClone.** The XML transformation of `clone.go` is "the base and one more
  object". `List` and `Status` only read.
* **ConfigMerge.** The status of the last operation, the listing and export of
  differences, and the rules about object names are not modelled. The ancestor is not
  edited. The comparison and the fingerprint check read the trees at one moment. Merges
  that somebody raced are exempt from the properties, and so are two merges of the same
  plan in the same second, which share a snapshot.
* **EdtPlans.** Copying and attaching is one transaction of EDT, hence one step; file
  stamps grow with every change. An apply across which the developer edits is promised
  nothing beyond `AttachedOnce`. A discard that races an apply may answer "discarded" and the plan is
  applied all the same (`AttachedOnce` speaks of plans nobody was applying).
* **ModuleWrite.** A module that is changed and changed back to the text of the first page
  while the next are read deceives the hash (`returned`). A repeated `append` without an
  expectation appends twice. Reading the module in EDT is as the plug-in does it, page by
  page, each at one moment. A line of the module that begins with three backquotes would end the fence early;
  the texts have none.
* **DumpIndex.** A rewrite that keeps size *and* time of a file cannot be noticed, so each
  change gets a new stamp. The walk of the directory is one step. A file that makes no
  document (unreadable, or without a word) keeps the cache from ever being fresh, as in the code.
* **InstallExtension.** Whether Designer's log names all its complaints or only the first it
  meets is not in this repository. A remedy whose turn has passed is not tried again, so an
  install may fail where another order would succeed; `SucceedsWherePossible` promises nothing
  then (`missed`), nor where an extension stands in its own way (`InItsOwnWay`). A log that
  names what is not complained of is not modelled. The old extension is deleted before
  the new one is known to load: after a failure the base has none until the next install.
* **EdtBridge.** What a request does in EDT is one step (`EdtPlans` has it in detail). An
  EDT that stops late deletes the `bridge.json` of one started meanwhile, and a killed one
  leaves its own: that the file exists exactly while EDT runs (`docs/TESTING.md:36`)
  holds for one EDT that ends in order. Whether somebody who is no EDT has the port is not
  modelled.
* **DitrixProxy.** The tools stand for kinds: `ReadPolicy`, `WritePolicy` and the facades'
  operations are cut down to members that are treated differently. Sessions, schemas
  and formatting are left out. The raw `update_configuration` of the plug-in is not
  reviewed, hence reached only through the facade. The plan a comparison saves on this server's
  disk is not a step: it changes no source and no project (`ConfigMerge` has it). How many pages a module has
  is an argument here; `ModuleWrite` has their contents.
* **Techlog.** The times of events, rotation by size and the parsing of lines are
  abstracted to "an event or garbage"; the totals beside the list (events by name, lines that
  do not parse) and the partial answer of a walk that ends early are left out. Overlapping calls, two work directories on one
  `logcfg.xml`, and edits while a copy is kept are exempt from `OriginalIsKept`, for the
  code does lose the file then (`upset` names each case).
* **Profiles.** Values of fields are "set or not". Backups of `config.toml` carry the
  second in their name, and those of one second replace each other; they are not modelled,
  for nothing reads them. Overlapping commands lose each other's updates of
  `config.toml` and of the notes: `NothingIsLost` speaks of writes to a file that nobody
  changed since it was read.

Parts without a module: EDT infobase binding, external objects and their export (chains
of calls into EDT or Designer whose failures and effects are not defined in this
repository); git tools, the Vanessa runner (one external process each); analysis, quality
rules, BSL help, dumps of forms and subsystems (functions of files, made of regular
expressions and XML parsing); the HTTP service (BSL, run by the platform for each request
without state of its own); flags and wiring.

## Plan

Done: `MetadataClone` with `PlanLifecycle`, `ConfigMerge`, `EdtPlans`, `ModuleWrite`,
`DumpIndex`, `InstallExtension`, `EdtBridge`, `DitrixProxy`, `Techlog`, `Profiles`, and proofs
about all of them.

Modules worth having if EDT's interfaces were specified: infobase binding (a bind happens or
leaves no trace), and a composition of `EdtBridge` and `EdtPlans` (a client that repeats
an apply after a timeout, across a restart, changes the project once).
