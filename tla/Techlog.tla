------------------------------- MODULE Techlog -------------------------------
(***************************************************************************)
(* The technological log (internal/techlog/manager.go).  The 1C server     *)
(* logs what the administrator's logcfg.xml asks for.  Enable replaces the *)
(* file, after saving it in the work directory; Disable puts it back;      *)
(* Clear removes log files; Analyze reads them all and answers with the    *)
(* longest events.                                                         *)
(*                                                                         *)
(* The manager holds no lock: a session runs its calls at once, profiles   *)
(* with work directories of their own may name the same logcfg.xml, the    *)
(* administrator edits the file and the 1C server writes the logs.         *)
(***************************************************************************)
EXTENDS Integers, Sequences, FiniteSets, SequencesExt

CONSTANTS
  Calls,         \* calls that may run at once
  Dirs,          \* work directories; the calls of one are those of one server
  Originals,     \* configurations an administrator may write
  Nothing,       \* there is no such file
  Torn,          \* a copy that was cut short
  Presets,       \* Presets[p]: the events preset p asks for
  Logs,          \* paths of log files in the order of the walk
  TopLevel,      \* those that lie in the log root itself
  Lines,         \* the lines the 1C server may write
  Garbage,       \* a line that is no event
  StartLogs,     \* what the log files may hold at the start
  Requests,      \* the calls asked for
  DefaultLimit, MaxLimit,  \* limits of an analysis (50 and 1000)
  MaxCalls, MaxEdits, MaxLogged, MaxKills  \* bounds: calls, edits, changes of logs, kills

ASSUME TechlogAssumption ==
  /\ Calls # {} /\ Nothing \notin Originals /\ Torn \notin Originals /\ Nothing # Torn /\ Nothing \notin Seq(Lines)
  /\ TopLevel \subseteq ToSet(Logs) /\ DefaultLimit \in Nat /\ MaxLimit \in Nat
  /\ StartLogs \subseteq [ToSet(Logs) -> Seq(Lines) \cup {Nothing}]
  /\ \A r \in Requests : /\ r.kind = "enable" => r.minimum \in Int
                         /\ r.kind = "analyze" => r.limit \in Int

\* What Enable writes: the events asked for and the duration they must exceed.
Own == [events : {Presets[p] : p \in DOMAIN Presets}, minimum : Nat]

Contents == Originals \cup Own \cup {Nothing, Torn}

VARIABLES
  config,   \* logcfg.xml
  backup,   \* backup[d], previous-logcfg.xml of a work directory
  logs,     \* logs[f], the lines of a log file, or Nothing
  pc, job,  \* what each call does, and with what
  counts,   \* counters of the bounds
  admin,    \* history: what the administrator last wanted in logcfg.xml
  upset,    \* history: what happened that may cost the original
  cleared   \* history: calls under whose walk a log file was removed

files == <<config, backup, admin>>
walking == <<logs, cleared>>
vars == <<config, backup, logs, pc, job, counts, admin, upset, cleared>>

Init ==
  /\ config \in Originals \cup {Nothing} /\ admin = config
  /\ backup = [d \in Dirs |-> Nothing]
  /\ logs \in StartLogs
  /\ pc = [c \in Calls |-> "idle"] /\ job = [c \in Calls |-> Nothing]
  /\ counts = [calls |-> 0, edits |-> 0, logged |-> 0, kills |-> 0]
  /\ upset = {} /\ cleared = {}

At(c, label) == pc[c] = label
Goto(c, label) == pc' = [pc EXCEPT ![c] = label]

\* A call answers, whether with a result or with an error: nothing is left of it.
Return(c) == Goto(c, "idle") /\ job' = [job EXCEPT ![c] = Nothing]

Tick(counter, bound) ==
  counts[counter] < bound /\ counts' = [counts EXCEPT ![counter] = @ + 1]

Upset(causes) == upset' = upset \cup causes

Changing(c) == pc[c] \notin {"idle", "walk", "answer", "clear"}

LogFiles == {f \in DOMAIN logs : logs[f] # Nothing}

----------------------------------------------------------------------------
(* Enable and Disable                                                      *)

\* What may go wrong from the start: another call changes the configuration, or
\* another work directory holds a copy of it.
Crowded(c, d) ==
  {cause \in {"overlap", "shared"} :
     \/ cause = "overlap" /\ \E o \in Calls \ {c} : Changing(o)
     \/ cause = "shared" /\ \E e \in Dirs \ {d} : backup[e] # Nothing}

\* An unknown preset and a negative minimum are refused before anything is touched.
Refused(r) == r.kind = "enable" /\ (r.preset \notin DOMAIN Presets \/ r.minimum < 0)

EnableStart(c, d) ==
  /\ At(c, "idle")
  /\ \E r \in Requests :
       /\ r.kind = "enable" /\ ~Refused(r)
       /\ job' = [job EXCEPT ![c] = [dir |-> d, restore |-> FALSE, old |-> Nothing,
            new |-> [events |-> Presets[r.preset], minimum |-> r.minimum]]]
  /\ Tick("calls", MaxCalls) /\ Goto(c, "read") /\ Upset(Crowded(c, d))
  /\ UNCHANGED <<files, walking>>

\* The configuration is read; without one there is nothing to save.
EnableRead(c) ==
  /\ At(c, "read")
  /\ \/ /\ job' = [job EXCEPT ![c].old = config]
        /\ Goto(c, IF config = Nothing THEN "write" ELSE "keep")
     \/ Return(c)
  /\ UNCHANGED <<files, walking, counts, upset>>

\* Mutant: the copy is taken each time, not only when there is none.
EnableKeepAlways(c) ==
  /\ At(c, "keep") /\ backup' = [backup EXCEPT ![job[c].dir] = Torn]
  /\ Goto(c, "save") /\ Upset({}) /\ UNCHANGED <<config, admin, walking, job, counts>>

\* A copy is kept as it is; a new one is written in place, and is torn meanwhile.
EnableKeep(c) ==
  /\ At(c, "keep")
  /\ \/ /\ backup[job[c].dir] # Nothing /\ Goto(c, "write")
        /\ UNCHANGED <<backup, upset>>
     \/ /\ backup[job[c].dir] = Nothing /\ Goto(c, "save")
        /\ backup' = [backup EXCEPT ![job[c].dir] = Torn]
        /\ Upset(IF job[c].old \in Own THEN {"own"} ELSE {})
  /\ UNCHANGED <<config, admin, walking, job, counts>>

\* Mutant: a call that fails leaves its data behind.
EnableSaveLeaving(c) ==
  /\ At(c, "save")
  /\ \/ backup' = [backup EXCEPT ![job[c].dir] = job[c].old] /\ Goto(c, "write") /\ UNCHANGED upset
     \/ Goto(c, "idle") /\ Upset({"cut"}) /\ UNCHANGED backup
  /\ UNCHANGED <<job, config, admin, walking, counts>>

\* The disk may refuse the copy, which ends the call and leaves the torn file.
EnableSave(c) ==
  /\ At(c, "save")
  /\ \/ /\ backup' = [backup EXCEPT ![job[c].dir] = job[c].old]
        /\ Goto(c, "write") /\ UNCHANGED <<job, upset>>
     \/ Return(c) /\ Upset({"cut"}) /\ UNCHANGED backup
  /\ UNCHANGED <<config, admin, walking, counts>>

\* With a copy, Disable puts it back; without one it removes the configuration,
\* whoever wrote it.
DisableStart(c, d) ==
  /\ At(c, "idle") /\ \E r \in Requests : r.kind = "disable"
  /\ job' = [job EXCEPT ![c] =
       [dir |-> d, restore |-> TRUE, old |-> Nothing, new |-> backup[d]]]
  /\ Goto(c, IF backup[d] = Nothing THEN "drop" ELSE "write")
  /\ Tick("calls", MaxCalls) /\ Upset(Crowded(c, d))
  /\ UNCHANGED <<files, walking>>

DisableDrop(c) ==
  /\ At(c, "drop") /\ Return(c)
  /\ \/ config' = Nothing /\ Upset(IF config \in Originals THEN {"unmatched"} ELSE {})
     \/ UNCHANGED <<config, upset>>
  /\ UNCHANGED <<backup, admin, walking, counts>>

\* A temporary file takes the name of the configuration.  When the system
\* refuses, the old file is removed first; that, too, may be refused.
WriteAtomic(c) ==
  /\ At(c, "write")
  /\ \/ /\ config' = job[c].new
        /\ IF job[c].restore THEN Goto(c, "forget") /\ UNCHANGED job ELSE Return(c)
     \/ config' = Nothing /\ Goto(c, "again") /\ UNCHANGED job
     \/ Return(c) /\ UNCHANGED config
  /\ UNCHANGED <<backup, admin, walking, counts, upset>>

WriteAgain(c) ==
  /\ At(c, "again")
  /\ \/ /\ config' = job[c].new
        /\ IF job[c].restore THEN Goto(c, "forget") /\ UNCHANGED job ELSE Return(c)
     \/ Return(c) /\ UNCHANGED config
  /\ UNCHANGED <<backup, admin, walking, counts, upset>>

\* The copy put back is removed, which may be refused: Disable then answers with
\* an error, and the next Enable keeps the old copy.
DisableForget(c) ==
  /\ At(c, "forget") /\ Return(c)
  /\ backup' \in {backup, [backup EXCEPT ![job[c].dir] = Nothing]}
  /\ UNCHANGED <<config, admin, walking, counts, upset>>

----------------------------------------------------------------------------
(* Clear and Analyze                                                       *)

\* The first of the files still to be visited: their names are listed before.
First(c, n) == n \in job[c].todo /\ \A m \in job[c].todo \cup job[c].unlisted : n <= m

\* Only the log root itself is cleared, not the directories in it.
ClearStart(c, d) ==
  /\ At(c, "idle") /\ \E r \in Requests : r.kind = "clear"
  /\ job' = [job EXCEPT ![c] =
       [dir |-> d, todo |-> {n \in DOMAIN Logs : Logs[n] \in LogFiles \cap TopLevel}, unlisted |-> {}]]
  /\ Tick("calls", MaxCalls) /\ Goto(c, "clear")
  /\ UNCHANGED <<files, walking, upset>>

\* A file that is gone or in use ends the call with an error.
ClearNext(c) ==
  /\ At(c, "clear")
  /\ \/ Return(c) /\ UNCHANGED <<logs, cleared>>
     \/ \E n \in DOMAIN Logs :
          /\ First(c, n) /\ logs[Logs[n]] # Nothing
          /\ logs' = [logs EXCEPT ![Logs[n]] = Nothing]
          /\ cleared' = cleared \cup {o \in Calls : At(o, "walk")}
          /\ job' = [job EXCEPT ![c].todo = @ \ {n}] /\ UNCHANGED pc
  /\ UNCHANGED <<files, counts, upset>>

LimitOf(n) == IF n <= 0 THEN DefaultLimit ELSE IF n > MaxLimit THEN MaxLimit ELSE n

\* How far the analysis has come.
Analyzed(c, todo, unlisted, found, longest) ==
  job' = [job EXCEPT ![c] = [dir |-> @.dir, request |-> @.request, start |-> @.start, todo |-> todo,
                             unlisted |-> unlisted, found |-> found, longest |-> longest]]

\* The log root is listed at once, the directories in it as the walk comes to them.
AnalyzeStart(c, d) ==
  /\ At(c, "idle")
  /\ \E r \in Requests :
       /\ r.kind = "analyze"
       /\ job' = [job EXCEPT ![c] = [dir |-> d, request |-> r, start |-> logs,
            todo |-> {n \in DOMAIN Logs : Logs[n] \in LogFiles \cap TopLevel},
            unlisted |-> {n \in DOMAIN Logs : Logs[n] \notin TopLevel}, found |-> {}, longest |-> <<>>]]
  /\ Tick("calls", MaxCalls) /\ Goto(c, "walk")
  /\ UNCHANGED <<files, walking, upset>>

\* What an analysis counts.
Matches(line, r) ==
  line # Garbage /\ line.ms >= r.minimum /\ r.filter \in {"", line.module}

\* The events in the lines of file f, each with the place where it is.
EventsIn(f, lines, r) ==
  {[file |-> f, line |-> n, ms |-> lines[n].ms] : n \in {m \in DOMAIN lines : Matches(lines[m], r)}}

AnalyzeList(c) ==
  /\ At(c, "walk")
  /\ \E n \in job[c].unlisted :
       Analyzed(c, job[c].todo \cup {m \in {n} : Logs[m] \in LogFiles}, job[c].unlisted \ {n}, job[c].found, <<>>)
  /\ UNCHANGED <<files, walking, pc, counts, upset>>

\* One log file after the other.
AnalyzeRead(c) ==
  /\ At(c, "walk")
  /\ \E n \in DOMAIN Logs :
       /\ First(c, n) /\ logs[Logs[n]] # Nothing
       /\ Analyzed(c, job[c].todo \ {n}, job[c].unlisted,
                   job[c].found \cup EventsIn(Logs[n], logs[Logs[n]], job[c].request), <<>>)
  /\ UNCHANGED <<files, walking, pc, counts, upset>>

\* A file that is gone ends the walk, and what was found so far is the answer.
AnalyzePartly(c) ==
  /\ At(c, "walk") /\ \E n \in DOMAIN Logs : First(c, n) /\ logs[Logs[n]] = Nothing
  /\ Goto(c, "answer") /\ UNCHANGED <<files, walking, job, counts, upset>>

\* A file that cannot be read, or has a line of more than maxLineBytes, ends the
\* analysis with an error.
AnalyzeFail(c) ==
  /\ At(c, "walk") /\ job[c].todo \cup job[c].unlisted # {}
  /\ Return(c) /\ cleared' = cleared \ {c} /\ UNCHANGED <<files, logs, counts, upset>>

\* Events in descending order of their duration, in any order where that is the same.
Sorted(found, n) ==
  {top \in [1..n -> found] :
     \A i, k \in 1..n : i < k => top[i] # top[k] /\ top[i].ms >= top[k].ms}

Fewer(n, limit) == IF n > limit THEN limit ELSE n

\* Mutant: the list is cut to the limit before it is sorted.
LongestUnsorted(found, limit) == Sorted(found, Fewer(Cardinality(found), limit))

\* All events in order, cut to the limit.
Longest(found, limit) ==
  {top \in Sorted(found, Fewer(Cardinality(found), limit)) :
     \A e \in found : (\E i \in DOMAIN top : top[i] = e) \/ \A i \in DOMAIN top : top[i].ms >= e.ms}

AnalyzeSort(c) ==
  /\ At(c, "walk") /\ job[c].todo = {} /\ job[c].unlisted = {}
  /\ \E top \in Longest(job[c].found, LimitOf(job[c].request.limit)) :
       Analyzed(c, {}, {}, job[c].found, top)
  /\ Goto(c, "answer") /\ UNCHANGED <<files, walking, counts, upset>>

AnalyzeAnswer(c) ==
  /\ At(c, "answer") /\ Return(c) /\ cleared' = cleared \ {c}
  /\ UNCHANGED <<files, logs, counts, upset>>

----------------------------------------------------------------------------
(* The others                                                              *)

\* The server of a work directory is killed.
Kill(d) ==
  /\ \E c \in Calls : pc[c] # "idle" /\ job[c].dir = d
  /\ LET hit == {c \in Calls : pc[c] # "idle" /\ job[c].dir = d} IN
     /\ pc' = [c \in Calls |-> IF c \in hit THEN "idle" ELSE pc[c]]
     /\ job' = [c \in Calls |-> IF c \in hit THEN Nothing ELSE job[c]]
     /\ cleared' = cleared \ hit
     /\ Upset(IF \E c \in hit : At(c, "save") THEN {"cut"} ELSE {})
  /\ Tick("kills", MaxKills) /\ UNCHANGED <<files, logs>>

\* The administrator writes logcfg.xml.
AdminEdit(o) ==
  /\ config' = o /\ admin' = o
  /\ Upset(IF (\E c \in Calls : Changing(c))
              \/ (\E d \in Dirs : backup[d] # Nothing)
           THEN {"edited"} ELSE {})
  /\ Tick("edits", MaxEdits) /\ UNCHANGED <<backup, walking, pc, job>>

\* The 1C server logs an event its configuration asks for, in a file of its choice.
LogEvent(f, l) ==
  /\ config \in Own
  /\ l # Garbage => l.name \in config.events /\ (config.minimum > 0 => l.ms > config.minimum)
  /\ logs' = [logs EXCEPT ![f] = IF @ = Nothing THEN <<l>> ELSE Append(@, l)]
  /\ Tick("logged", MaxLogged)
  /\ UNCHANGED <<files, cleared, pc, job, upset>>

\* It removes a file whose hours of history are over.
Rotate(f) ==
  /\ logs[f] # Nothing /\ logs' = [logs EXCEPT ![f] = Nothing]
  /\ cleared' = cleared \cup {c \in Calls : At(c, "walk")}
  /\ Tick("logged", MaxLogged)
  /\ UNCHANGED <<files, pc, job, upset>>

Next ==
  \/ \E c \in Calls, d \in Dirs :
       EnableStart(c, d) \/ DisableStart(c, d) \/ ClearStart(c, d) \/ AnalyzeStart(c, d)
  \/ \E c \in Calls :
       \/ EnableRead(c) \/ EnableKeep(c) \/ EnableSave(c)
       \/ DisableDrop(c) \/ WriteAtomic(c) \/ WriteAgain(c) \/ DisableForget(c)
       \/ ClearNext(c)
       \/ AnalyzeList(c) \/ AnalyzeRead(c) \/ AnalyzePartly(c) \/ AnalyzeFail(c)
       \/ AnalyzeSort(c) \/ AnalyzeAnswer(c)
  \/ \E d \in Dirs : Kill(d)
  \/ \E o \in Originals : AdminEdit(o)
  \/ \E f \in ToSet(Logs) : Rotate(f) \/ \E l \in Lines : LogEvent(f, l)

Spec == Init /\ [][Next]_vars

----------------------------------------------------------------------------
\* The files hold what can be written to them, and a call its own data.
TypeOK ==
  /\ config \in Contents /\ backup \in [Dirs -> Contents] /\ admin \in Originals \cup {Nothing}
  /\ logs \in [ToSet(Logs) -> Seq(Lines) \cup {Nothing}]
  /\ pc \in [Calls -> {"idle", "read", "keep", "save", "drop", "write", "again", "forget",
                       "clear", "walk", "answer"}]
  /\ upset \subseteq {"overlap", "shared", "own", "cut", "unmatched", "edited"}
  /\ cleared \subseteq Calls
  /\ \A c \in Calls :
       /\ pc[c] = "idle" => job[c] = Nothing
       /\ Changing(c) => job[c].dir \in Dirs /\ job[c].old \in Contents /\ job[c].new \in Contents

\* The administrator's last logcfg.xml exists, as the file itself or as a copy,
\* after any sequence of calls, refusals of the system and kills; a Disable has it
\* back in its place before it gives up the copy, and when no copy is left it is
\* in force, or none was there before.  Unless calls overlapped or used two work
\* directories, the copy was cut short, our own configuration was saved as the
\* original, Disable found no copy, or the administrator edited the file while a
\* copy of it was kept.
OriginalIsKept ==
  upset = {} =>
    /\ admin # Nothing => config = admin \/ \E d \in Dirs : backup[d] = admin
    /\ \A c \in Calls : At(c, "forget") => config = admin
    /\ (\A c \in Calls, d \in Dirs : ~Changing(c) /\ backup[d] = Nothing)
         => config = admin \/ (admin = Nothing /\ config \in Own)

\* The events of all logs.
EventsOf(held, r) ==
  UNION {EventsIn(f, held[f], r) : f \in {g \in DOMAIN held : held[g] # Nothing}}

\* An analysis under which no log file was removed answers with the longest of
\* the matching events, each once and in order, as many as its limit allows: one that
\* was there when it began is left out only in favour of others at least so long.
\* What it names was there, or was logged since.
AnalysisIsLongest ==
  \A c \in Calls :
    At(c, "answer") /\ c \notin cleared =>
      LET top == job[c].longest
          start == job[c].start
          there == EventsOf(start, job[c].request)
          limit == LimitOf(job[c].request.limit)
      IN  /\ Len(top) <= limit
          /\ \A i, k \in DOMAIN top : i < k => top[i] # top[k] /\ top[i].ms >= top[k].ms
          /\ \A e \in there :
               \/ \E i \in DOMAIN top : top[i] = e
               \/ Len(top) = limit /\ \A i \in DOMAIN top : top[i].ms >= e.ms
          /\ \A i \in DOMAIN top :
               \/ top[i] \in there
               \/ start[top[i].file] = Nothing \/ top[i].line > Len(start[top[i].file])

=============================================================================
