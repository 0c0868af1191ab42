----------------------------- MODULE TechlogProofs -----------------------------
(***************************************************************************)
(* The administrator's logcfg.xml is kept, for any number of calls, work   *)
(* directories, configurations, kills and edits.  OriginalIsKept says it   *)
(* of every state; what makes it so is Safe: a copy is the administrator's *)
(* file, and without one his file is in force.  Safe holds at all times    *)
(* but while a copy is being written, and then the file is in its place.   *)
(*                                                                         *)
(* An analysis answers with the longest events, for any number and length  *)
(* of log files.  Walked says how: what was in them when it began is found *)
(* or lies in a file still to come, for unless one is removed (`cleared`)  *)
(* the files only grow.                                                    *)
(***************************************************************************)
EXTENDS Techlog, FiniteSetTheorems, TLAPS

States == {"idle", "read", "keep", "save", "drop", "write", "again", "forget", "clear", "walk", "answer"}

Causes == {"overlap", "shared", "own", "cut", "unmatched", "edited"}

Change == [dir : Dirs, restore : BOOLEAN, old : Contents, new : Contents]

FilesType == config \in Contents /\ backup \in [Dirs -> Contents] /\ admin \in Originals \cup {Nothing}

LogsType == logs \in [ToSet(Logs) -> Seq(Lines) \cup {Nothing}] /\ cleared \subseteq Calls

CallsType ==
  /\ pc \in [Calls -> States] /\ DOMAIN job = Calls
  /\ \A c \in Calls : pc[c] = "idle" => job[c] = Nothing
  /\ \A c \in Calls : Changing(c) => job[c] \in Change

TypeInv == FilesType /\ LogsType /\ CallsType /\ upset \subseteq Causes

-----------------------------------------------------------------------------
(* What keeps the original *)

\* The file is the administrator's, or ours where he has none.
Quiet == config = admin \/ (admin = Nothing /\ config \in Own)

Safe ==
  /\ \A d \in Dirs : backup[d] \in {Nothing, admin}
  /\ (\A d \in Dirs : backup[d] = Nothing) => Quiet

\* A copy of the file is being written.
Saving(c) ==
  /\ config = admin /\ job[c].old = admin /\ admin # Nothing
  /\ ~job[c].restore

\* What a call that changes the configuration knows at each step.
Knows(c) ==
  /\ \A e \in Dirs \ {job[c].dir} : backup[e] = Nothing
  /\ pc[c] = "save" => Saving(c)
  /\ pc[c] # "save" => Safe
  /\ pc[c] \in {"read", "keep"} => ~job[c].restore /\ job[c].new \in Own
  /\ pc[c] = "keep" => job[c].old # Nothing /\ (backup[job[c].dir] = Nothing => job[c].old = config)
  /\ pc[c] = "drop" => backup[job[c].dir] = Nothing
  /\ pc[c] \in {"write", "again"} /\ job[c].restore =>
       job[c].new = admin /\ backup[job[c].dir] = admin
  /\ pc[c] \in {"write", "again"} /\ ~job[c].restore =>
       /\ job[c].new \in Own
       /\ backup[job[c].dir] = admin
  /\ pc[c] = "save" => job[c].new \in Own
  /\ pc[c] = "forget" => config = admin

KeptInv ==
  upset = {} =>
    /\ \A c, d \in Calls : Changing(c) /\ Changing(d) => c = d
    /\ \A c \in Calls : Changing(c) => Knows(c)
    /\ (\A c \in Calls : ~Changing(c)) => Safe

-----------------------------------------------------------------------------
(* Types *)

LEMMA ContentsOf == Originals \subseteq Contents /\ Own \subseteq Contents /\ Nothing \in Contents /\ Torn \in Contents
BY DEF Contents

LEMMA TypeInit == Init => TypeInv
BY ContentsOf, TechlogAssumption
   DEF Init, TypeInv, FilesType, LogsType, CallsType, States, Changing

\* A call that ends.
LEMMA ReturnTypes ==
  ASSUME CallsType, NEW c \in Calls, Return(c)
  PROVE  CallsType' /\ pc'[c] = "idle" /\ \A d \in Calls \ {c} : pc'[d] = pc[d] /\ job'[d] = job[d]
BY DEF CallsType, Return, Goto, States, Changing

\* A call that goes on with new data.
LEMMA GoesOn ==
  ASSUME CallsType, NEW c \in Calls, NEW at \in States \ {"idle"}, NEW value,
         Goto(c, at), job' = [job EXCEPT ![c] = value], at \notin {"walk", "answer", "clear"} => value \in Change
  PROVE  CallsType' /\ pc'[c] = at /\ job'[c] = value
         /\ \A d \in Calls \ {c} : pc'[d] = pc[d] /\ job'[d] = job[d]
BY DEF CallsType, Goto, Changing, States

\* A call that goes on with the data it has.
LEMMA GoesOnAs ==
  ASSUME CallsType, NEW c \in Calls, NEW at \in States \ {"idle"}, Goto(c, at), UNCHANGED job, Changing(c)
  PROVE  CallsType' /\ pc'[c] = at
         /\ \A d \in Calls \ {c} : pc'[d] = pc[d] /\ job'[d] = job[d]
BY DEF CallsType, Goto, Changing, States

\* The log files and the walks have no part in the configuration.
LEMMA LogsStep ==
  ASSUME LogsType, [Next]_vars
  PROVE  LogsType'
<1>1. CASE UNCHANGED walking \/ UNCHANGED vars
  BY <1>1 DEF LogsType, walking, vars
<1>2. ASSUME NEW c \in Calls, ClearNext(c)  PROVE LogsType'
  BY <1>2 DEF ClearNext, LogsType
<1>3. ASSUME NEW c \in Calls, AnalyzeFail(c) \/ AnalyzeAnswer(c)  PROVE LogsType'
  BY <1>3 DEF AnalyzeFail, AnalyzeAnswer, LogsType
<1>4. ASSUME NEW d \in Dirs, Kill(d)  PROVE LogsType'
  BY <1>4 DEF Kill, LogsType
<1>5. ASSUME NEW f \in ToSet(Logs), Rotate(f)  PROVE LogsType'
  BY <1>5 DEF Rotate, LogsType
<1>6. ASSUME NEW f \in ToSet(Logs), NEW l \in Lines, LogEvent(f, l)  PROVE LogsType'
  <2>1. logs' = [logs EXCEPT ![f] = IF @ = Nothing THEN <<l>> ELSE Append(@, l)] /\ cleared' = cleared
    BY <1>6 DEF LogEvent
  <2>2. logs[f] \in Seq(Lines) \cup {Nothing} /\ <<l>> \in Seq(Lines)
    BY DEF LogsType
  <2>3. (IF logs[f] = Nothing THEN <<l>> ELSE Append(logs[f], l)) \in Seq(Lines)
    BY <2>2
  <2> QED  BY <2>1, <2>3 DEF LogsType
<1> QED
  BY <1>1, <1>2, <1>3, <1>4, <1>5, <1>6
  DEF Next, EnableStart, DisableStart, ClearStart, AnalyzeStart, EnableRead, EnableKeep, EnableSave,
      DisableDrop, WriteAtomic, WriteAgain, DisableForget, AnalyzeList, AnalyzeRead, AnalyzePartly,
      AnalyzeSort, AdminEdit

LEMMA ToldStep == upset \subseteq Causes /\ [Next]_vars => upset \subseteq upset' /\ upset' \subseteq Causes
BY DEF Next, vars, Upset, Crowded, Causes, EnableStart, DisableStart, ClearStart, AnalyzeStart, EnableRead,
       EnableKeep, EnableSave, DisableDrop, WriteAtomic, WriteAgain, DisableForget, ClearNext, AnalyzeList,
       AnalyzeRead, AnalyzePartly, AnalyzeFail, AnalyzeSort, AnalyzeAnswer, Kill, AdminEdit, LogEvent, Rotate

\* What a step does to the calls that change nothing of the configuration.
Elsewhere ==
  /\ UNCHANGED files /\ upset' = upset
  /\ \A c \in Calls : Changing(c)' = Changing(c) /\ (Changing(c) => pc'[c] = pc[c] /\ job'[c] = job[c])

LEMMA WalkStep ==
  ASSUME CallsType, NEW c \in Calls,
         \/ ClearNext(c) \/ AnalyzeList(c) \/ AnalyzeRead(c) \/ AnalyzePartly(c)
         \/ AnalyzeFail(c) \/ AnalyzeSort(c) \/ AnalyzeAnswer(c)
  PROVE  CallsType' /\ Elsewhere
<1>1. pc[c] \in {"clear", "walk", "answer"} /\ UNCHANGED files /\ upset' = upset
  BY DEF ClearNext, AnalyzeList, AnalyzeRead, AnalyzePartly, AnalyzeFail, AnalyzeSort, AnalyzeAnswer, At
<1>2. CASE Return(c)
  BY <1>1, <1>2, ReturnTypes DEF Elsewhere, Changing, CallsType
<1>3. ASSUME pc' = pc \/ Goto(c, "answer"), NEW value, job' = [job EXCEPT ![c] = value] \/ job' = job
      PROVE  CallsType' /\ Elsewhere
  <2>1. DOMAIN job' = Calls /\ \A d \in Calls \ {c} : pc'[d] = pc[d] /\ job'[d] = job[d]
    BY <1>3 DEF CallsType, Goto
  <2>2. pc' \in [Calls -> States] /\ pc'[c] \in {"clear", "walk", "answer"}
    BY <1>1, <1>3 DEF CallsType, Goto, States
  <2> QED  BY <1>1, <2>1, <2>2 DEF CallsType, Elsewhere, Changing
<1>4. CASE ClearNext(c)
  BY <1>2, <1>3, <1>4 DEF ClearNext
<1>5. CASE AnalyzeList(c) \/ AnalyzeRead(c)
  BY <1>3, <1>5 DEF AnalyzeList, AnalyzeRead, Analyzed
<1>6. CASE AnalyzePartly(c) \/ AnalyzeFail(c) \/ AnalyzeAnswer(c)
  BY <1>2, <1>3, <1>6 DEF AnalyzePartly, AnalyzeFail, AnalyzeAnswer
<1>7. CASE AnalyzeSort(c)
  BY <1>3, <1>7 DEF AnalyzeSort, Analyzed
<1> QED  BY <1>4, <1>5, <1>6, <1>7

LEMMA WalkStart ==
  ASSUME CallsType, NEW c \in Calls, NEW d \in Dirs, ClearStart(c, d) \/ AnalyzeStart(c, d)
  PROVE  CallsType' /\ Elsewhere
<1>1. pc[c] = "idle" /\ UNCHANGED files /\ upset' = upset
  BY DEF ClearStart, AnalyzeStart, At
<1>2. ASSUME NEW at \in {"clear", "walk"}, NEW value, Goto(c, at), job' = [job EXCEPT ![c] = value]
      PROVE  CallsType' /\ Elsewhere
  <2>1. CallsType' /\ pc'[c] = at /\ \A e \in Calls \ {c} : pc'[e] = pc[e] /\ job'[e] = job[e]
    BY <1>2, GoesOn DEF States
  <2> QED  BY <1>1, <2>1 DEF Elsewhere, Changing
<1> QED  BY <1>2 DEF ClearStart, AnalyzeStart

LEMMA KillStep ==
  ASSUME CallsType, NEW d \in Dirs, Kill(d)
  PROVE  /\ CallsType'
         /\ UNCHANGED files
         /\ \A c \in Calls : Changing(c)' => Changing(c) /\ pc'[c] = pc[c] /\ job'[c] = job[c]
         /\ \A c \in Calls : pc[c] = "save" /\ pc'[c] # "save" => upset' # {}
BY DEF Kill, CallsType, Changing, States, Upset, At

-----------------------------------------------------------------------------
(* The steps of Enable and Disable *)

\* A call changes the configuration: nothing is new to the others.
LEMMA KeptOne ==
  ASSUME KeptInv, upset \subseteq upset', NEW c \in Calls, \A d \in Calls \ {c} : pc'[d] = pc[d] /\ job'[d] = job[d],
         upset' = {} => /\ \A d \in Calls \ {c} : ~Changing(d)
                        /\ Changing(c)' => Knows(c)'
                        /\ ~Changing(c)' => Safe'
  PROVE  KeptInv'
BY DEF KeptInv, Changing

LEMMA Alone ==
  ASSUME KeptInv, upset \subseteq upset', upset' = {}, NEW c \in Calls, Changing(c)
  PROVE  Knows(c) /\ \A d \in Calls \ {c} : ~Changing(d)
BY DEF KeptInv

LEMMA KeptElsewhere ==
  ASSUME KeptInv, Elsewhere
  PROVE  KeptInv'
BY DEF KeptInv, Elsewhere, files, Knows, Safe, Quiet, Saving

\* What the steps of these calls keep besides.
Step(c) ==
  /\ FilesType' /\ CallsType'
  /\ \A d \in Calls \ {c} : pc'[d] = pc[d] /\ job'[d] = job[d]

LEMMA Starts ==
  ASSUME TypeInv, KeptInv, upset \subseteq upset', NEW c \in Calls, NEW d \in Dirs,
         NEW at \in {"read", "drop", "write"}, NEW new \in Contents, NEW restore \in BOOLEAN,
         pc[c] = "idle", UNCHANGED files, upset' = upset \cup Crowded(c, d), Goto(c, at),
         job' = [job EXCEPT ![c] = [dir |-> d, restore |-> restore, old |-> Nothing, new |-> new]],
         at = "read" => ~restore /\ new \in Own,
         at = "drop" => restore /\ backup[d] = Nothing,
         at = "write" => restore /\ new = backup[d] /\ backup[d] # Nothing
  PROVE  Step(c) /\ KeptInv'
<1>a. FilesType /\ CallsType
  BY DEF TypeInv
<1> DEFINE work == [dir |-> d, restore |-> restore, old |-> Nothing, new |-> new]
<1>1. work \in Change
  BY ContentsOf DEF Change
<1>2. work.dir = d /\ work.restore = restore /\ work.new = new
  OBVIOUS
<1> HIDE DEF work
<1>3. at \in States \ {"idle"} /\ job' = [job EXCEPT ![c] = work]
  BY DEF States, work
<1>5. CallsType' /\ pc'[c] = at /\ job'[c] = work /\ \A e \in Calls \ {c} : pc'[e] = pc[e] /\ job'[e] = job[e]
  BY <1>1, <1>3, <1>a, GoesOn
<1>6. ASSUME upset' = {}
      PROVE  (\A o \in Calls \ {c} : ~Changing(o)) /\ (\A e \in Dirs \ {d} : backup[e] = Nothing)
  <2>1. "overlap" \notin Crowded(c, d) /\ "shared" \notin Crowded(c, d)
    BY <1>6
  <2> QED  BY <2>1 DEF Crowded
<1>7. ASSUME upset' = {}  PROVE Safe
  <2>1. upset = {} /\ \A o \in Calls : ~Changing(o)
    BY <1>6, <1>7 DEF Changing
  <2> QED  BY <2>1 DEF KeptInv
<1>8. ASSUME upset' = {}  PROVE Knows(c)'
  BY <1>2, <1>5, <1>6, <1>7, <1>8 DEF Knows, Safe, Quiet, files
<1>9. FilesType'
  BY <1>a DEF FilesType, files
<1>10. Changing(c)'
  BY <1>5 DEF Changing
<1> QED  BY <1>5, <1>6, <1>8, <1>9, <1>10, KeptOne DEF Step

LEMMA StartStep ==
  ASSUME TypeInv, KeptInv, upset \subseteq upset', NEW c \in Calls, NEW d \in Dirs,
         EnableStart(c, d) \/ DisableStart(c, d)
  PROVE  Step(c) /\ KeptInv'
<1>1. pc[c] = "idle" /\ UNCHANGED files /\ upset' = upset \cup Crowded(c, d)
  BY DEF EnableStart, DisableStart, At, Upset
<1>2. CASE EnableStart(c, d)
  <2>1. PICK r \in Requests : /\ r.kind = "enable" /\ ~Refused(r)
                             /\ job' = [job EXCEPT ![c] = [dir |-> d, restore |-> FALSE, old |-> Nothing,
                                  new |-> [events |-> Presets[r.preset], minimum |-> r.minimum]]]
    BY <1>2 DEF EnableStart
  <2> DEFINE new == [events |-> Presets[r.preset], minimum |-> r.minimum]
  <2>2. r.preset \in DOMAIN Presets /\ r.minimum \in Nat
    BY <2>1, TechlogAssumption DEF Refused
  <2>3. new \in Own /\ new \in Contents
    BY <2>2 DEF Own, Contents
  <2>4. Goto(c, "read")
    BY <1>2 DEF EnableStart
  <2> HIDE DEF new
  <2>5. job' = [job EXCEPT ![c] = [dir |-> d, restore |-> FALSE, old |-> Nothing, new |-> new]]
    BY <2>1 DEF new
  <2> QED  BY <1>1, <2>3, <2>4, <2>5, Starts
<1>3. CASE DisableStart(c, d)
  <2>1. backup[d] \in Contents
    BY DEF TypeInv, FilesType
  <2>2. job' = [job EXCEPT ![c] = [dir |-> d, restore |-> TRUE, old |-> Nothing, new |-> backup[d]]]
    BY <1>3 DEF DisableStart
  <2>3. CASE backup[d] = Nothing
    <3>1. Goto(c, "drop")
      BY <1>3, <2>3 DEF DisableStart
    <3> QED  BY <1>1, <2>1, <2>2, <2>3, <3>1, Starts
  <2>4. CASE backup[d] # Nothing
    <3>1. Goto(c, "write")
      BY <1>3, <2>4 DEF DisableStart
    <3> QED  BY <1>1, <2>1, <2>2, <2>4, <3>1, Starts
  <2> QED  BY <2>3, <2>4
<1> QED  BY <1>2, <1>3

\* A call ends and leaves the files safe.
LEMMA Ends ==
  ASSUME TypeInv, KeptInv, upset \subseteq upset', NEW c \in Calls, Changing(c), Return(c), FilesType',
         upset' = {} => Safe'
  PROVE  Step(c) /\ KeptInv'
<1>1. CallsType' /\ pc'[c] = "idle" /\ \A d \in Calls \ {c} : pc'[d] = pc[d] /\ job'[d] = job[d]
  BY ReturnTypes DEF TypeInv
<1>2. ~Changing(c)'
  BY <1>1 DEF Changing
<1> QED  BY <1>1, <1>2, Alone, KeptOne DEF Step

\* A call goes on, with other data or the same.
LEMMA Continues ==
  ASSUME TypeInv, KeptInv, upset \subseteq upset', NEW c \in Calls, Changing(c),
         NEW at \in {"read", "keep", "save", "drop", "write", "again", "forget"}, Goto(c, at),
         NEW old \in Contents, job' = [job EXCEPT ![c].old = old], FilesType',
         job'[c] = [job[c] EXCEPT !.old = old] /\ pc'[c] = at /\ upset' = {} => Knows(c)'
  PROVE  Step(c) /\ KeptInv'
<1>1. job[c] \in Change /\ CallsType
  BY DEF TypeInv, CallsType
<1>2. [job[c] EXCEPT !.old = old] \in Change /\ job' = [job EXCEPT ![c] = [job[c] EXCEPT !.old = old]]
  BY <1>1 DEF Change
<1>3. at \in States \ {"idle"}
  BY DEF States
<1>4. CallsType' /\ pc'[c] = at /\ job'[c] = [job[c] EXCEPT !.old = old]
      /\ \A d \in Calls \ {c} : pc'[d] = pc[d] /\ job'[d] = job[d]
  BY <1>1, <1>2, <1>3, GoesOn
<1>5. Changing(c)'
  BY <1>4 DEF Changing
<1> QED  BY <1>4, <1>5, Alone, KeptOne DEF Step

LEMMA ContinuesAs ==
  ASSUME TypeInv, KeptInv, upset \subseteq upset', NEW c \in Calls, Changing(c),
         NEW at \in {"read", "keep", "save", "drop", "write", "again", "forget"}, Goto(c, at), UNCHANGED job, FilesType',
         (pc'[c] = at /\ upset' = {}) => Knows(c)'
  PROVE  Step(c) /\ KeptInv'
<1>1. at \in States \ {"idle"} /\ CallsType
  BY DEF States, TypeInv
<1>2. CallsType' /\ pc'[c] = at /\ \A d \in Calls \ {c} : pc'[d] = pc[d] /\ job'[d] = job[d]
  BY <1>1, GoesOnAs
<1>3. Changing(c)'
  BY <1>2 DEF Changing
<1> QED  BY <1>2, <1>3, Alone, KeptOne DEF Step

LEMMA ReadStep ==
  ASSUME TypeInv, KeptInv, upset \subseteq upset', NEW c \in Calls, EnableRead(c)
  PROVE  Step(c) /\ KeptInv'
<1>1. pc[c] = "read" /\ Changing(c) /\ UNCHANGED <<config, backup, admin, upset>>
  BY DEF EnableRead, At, Changing, files
<1>2. FilesType' /\ config \in Contents /\ job[c] \in Change
  BY <1>1 DEF TypeInv, FilesType, CallsType
<1>3. ASSUME upset' = {}  PROVE Knows(c) /\ Safe
  BY <1>1, <1>3, Alone DEF Knows
<1>4. CASE Return(c)
  BY <1>1, <1>2, <1>3, <1>4, Ends DEF Safe, Quiet
<1>5. CASE config = Nothing /\ job' = [job EXCEPT ![c].old = config] /\ Goto(c, "write")
  <2>1. ASSUME job'[c] = [job[c] EXCEPT !.old = config], pc'[c] = "write", upset' = {}  PROVE Knows(c)'
    <3>1. job'[c].dir = job[c].dir /\ job'[c].restore = job[c].restore /\ job'[c].new = job[c].new
          /\ job[c].dir \in Dirs
      BY <1>2, <2>1 DEF Change
    <3>2. backup[job[c].dir] = admin
      BY <1>3, <1>5, <2>1, <3>1 DEF Safe, Quiet, Knows
    <3> QED  BY <1>1, <1>3, <2>1, <3>1, <3>2 DEF Knows, Safe, Quiet
  <2> QED  BY <1>1, <1>2, <1>5, <2>1, Continues
<1>6. CASE config # Nothing /\ job' = [job EXCEPT ![c].old = config] /\ Goto(c, "keep")
  <2>1. ASSUME job'[c] = [job[c] EXCEPT !.old = config], pc'[c] = "keep", upset' = {}  PROVE Knows(c)'
    <3>1. job'[c].dir = job[c].dir /\ job'[c].restore = job[c].restore /\ job'[c].new = job[c].new
          /\ job'[c].old = config
      BY <1>2, <2>1 DEF Change
    <3> QED  BY <1>1, <1>3, <1>6, <2>1, <3>1 DEF Knows, Safe, Quiet
  <2> QED  BY <1>1, <1>2, <1>6, <2>1, Continues
<1> QED  BY <1>4, <1>5, <1>6 DEF EnableRead

LEMMA KeepStep ==
  ASSUME TypeInv, KeptInv, upset \subseteq upset', NEW c \in Calls, EnableKeep(c)
  PROVE  Step(c) /\ KeptInv'
<1>1. pc[c] = "keep" /\ Changing(c) /\ UNCHANGED <<config, admin, job>>
  BY DEF EnableKeep, At, Changing
<1>2. FilesType /\ job[c] \in Change /\ job[c].dir \in Dirs
  BY <1>1 DEF TypeInv, FilesType, CallsType, Change
<1>3. ASSUME upset' = {}  PROVE Knows(c) /\ Safe
  BY <1>1, <1>3, Alone DEF Knows
<1>4. CASE backup[job[c].dir] # Nothing /\ Goto(c, "write") /\ UNCHANGED <<backup, upset>>
  <2>1. ASSUME pc'[c] = "write", upset' = {}  PROVE Knows(c)'
    <3>1. backup[job[c].dir] = admin
      BY <1>2, <1>3, <1>4, <2>1 DEF Safe
    <3> QED  BY <1>1, <1>3, <1>4, <2>1, <3>1 DEF Knows, Safe, Quiet
  <2>2. FilesType'
    BY <1>1, <1>2, <1>4 DEF FilesType
  <2> QED  BY <1>1, <1>4, <2>1, <2>2, ContinuesAs
<1>5. CASE /\ backup[job[c].dir] = Nothing /\ Goto(c, "save")
           /\ backup' = [backup EXCEPT ![job[c].dir] = Torn]
           /\ upset' = upset \cup (IF job[c].old \in Own THEN {"own"} ELSE {})
  <2>1. ASSUME pc'[c] = "save", upset' = {}  PROVE Knows(c)'
    <3>1. job[c].old = config /\ job[c].old # Nothing /\ job[c].old \notin Own
      BY <1>1, <1>3, <1>5, <2>1 DEF Knows
    <3>2. Quiet
      BY <1>3, <1>5, <2>1 DEF Safe, Knows
    <3>3. config = admin /\ admin # Nothing /\ job[c].old = admin
      BY <3>1, <3>2 DEF Quiet
    <3> QED  BY <1>1, <1>2, <1>3, <1>5, <2>1, <3>3 DEF Knows, Saving, FilesType
  <2>2. FilesType'
    BY <1>1, <1>2, <1>5, ContentsOf DEF FilesType
  <2> QED  BY <1>1, <1>5, <2>1, <2>2, ContinuesAs
<1> QED  BY <1>4, <1>5 DEF EnableKeep, Upset

LEMMA SaveStep ==
  ASSUME TypeInv, KeptInv, upset \subseteq upset', NEW c \in Calls, EnableSave(c)
  PROVE  Step(c) /\ KeptInv'
<1>1. pc[c] = "save" /\ Changing(c) /\ UNCHANGED <<config, admin>>
  BY DEF EnableSave, At, Changing
<1>2. FilesType /\ job[c] \in Change /\ job[c].dir \in Dirs /\ job[c].old \in Contents
  BY <1>1 DEF TypeInv, FilesType, CallsType, Change
<1>3. CASE backup' = [backup EXCEPT ![job[c].dir] = job[c].old] /\ Goto(c, "write") /\ UNCHANGED job
  <2>1. ASSUME pc'[c] = "write", upset' = {}  PROVE Knows(c)'
    <3>1. Knows(c) /\ Saving(c)
      BY <1>1, <2>1, Alone DEF Knows
    <3>2. backup'[job[c].dir] = admin /\ \A e \in Dirs \ {job[c].dir} : backup'[e] = Nothing
      BY <1>2, <1>3, <3>1 DEF Knows, Saving, FilesType
    <3>3. Safe'
      BY <1>1, <1>2, <3>1, <3>2 DEF Safe, Saving, Quiet
    <3> QED  BY <1>1, <1>3, <2>1, <3>1, <3>2, <3>3 DEF Knows, Saving
  <2>2. FilesType'
    BY <1>1, <1>2, <1>3 DEF FilesType
  <2> QED  BY <1>1, <1>3, <2>1, <2>2, ContinuesAs
<1>4. CASE Return(c) /\ upset' = upset \cup {"cut"} /\ UNCHANGED backup
  <2>1. upset' # {} /\ FilesType'
    BY <1>1, <1>2, <1>4 DEF FilesType
  <2> QED  BY <1>1, <1>4, <2>1, Ends
<1> QED  BY <1>3, <1>4 DEF EnableSave, Upset

LEMMA DropStep ==
  ASSUME TypeInv, KeptInv, upset \subseteq upset', NEW c \in Calls, DisableDrop(c)
  PROVE  Step(c) /\ KeptInv'
<1>1. pc[c] = "drop" /\ Changing(c) /\ Return(c) /\ UNCHANGED <<backup, admin>> /\ config' \in {config, Nothing}
  BY DEF DisableDrop, At, Changing
<1>2. FilesType' /\ FilesType /\ job[c] \in Change
  BY <1>1, ContentsOf DEF TypeInv, FilesType, CallsType
<1>3. ASSUME upset' = {}  PROVE Safe'
  <2>1. Knows(c) /\ Safe /\ Quiet
    <3>1. Knows(c) /\ Safe  BY <1>1, <1>3, Alone DEF Knows
    <3>2. \A d \in Dirs : backup[d] = Nothing  BY <1>1, <3>1 DEF Knows
    <3> QED  BY <3>1, <3>2 DEF Safe
  <2>2. CASE config' = config
    BY <1>1, <2>1, <2>2 DEF Safe, Quiet
  <2>3. CASE config' = Nothing /\ config # config'
    <3>1. config \notin Originals
      BY <1>3, <2>3 DEF DisableDrop, Upset
    <3>2. admin = Nothing
      BY <1>2, <2>1, <2>3, <3>1 DEF Quiet, FilesType
    <3> QED  BY <1>1, <2>1, <2>3, <3>2 DEF Safe, Quiet
  <2> QED  BY <1>1, <2>2, <2>3
<1> QED  BY <1>1, <1>2, <1>3, Ends

LEMMA WriteStep ==
  ASSUME TypeInv, KeptInv, upset \subseteq upset', NEW c \in Calls, WriteAtomic(c) \/ WriteAgain(c)
  PROVE  Step(c) /\ KeptInv'
<1>1. pc[c] \in {"write", "again"} /\ Changing(c) /\ UNCHANGED <<backup, admin, upset>>
  BY DEF WriteAtomic, WriteAgain, At, Changing
<1>2. FilesType /\ job[c] \in Change /\ job[c].dir \in Dirs /\ job[c].new \in Contents
  BY <1>1 DEF TypeInv, FilesType, CallsType, Change
<1>3. ASSUME upset' = {}
      PROVE  /\ Knows(c) /\ Safe /\ backup[job[c].dir] = admin
             /\ IF job[c].restore THEN job[c].new = admin ELSE job[c].new \in Own
  BY <1>1, <1>3, Alone DEF Knows
\* The copy, or that there is no file to copy, does not depend on what is written.
<1>4. ASSUME upset' = {}, config' = job[c].new \/ config' = Nothing \/ config' = config  PROVE Safe'
  BY <1>1, <1>2, <1>3, <1>4 DEF Safe, Quiet
<1>5. config' \in {job[c].new, Nothing, config} /\ FilesType'
  BY <1>1, <1>2, ContentsOf DEF WriteAtomic, WriteAgain, FilesType
<1>6. CASE Return(c)
  BY <1>1, <1>4, <1>5, <1>6, Ends
<1>7. CASE config' = job[c].new /\ job[c].restore /\ Goto(c, "forget") /\ UNCHANGED job
  <2>1. ASSUME pc'[c] = "forget", upset' = {}  PROVE Knows(c)'
    BY <1>1, <1>3, <1>4, <1>7, <2>1 DEF Knows
  <2> QED  BY <1>1, <1>5, <1>7, <2>1, ContinuesAs
<1>8. CASE config' = Nothing /\ Goto(c, "again") /\ UNCHANGED job
  <2>1. ASSUME pc'[c] = "again", upset' = {}  PROVE Knows(c)'
    BY <1>1, <1>3, <1>4, <1>8, <2>1 DEF Knows
  <2> QED  BY <1>1, <1>5, <1>8, <2>1, ContinuesAs
<1> QED  BY <1>6, <1>7, <1>8 DEF WriteAtomic, WriteAgain

LEMMA ForgetStep ==
  ASSUME TypeInv, KeptInv, upset \subseteq upset', NEW c \in Calls, DisableForget(c)
  PROVE  Step(c) /\ KeptInv'
<1>1. pc[c] = "forget" /\ Changing(c) /\ Return(c) /\ UNCHANGED <<config, admin, upset>>
      /\ backup' \in {backup, [backup EXCEPT ![job[c].dir] = Nothing]}
  BY DEF DisableForget, At, Changing
<1>2. FilesType' /\ FilesType
  BY <1>1, ContentsOf DEF TypeInv, FilesType
<1>3. ASSUME upset' = {}  PROVE Safe'
  <2>1. Safe /\ config = admin
    BY <1>1, <1>3, Alone DEF Knows
  <2> QED  BY <1>1, <1>2, <2>1 DEF Safe, Quiet, FilesType
<1> QED  BY <1>1, <1>2, <1>3, Ends

-----------------------------------------------------------------------------
(* The others, and all together *)

LEMMA AdminStep ==
  ASSUME TypeInv, KeptInv, upset \subseteq upset', NEW o \in Originals, AdminEdit(o)
  PROVE  FilesType' /\ CallsType' /\ KeptInv'
<1>1. config' = o /\ admin' = o /\ UNCHANGED <<backup, pc, job>>
  BY DEF AdminEdit
<1>2. FilesType' /\ CallsType'
  BY <1>1, ContentsOf DEF TypeInv, FilesType, CallsType, Changing
<1>3. ASSUME upset' = {}
      PROVE  (\A c \in Calls : ~Changing(c)) /\ (\A d \in Dirs : backup[d] = Nothing)
  BY <1>3 DEF AdminEdit, Upset
<1>4. KeptInv'
  BY <1>1, <1>3 DEF KeptInv, Changing, Safe, Quiet
<1> QED  BY <1>2, <1>4

LEMMA KillKept ==
  ASSUME TypeInv, KeptInv, upset \subseteq upset', NEW d \in Dirs, Kill(d)
  PROVE  FilesType' /\ CallsType' /\ KeptInv'
<1>1. /\ CallsType' /\ UNCHANGED files
      /\ \A c \in Calls : Changing(c)' => Changing(c) /\ pc'[c] = pc[c] /\ job'[c] = job[c]
      /\ \A c \in Calls : pc[c] = "save" /\ pc'[c] # "save" => upset' # {}
  BY KillStep DEF TypeInv
<1>2. FilesType'
  BY <1>1 DEF TypeInv, FilesType, files
<1>3. ASSUME upset' = {}, \A c \in Calls : ~Changing(c)'  PROVE Safe
  <2>1. upset = {}
    BY <1>3
  <2>2. ASSUME NEW c \in Calls, Changing(c)  PROVE Safe
    <3>1. pc[c] # "save"
      BY <1>1, <1>3 DEF Changing
    <3> QED  BY <2>1, <2>2, <3>1 DEF KeptInv, Knows
  <2> QED  BY <2>1, <2>2 DEF KeptInv
<1>4. KeptInv'
  BY <1>1, <1>3 DEF KeptInv, Knows, Safe, Quiet, Saving, files
<1> QED  BY <1>1, <1>2, <1>4

LEMMA KeptStep == TypeInv /\ KeptInv /\ [Next]_vars => TypeInv' /\ KeptInv'
<1> SUFFICES ASSUME TypeInv, KeptInv, [Next]_vars PROVE FilesType' /\ CallsType' /\ KeptInv'
  BY LogsStep, ToldStep DEF TypeInv
<1>a. upset \subseteq upset' /\ FilesType /\ CallsType
  BY ToldStep DEF TypeInv
<1>1. ASSUME NEW c \in Calls, NEW d \in Dirs, EnableStart(c, d) \/ DisableStart(c, d)
      PROVE  FilesType' /\ CallsType' /\ KeptInv'
  BY <1>a, <1>1, StartStep DEF Step
<1>2. ASSUME NEW c \in Calls, \/ EnableRead(c) \/ EnableKeep(c) \/ EnableSave(c) \/ DisableDrop(c)
                              \/ WriteAtomic(c) \/ WriteAgain(c) \/ DisableForget(c)
      PROVE  FilesType' /\ CallsType' /\ KeptInv'
  BY <1>a, <1>2, ReadStep, KeepStep, SaveStep, DropStep, WriteStep, ForgetStep DEF Step
<1>3. ASSUME Elsewhere  PROVE FilesType' /\ KeptInv'
  BY <1>a, <1>3, KeptElsewhere DEF Elsewhere, FilesType, files
<1>4. ASSUME NEW c \in Calls, NEW d \in Dirs, ClearStart(c, d) \/ AnalyzeStart(c, d)
      PROVE  FilesType' /\ CallsType' /\ KeptInv'
  BY <1>a, <1>3, <1>4, WalkStart
<1>5. ASSUME NEW c \in Calls, \/ ClearNext(c) \/ AnalyzeList(c) \/ AnalyzeRead(c) \/ AnalyzePartly(c)
                              \/ AnalyzeFail(c) \/ AnalyzeSort(c) \/ AnalyzeAnswer(c)
      PROVE  FilesType' /\ CallsType' /\ KeptInv'
  BY <1>a, <1>3, <1>5, WalkStep
<1>6. ASSUME UNCHANGED <<files, pc, job, upset>>  PROVE FilesType' /\ CallsType' /\ KeptInv'
  <2>1. Elsewhere /\ CallsType'
    BY <1>a, <1>6 DEF Elsewhere, CallsType, Changing
  <2> QED  BY <1>3, <2>1
<1>7. ASSUME NEW f \in ToSet(Logs), Rotate(f) \/ \E l \in Lines : LogEvent(f, l)
      PROVE  FilesType' /\ CallsType' /\ KeptInv'
  BY <1>6, <1>7 DEF Rotate, LogEvent
<1>8. CASE UNCHANGED vars
  BY <1>6, <1>8 DEF vars, files
<1> QED  BY <1>a, <1>1, <1>2, <1>4, <1>5, <1>7, <1>8, AdminStep, KillKept DEF Next

LEMMA KeptInit == Init => KeptInv
BY DEF Init, KeptInv, Changing, Safe, Quiet

LEMMA KeptHolds == Spec => [](TypeInv /\ KeptInv)
BY TypeInit, KeptInit, KeptStep, PTL DEF Spec

\* The files hold what can be written to them, and a call its own data.
THEOREM TechlogTypes == Spec => []TypeOK
<1>1. TypeInv => TypeOK
  BY DEF TypeInv, TypeOK, FilesType, LogsType, CallsType, States, Causes, Change
<1> QED  BY <1>1, KeptHolds, PTL

\* The administrator's last logcfg.xml exists, as the file or as a copy, after any
\* sequence of calls, refusals and kills, but for the causes `upset` names.
THEOREM OriginalTheorem == Spec => []OriginalIsKept
<1>1. ASSUME KeptInv, upset = {}
      PROVE  /\ admin # Nothing => config = admin \/ \E d \in Dirs : backup[d] = admin
             /\ \A c \in Calls : At(c, "forget") => config = admin
             /\ (\A c \in Calls, d \in Dirs : ~Changing(c) /\ backup[d] = Nothing)
                  => config = admin \/ (admin = Nothing /\ config \in Own)
  <2>1. CASE Safe
    <3>1. ASSUME NEW c \in Calls, At(c, "forget")  PROVE config = admin
      BY <1>1, <3>1 DEF At, KeptInv, Knows, Changing
    <3> QED  BY <2>1, <3>1, TechlogAssumption DEF Safe, Quiet
  <2>2. CASE ~Safe
    <3>1. PICK c \in Calls : Changing(c) /\ Knows(c) /\ pc[c] = "save"
      BY <1>1, <2>2 DEF KeptInv, Knows
    <3> QED  BY <1>1, <3>1 DEF Knows, Saving
  <2> QED  BY <2>1, <2>2
<1>2. KeptInv => OriginalIsKept
  BY <1>1 DEF OriginalIsKept
<1> QED  BY <1>2, KeptHolds, PTL

-----------------------------------------------------------------------------
(* The longest events                                                      *)

Held == [ToSet(Logs) -> Seq(Lines) \cup {Nothing}]

\* The files of one time are there at a later one, with the lines they had.
Grown(before, after) ==
  \A f \in ToSet(Logs) : before[f] # Nothing =>
    /\ after[f] # Nothing /\ Len(before[f]) <= Len(after[f])
    /\ \A n \in 1..Len(before[f]) : after[f][n] = before[f][n]

\* The event was there, or was logged since.
Known(e, start, r) ==
  e \in EventsOf(start, r) \/ start[e.file] = Nothing \/ e.line > Len(start[e.file])

Walking(j) ==
  /\ j.start \in Held /\ j.request.limit \in Int
  /\ j.todo \subseteq DOMAIN Logs /\ j.unlisted \subseteq DOMAIN Logs /\ IsFiniteSet(j.found)

Walked(j) ==
  /\ \A e \in EventsOf(j.start, j.request) :
       e \in j.found \/ \E n \in j.todo \cup j.unlisted : Logs[n] = e.file
  /\ \A e \in j.found : Known(e, j.start, j.request)

Answered(j) ==
  LET top == j.longest
      there == EventsOf(j.start, j.request)
      limit == LimitOf(j.request.limit)
  IN  /\ Len(top) <= limit
      /\ \A i, k \in DOMAIN top : i < k => top[i] # top[k] /\ top[i].ms >= top[k].ms
      /\ \A e \in there :
           \/ \E i \in DOMAIN top : top[i] = e
           \/ Len(top) = limit /\ \A i \in DOMAIN top : top[i].ms >= e.ms
      /\ \A i \in DOMAIN top : Known(top[i], j.start, j.request)

\* What is known of an analysis at each step.
Analysis(c) ==
  /\ At(c, "walk") => Walking(job[c])
  /\ At(c, "walk") /\ c \notin cleared =>
       /\ Grown(job[c].start, logs) /\ Walked(job[c])
       /\ \A n \in job[c].todo : logs[Logs[n]] # Nothing
  /\ At(c, "answer") /\ c \notin cleared => Answered(job[c])

AnalysisInv == \A c \in Calls : Analysis(c)

LEMMA LogAt == ASSUME NEW n \in DOMAIN Logs  PROVE Logs[n] \in ToSet(Logs)
BY DEF ToSet

LEMMA GrownTwice ==
  ASSUME NEW a \in Held, NEW b \in Held, NEW d \in Held, Grown(a, b), Grown(b, d)
  PROVE  Grown(a, d)
<1> SUFFICES ASSUME NEW f \in ToSet(Logs), a[f] # Nothing
             PROVE  /\ d[f] # Nothing /\ Len(a[f]) <= Len(d[f])
                    /\ \A n \in 1..Len(a[f]) : d[f][n] = a[f][n]
  BY DEF Grown
<1>1. b[f] # Nothing /\ Len(a[f]) <= Len(b[f]) /\ \A n \in 1..Len(a[f]) : b[f][n] = a[f][n]
  BY DEF Grown
<1>2. d[f] # Nothing /\ Len(b[f]) <= Len(d[f]) /\ \A n \in 1..Len(b[f]) : d[f][n] = b[f][n]
  BY <1>1 DEF Grown
<1>3. a[f] \in Seq(Lines) /\ b[f] \in Seq(Lines) /\ d[f] \in Seq(Lines)
  BY <1>1, <1>2 DEF Held
<1>4. Len(a[f]) \in Nat /\ Len(b[f]) \in Nat /\ Len(d[f]) \in Nat
  BY <1>3
<1> QED  BY <1>1, <1>2, <1>4

LEMMA GrownSame == ASSUME NEW a \in Held  PROVE Grown(a, a)
<1>1. ASSUME NEW f \in ToSet(Logs), a[f] # Nothing  PROVE Len(a[f]) <= Len(a[f])
  <2>1. a[f] \in Seq(Lines)
    BY <1>1 DEF Held
  <2> QED  BY <2>1
<1> QED  BY <1>1 DEF Grown

\* A line more, or a file more.
LEMMA GrownByOne ==
  ASSUME logs \in Held, NEW f \in ToSet(Logs), NEW l \in Lines, LogEvent(f, l)
  PROVE  Grown(logs, logs')
<1> SUFFICES ASSUME NEW g \in ToSet(Logs), logs[g] # Nothing
             PROVE  /\ logs'[g] # Nothing /\ Len(logs[g]) <= Len(logs'[g])
                    /\ \A n \in 1..Len(logs[g]) : logs'[g][n] = logs[g][n]
  BY DEF Grown
<1>1. logs[g] \in Seq(Lines) /\ Len(logs[g]) \in Nat
  BY DEF Held
<1>2. CASE g = f
  <2>1. logs'[g] = Append(logs[g], l)
    BY <1>2 DEF LogEvent, Held
  <2>2. logs'[g] \in Seq(Lines) /\ Len(logs'[g]) = Len(logs[g]) + 1
        /\ \A n \in 1..Len(logs[g]) : logs'[g][n] = logs[g][n]
    BY <1>1, <2>1
  <2> QED  BY <1>1, <2>2, TechlogAssumption
<1>3. CASE g # f
  <2>1. logs'[g] = logs[g]
    BY <1>3 DEF LogEvent, Held
  <2> QED  BY <1>1, <2>1
<1> QED  BY <1>2, <1>3

LEMMA EventIn ==
  ASSUME NEW f, NEW lines, NEW r, NEW e
  PROVE  e \in EventsIn(f, lines, r) <=>
           \E n \in DOMAIN lines : Matches(lines[n], r) /\ e = [file |-> f, line |-> n, ms |-> lines[n].ms]
BY DEF EventsIn

LEMMA EventOf ==
  ASSUME NEW held \in Held, NEW r, NEW e
  PROVE  e \in EventsOf(held, r) <=>
           e.file \in ToSet(Logs) /\ held[e.file] # Nothing /\ e \in EventsIn(e.file, held[e.file], r)
<1>1. DOMAIN held = ToSet(Logs)
  BY DEF Held
<1>2. ASSUME NEW f, e \in EventsIn(f, held[f], r)  PROVE e.file = f
  BY <1>2, EventIn
<1> QED  BY <1>1, <1>2 DEF EventsOf

LEMMA EventsFinite ==
  ASSUME NEW f, NEW lines \in Seq(Lines), NEW r
  PROVE  IsFiniteSet(EventsIn(f, lines, r))
<1> DEFINE S == {m \in DOMAIN lines : Matches(lines[m], r)}
           T == EventsIn(f, lines, r)
           place == [n \in S |-> [file |-> f, line |-> n, ms |-> lines[n].ms]]
<1>1. IsFiniteSet(S)
  <2>1. DOMAIN lines = 1..Len(lines) /\ Len(lines) \in Nat
    OBVIOUS
  <2>2. IsFiniteSet(1..Len(lines))
    BY <2>1, FS_Interval
  <2>3. S \in SUBSET (1..Len(lines))
    BY <2>1
  <2> QED  BY <2>2, <2>3, FS_Subset
<1>2. place \in Surjection(S, T)
  BY EventIn DEF Surjection
<1> QED  BY <1>1, <1>2, FS_Surjection

LEMMA LimitType == ASSUME NEW n \in Int  PROVE LimitOf(n) \in Nat
BY TechlogAssumption DEF LimitOf

\* Of different events as many as there are none is missing.
LEMMA LongestOf ==
  ASSUME NEW found, IsFiniteSet(found), NEW limit \in Nat, NEW top \in Longest(found, limit)
  PROVE  /\ Len(top) <= limit /\ \A i \in DOMAIN top : top[i] \in found
         /\ \A i, k \in DOMAIN top : i < k => top[i] # top[k] /\ top[i].ms >= top[k].ms
         /\ \A e \in found : \/ \E i \in DOMAIN top : top[i] = e
                             \/ Len(top) = limit /\ \A i \in DOMAIN top : top[i].ms >= e.ms
<1> DEFINE n == Fewer(Cardinality(found), limit)
<1>1. Cardinality(found) \in Nat
  BY FS_CardinalityType
<1>2. n \in Nat /\ n <= limit /\ (n = Cardinality(found) \/ n = limit)
  BY <1>1 DEF Fewer
<1>3. /\ top \in [1..n -> found]
      /\ \A i, k \in 1..n : i < k => top[i] # top[k] /\ top[i].ms >= top[k].ms
      /\ \A e \in found : (\E i \in DOMAIN top : top[i] = e) \/ \A i \in DOMAIN top : top[i].ms >= e.ms
  BY DEF Longest, Sorted
<1> HIDE DEF n
<1>4. DOMAIN top = 1..n /\ Len(top) = n
  <2>1. top \in Seq(found) /\ DOMAIN top = 1..n
    BY <1>2, <1>3
  <2> QED  BY <1>2, <2>1
<1>5. ASSUME n = Cardinality(found), NEW e \in found  PROVE \E i \in DOMAIN top : top[i] = e
  <2>1. ASSUME NEW i \in 1..n, NEW k \in 1..n, top[i] = top[k]  PROVE i = k
    <3>1. ~(i < k) /\ ~(k < i)
      BY <1>3, <2>1
    <3> QED  BY <1>2, <3>1
  <2>2. top \in Injection(1..n, found)
    BY <1>3, <2>1 DEF Injection, IsInjective
  <2>3. Cardinality(1..n) = n
    BY <1>2, FS_Interval
  <2>4. top \in Surjection(1..n, found)
    BY <1>5, <2>2, <2>3, FS_Injection
  <2> QED  BY <1>4, <2>4 DEF Surjection
<1> QED  BY <1>2, <1>3, <1>4, <1>5

-----------------------------------------------------------------------------
(* The steps of an analysis                                                *)

\* Nothing of an analysis changes when another call or someone else takes a step
\* that removes no file, or tells.
LEMMA AnalysisOf ==
  ASSUME logs \in Held, logs' \in Held, NEW c \in Calls, Analysis(c),
         At(c, "walk") \/ At(c, "answer") => pc'[c] = pc[c] /\ job'[c] = job[c],
         pc'[c] \in {"walk", "answer"} => At(c, "walk") \/ At(c, "answer"),
         At(c, "walk") /\ c \notin cleared' => c \notin cleared /\ Grown(logs, logs'),
         At(c, "answer") /\ c \notin cleared' => c \notin cleared
  PROVE  Analysis(c)'
<1>1. At(c, "walk")' => At(c, "walk") /\ job'[c] = job[c]
  BY DEF At
<1>2. At(c, "answer")' => At(c, "answer") /\ job'[c] = job[c]
  BY DEF At
<1>3. Walking(job[c]) /\ At(c, "walk") /\ At(c, "walk")' => Walking(job'[c])
  BY <1>1
<1>4. ASSUME At(c, "walk")', c \notin cleared'
      PROVE  /\ Grown(job'[c].start, logs') /\ Walked(job'[c])
             /\ \A n \in job'[c].todo : logs'[Logs[n]] # Nothing
  <2>1. At(c, "walk") /\ job'[c] = job[c] /\ c \notin cleared /\ Grown(logs, logs')
    BY <1>1, <1>4
  <2>2. /\ Grown(job[c].start, logs) /\ Walked(job[c]) /\ Walking(job[c])
        /\ \A n \in job[c].todo : logs[Logs[n]] # Nothing
    BY <2>1 DEF Analysis
  <2>3. Grown(job[c].start, logs')
    BY <2>1, <2>2, GrownTwice DEF Walking
  <2>4. \A n \in job[c].todo : logs'[Logs[n]] # Nothing
    BY <2>1, <2>2, LogAt DEF Walking, Grown
  <2> QED  BY <2>1, <2>2, <2>3, <2>4
<1>5. At(c, "answer")' /\ c \notin cleared' => Answered(job'[c])
  BY <1>2 DEF Analysis
<1>6. At(c, "walk")' => Walking(job'[c])
  BY <1>1 DEF Analysis
<1> QED  BY <1>4, <1>5, <1>6 DEF Analysis

\* What the files hold is no more than what is found and what is to come.
LEMMA AnalyzeStarts ==
  ASSUME logs \in Held, DOMAIN job = Calls, pc \in [Calls -> States],
         NEW c \in Calls, NEW d \in Dirs, AnalyzeStart(c, d)
  PROVE  Analysis(c)'
<1>1. PICK r \in Requests : /\ r.kind = "analyze"
                            /\ job' = [job EXCEPT ![c] = [dir |-> d, request |-> r, start |-> logs,
                                 todo |-> {n \in DOMAIN Logs : Logs[n] \in LogFiles \cap TopLevel},
                                 unlisted |-> {n \in DOMAIN Logs : Logs[n] \notin TopLevel},
                                 found |-> {}, longest |-> <<>>]]
  BY DEF AnalyzeStart
<1>2. pc'[c] = "walk" /\ logs' = logs
  BY DEF AnalyzeStart, Goto, walking
<1>3. /\ job'[c].start = logs /\ job'[c].request = r /\ job'[c].found = {}
      /\ job'[c].todo = {n \in DOMAIN Logs : Logs[n] \in LogFiles \cap TopLevel}
      /\ job'[c].unlisted = {n \in DOMAIN Logs : Logs[n] \notin TopLevel}
  BY <1>1
<1>4. Walking(job'[c])
  BY <1>1, <1>3, TechlogAssumption, FS_EmptySet DEF Walking
<1>5. ASSUME NEW e \in EventsOf(logs, r)
      PROVE  \E n \in job'[c].todo \cup job'[c].unlisted : Logs[n] = e.file
  <2>1. e.file \in ToSet(Logs) /\ logs[e.file] # Nothing
    BY EventOf
  <2>2. PICK n \in DOMAIN Logs : Logs[n] = e.file
    BY <2>1 DEF ToSet
  <2>3. Logs[n] \in LogFiles
    BY <2>1, <2>2 DEF LogFiles, Held
  <2> QED  BY <1>3, <2>2, <2>3
<1>6. Walked(job'[c])
  BY <1>3, <1>5 DEF Walked
<1>7. \A n \in job'[c].todo : logs[Logs[n]] # Nothing
  BY <1>3 DEF LogFiles
<1> QED  BY <1>2, <1>3, <1>4, <1>6, <1>7, GrownSame DEF Analysis, At

\* A directory is listed: the files that were there at the start still are.
LEMMA AnalyzeLists ==
  ASSUME logs \in Held, DOMAIN job = Calls, NEW c \in Calls, Analysis(c), AnalyzeList(c)
  PROVE  Analysis(c)'
<1>1. At(c, "walk") /\ UNCHANGED <<pc, logs, cleared>> /\ Walking(job[c])
  BY DEF AnalyzeList, walking, Analysis
<1>2. PICK n \in job[c].unlisted :
        Analyzed(c, job[c].todo \cup {m \in {n} : Logs[m] \in LogFiles}, job[c].unlisted \ {n}, job[c].found, <<>>)
  BY DEF AnalyzeList
<1>3. /\ job'[c].start = job[c].start /\ job'[c].request = job[c].request /\ job'[c].found = job[c].found
      /\ job'[c].todo = job[c].todo \cup {m \in {n} : Logs[m] \in LogFiles}
      /\ job'[c].unlisted = job[c].unlisted \ {n}
  BY <1>2 DEF Analyzed
<1>4. Walking(job'[c])
  BY <1>1, <1>3 DEF Walking
<1>5. ASSUME c \notin cleared
      PROVE  /\ Grown(job'[c].start, logs) /\ Walked(job'[c])
             /\ \A k \in job'[c].todo : logs[Logs[k]] # Nothing
  <2>1. /\ Grown(job[c].start, logs) /\ Walked(job[c])
        /\ \A k \in job[c].todo : logs[Logs[k]] # Nothing
    BY <1>1, <1>5 DEF Analysis
  <2>2. ASSUME NEW e \in EventsOf(job[c].start, job[c].request)
        PROVE  e \in job'[c].found \/ \E k \in job'[c].todo \cup job'[c].unlisted : Logs[k] = e.file
    <3>1. e.file \in ToSet(Logs) /\ job[c].start[e.file] # Nothing
      BY <1>1, EventOf DEF Walking
    <3>2. logs[e.file] # Nothing /\ e.file \in LogFiles
      BY <2>1, <3>1 DEF Grown, LogFiles, Held
    <3> QED  BY <1>3, <2>1, <3>2 DEF Walked
  <2>3. Walked(job'[c])
    BY <1>3, <2>1, <2>2 DEF Walked
  <2>4. \A k \in job'[c].todo : logs[Logs[k]] # Nothing
    BY <1>3, <2>1 DEF LogFiles
  <2> QED  BY <1>3, <2>1, <2>3, <2>4
<1> QED  BY <1>1, <1>3, <1>4, <1>5 DEF Analysis, At

\* A file is read: it holds what it held at the start, and perhaps more.
LEMMA AnalyzeReads ==
  ASSUME logs \in Held, DOMAIN job = Calls, NEW c \in Calls, Analysis(c), AnalyzeRead(c)
  PROVE  Analysis(c)'
<1>1. At(c, "walk") /\ UNCHANGED <<pc, logs, cleared>> /\ Walking(job[c])
  BY DEF AnalyzeRead, walking, Analysis
<1>2. PICK n \in DOMAIN Logs :
        /\ logs[Logs[n]] # Nothing
        /\ Analyzed(c, job[c].todo \ {n}, job[c].unlisted,
                    job[c].found \cup EventsIn(Logs[n], logs[Logs[n]], job[c].request), <<>>)
  BY DEF AnalyzeRead
<1> DEFINE f == Logs[n]
           r == job[c].request
           start == job[c].start
<1>3. /\ job'[c].start = start /\ job'[c].request = r
      /\ job'[c].found = job[c].found \cup EventsIn(f, logs[f], r)
      /\ job'[c].todo = job[c].todo \ {n} /\ job'[c].unlisted = job[c].unlisted
  BY <1>2 DEF Analyzed
<1>4. f \in ToSet(Logs) /\ logs[f] \in Seq(Lines) /\ start \in Held
  BY <1>1, <1>2, LogAt DEF Held, Walking
<1>5. Walking(job'[c])
  <2>1. IsFiniteSet(job'[c].found)
    <3>1. IsFiniteSet(EventsIn(f, logs[f], r)) /\ IsFiniteSet(job[c].found)
      BY <1>1, <1>4, EventsFinite DEF Walking
    <3> HIDE DEF f, r
    <3>2. IsFiniteSet(job[c].found \cup EventsIn(f, logs[f], r))
      BY <3>1, FS_Union
    <3> QED  BY <1>3, <3>2
  <2> QED  BY <1>1, <1>3, <2>1 DEF Walking
<1> HIDE DEF r, start, f
<1>6. ASSUME c \notin cleared
      PROVE  /\ Grown(job'[c].start, logs) /\ Walked(job'[c])
             /\ \A k \in job'[c].todo : logs[Logs[k]] # Nothing
  <2>1. /\ Grown(start, logs) /\ Walked(job[c])
        /\ \A k \in job[c].todo : logs[Logs[k]] # Nothing
    BY <1>1, <1>6 DEF Analysis, start
  <2>2. ASSUME start[f] # Nothing
        PROVE  /\ start[f] \in Seq(Lines) /\ Len(start[f]) \in Nat /\ Len(start[f]) <= Len(logs[f])
               /\ DOMAIN start[f] = 1..Len(start[f]) /\ DOMAIN logs[f] = 1..Len(logs[f])
               /\ \A k \in 1..Len(start[f]) : logs[f][k] = start[f][k]
    <3>1. start[f] \in Seq(Lines)
      BY <1>4, <2>2 DEF Held
    <3> QED  BY <1>4, <2>1, <2>2, <3>1 DEF Grown
  <2>3. ASSUME NEW e \in EventsOf(start, r)
        PROVE  e \in job'[c].found \/ \E k \in job'[c].todo \cup job'[c].unlisted : Logs[k] = e.file
    <3>1. start[e.file] # Nothing /\ e \in EventsIn(e.file, start[e.file], r)
      BY <1>4, EventOf
    <3>2. CASE e.file = f
      <4>1. PICK k \in DOMAIN start[f] : /\ Matches(start[f][k], r)
                                         /\ e = [file |-> f, line |-> k, ms |-> start[f][k].ms]
        BY <3>1, <3>2, EventIn
      <4>2. k \in DOMAIN logs[f] /\ logs[f][k] = start[f][k]
        <5>1. k \in 1..Len(start[f]) /\ Len(logs[f]) \in Nat
          BY <1>4, <2>2, <3>1, <3>2
        <5> QED  BY <2>2, <3>1, <3>2, <5>1
      <4>3. e \in EventsIn(f, logs[f], r)
        BY <4>1, <4>2, EventIn
      <4> QED  BY <1>3, <4>3
    <3>3. CASE e.file # f
      BY <1>3, <2>1, <3>3 DEF Walked, start, r, f
    <3> QED  BY <3>2, <3>3
  <2>4. ASSUME NEW e \in EventsIn(f, logs[f], r)  PROVE Known(e, start, r)
    <3>1. PICK k \in DOMAIN logs[f] : Matches(logs[f][k], r) /\ e = [file |-> f, line |-> k, ms |-> logs[f][k].ms]
      BY EventIn
    <3>2. e.file = f /\ e.line = k /\ k \in Nat
      BY <1>4, <3>1
    <3>3. ASSUME start[f] # Nothing, ~(k > Len(start[f]))  PROVE e \in EventsOf(start, r)
      <4>1. k \in DOMAIN start[f] /\ start[f][k] = logs[f][k]
        <5>1. k \in 1..Len(start[f])
          BY <1>4, <2>2, <3>1, <3>3
        <5> QED  BY <2>2, <3>3, <5>1
      <4>2. e \in EventsIn(f, start[f], r)
        BY <3>1, <4>1, EventIn
      <4> QED  BY <1>4, <3>2, <3>3, <4>2, EventOf
    <3> QED  BY <3>2, <3>3 DEF Known
  <2>5. Walked(job'[c])
    <3>1. \A e \in job[c].found : Known(e, start, r)
      BY <2>1 DEF Walked, start, r
    <3> QED  BY <1>3, <2>3, <2>4, <3>1 DEF Walked
  <2>6. \A k \in job'[c].todo : logs[Logs[k]] # Nothing
    BY <1>3, <2>1
  <2> QED  BY <1>3, <2>1, <2>5, <2>6
<1> QED  BY <1>1, <1>3, <1>5, <1>6 DEF Analysis, At

\* A file that is gone was there when it was listed: one has been removed.
LEMMA AnalyzeEndsPartly ==
  ASSUME NEW c \in Calls, Analysis(c), AnalyzePartly(c), pc \in [Calls -> States]
  PROVE  Analysis(c)'
<1>1. At(c, "walk") /\ pc'[c] = "answer" /\ UNCHANGED cleared
  BY DEF AnalyzePartly, walking, Goto
<1>2. c \in cleared
  BY <1>1 DEF AnalyzePartly, Analysis, First
<1> QED  BY <1>1, <1>2 DEF Analysis, At

\* Nothing is to come: what was there has been found.
LEMMA AnalyzeSorts ==
  ASSUME NEW c \in Calls, Analysis(c), AnalyzeSort(c), pc \in [Calls -> States], DOMAIN job = Calls
  PROVE  Analysis(c)'
<1>1. At(c, "walk") /\ pc'[c] = "answer" /\ UNCHANGED cleared /\ Walking(job[c])
      /\ job[c].todo = {} /\ job[c].unlisted = {}
  BY DEF AnalyzeSort, walking, Goto, Analysis
<1> DEFINE limit == LimitOf(job[c].request.limit)
<1>2. PICK top \in Longest(job[c].found, limit) : Analyzed(c, {}, {}, job[c].found, top)
  BY DEF AnalyzeSort
<1>3. job'[c].start = job[c].start /\ job'[c].request = job[c].request /\ job'[c].longest = top
  BY <1>2 DEF Analyzed
<1>4. limit \in Nat /\ IsFiniteSet(job[c].found)
  BY <1>1, LimitType DEF Walking
<1> HIDE DEF limit
<1>5. /\ Len(top) <= limit /\ \A i \in DOMAIN top : top[i] \in job[c].found
      /\ \A i, k \in DOMAIN top : i < k => top[i] # top[k] /\ top[i].ms >= top[k].ms
      /\ \A e \in job[c].found : \/ \E i \in DOMAIN top : top[i] = e
                                 \/ Len(top) = limit /\ \A i \in DOMAIN top : top[i].ms >= e.ms
  BY <1>2, <1>4, LongestOf
<1>6. ASSUME c \notin cleared  PROVE Answered(job'[c])
  <2>1. Walked(job[c])
    BY <1>1, <1>6 DEF Analysis
  <2>2. /\ EventsOf(job[c].start, job[c].request) \subseteq job[c].found
        /\ \A e \in job[c].found : Known(e, job[c].start, job[c].request)
    BY <1>1, <2>1 DEF Walked
  <2> QED  BY <1>3, <1>5, <2>2 DEF Answered, limit
<1> QED  BY <1>1, <1>6 DEF Analysis, At

LEMMA AnalysisStep ==
  ASSUME TypeInv, TypeInv', AnalysisInv, [Next]_vars
  PROVE  AnalysisInv'
<1>1. logs \in Held /\ logs' \in Held /\ DOMAIN job = Calls /\ pc \in [Calls -> States]
  BY DEF TypeInv, LogsType, CallsType, Held
\* What a step leaves to the calls that do not take it.
<1>2. ASSUME NEW c \in Calls, NEW o,
             \A a \in Calls \ {o} : pc'[a] = pc[a] /\ job'[a] = job[a],
             \/ logs' = logs /\ cleared \ {o} \subseteq cleared'
             \/ cleared \cup {a \in Calls : At(a, "walk")} \subseteq cleared',
             c # o
      PROVE  Analysis(c)'
  <2>1. Analysis(c) /\ pc'[c] = pc[c] /\ job'[c] = job[c]
    BY <1>2 DEF AnalysisInv
  <2>2. c \notin cleared' => c \notin cleared
    BY <1>2
  <2>3. At(c, "walk") /\ c \notin cleared' => Grown(logs, logs')
    BY <1>1, <1>2, GrownSame
  <2> QED  BY <1>1, <2>1, <2>2, <2>3, AnalysisOf DEF At
\* A call that does not analyze after the step.
<1>3. ASSUME NEW c \in Calls, pc'[c] \notin {"walk", "answer"}  PROVE Analysis(c)'
  BY <1>3 DEF Analysis, At
<1>4. ASSUME NEW c \in Calls, \A a \in Calls \ {c} : pc'[a] = pc[a] /\ job'[a] = job[a], Analysis(c)',
             \/ logs' = logs /\ cleared \ {c} \subseteq cleared'
             \/ cleared \cup {a \in Calls : At(a, "walk")} \subseteq cleared'
      PROVE  AnalysisInv'
  BY <1>2, <1>4 DEF AnalysisInv
\* Steps that move a call by Goto, Return or Analyzed.
<1>5. ASSUME NEW c \in Calls, NEW at \in States \ {"walk", "answer"}, pc' = [pc EXCEPT ![c] = at],
             UNCHANGED walking, \A a \in Calls \ {c} : job'[a] = job[a]
      PROVE  AnalysisInv'
  BY <1>1, <1>3, <1>4, <1>5 DEF walking
<1>6. ASSUME NEW c \in Calls, NEW d \in Dirs, EnableStart(c, d) \/ DisableStart(c, d) \/ ClearStart(c, d)
      PROVE  AnalysisInv'
  BY <1>1, <1>5, <1>6 DEF EnableStart, DisableStart, ClearStart, Goto, States
<1>7. ASSUME NEW c \in Calls, \/ EnableRead(c) \/ EnableKeep(c) \/ EnableSave(c) \/ DisableDrop(c)
                              \/ WriteAtomic(c) \/ WriteAgain(c) \/ DisableForget(c)
      PROVE  AnalysisInv'
  <2>1. UNCHANGED walking
    BY <1>7 DEF EnableRead, EnableKeep, EnableSave, DisableDrop, WriteAtomic, WriteAgain, DisableForget
  <2>2. \E at \in States \ {"walk", "answer"} : pc' = [pc EXCEPT ![c] = at]
    BY <1>7 DEF EnableRead, EnableKeep, EnableSave, DisableDrop, WriteAtomic, WriteAgain, DisableForget,
                Return, Goto, States
  <2>3. \A a \in Calls \ {c} : job'[a] = job[a]
    BY <1>1, <1>7 DEF EnableRead, EnableKeep, EnableSave, DisableDrop, WriteAtomic, WriteAgain, DisableForget, Return
  <2> QED  BY <1>5, <2>1, <2>2, <2>3
<1>8. ASSUME NEW c \in Calls, ClearNext(c)  PROVE AnalysisInv'
  <2>1. pc'[c] \notin {"walk", "answer"} /\ \A a \in Calls \ {c} : pc'[a] = pc[a] /\ job'[a] = job[a]
    BY <1>1, <1>8 DEF ClearNext, Return, Goto, At
  <2>2. \/ logs' = logs /\ cleared' = cleared
        \/ cleared' = cleared \cup {a \in Calls : At(a, "walk")}
    BY <1>8 DEF ClearNext
  <2> QED  BY <1>3, <1>4, <2>1, <2>2
<1>9. ASSUME NEW c \in Calls, NEW d \in Dirs, AnalyzeStart(c, d)  PROVE AnalysisInv'
  <2>1. Analysis(c)'
    BY <1>1, <1>9, AnalyzeStarts
  <2>2. UNCHANGED walking /\ \A a \in Calls \ {c} : pc'[a] = pc[a] /\ job'[a] = job[a]
    BY <1>1, <1>9 DEF AnalyzeStart, Goto
  <2> QED  BY <1>4, <2>1, <2>2 DEF walking
<1>10. ASSUME NEW c \in Calls, AnalyzeList(c) \/ AnalyzeRead(c) \/ AnalyzePartly(c) \/ AnalyzeSort(c)
       PROVE  AnalysisInv'
  <2>1. Analysis(c)'
    BY <1>1, <1>10, AnalyzeLists, AnalyzeReads, AnalyzeEndsPartly, AnalyzeSorts DEF AnalysisInv
  <2>2. UNCHANGED walking /\ \A a \in Calls \ {c} : pc'[a] = pc[a] /\ job'[a] = job[a]
    BY <1>1, <1>10 DEF AnalyzeList, AnalyzeRead, AnalyzePartly, AnalyzeSort, Analyzed, Goto
  <2> QED  BY <1>4, <2>1, <2>2 DEF walking
<1>11. ASSUME NEW c \in Calls, AnalyzeFail(c) \/ AnalyzeAnswer(c)  PROVE AnalysisInv'
  <2>1. pc'[c] = "idle" /\ \A a \in Calls \ {c} : pc'[a] = pc[a] /\ job'[a] = job[a]
    BY <1>1, <1>11 DEF AnalyzeFail, AnalyzeAnswer, Return, Goto
  <2>2. logs' = logs /\ cleared' = cleared \ {c}
    BY <1>11 DEF AnalyzeFail, AnalyzeAnswer
  <2> QED  BY <1>3, <1>4, <2>1, <2>2
<1>12. ASSUME NEW d \in Dirs, Kill(d)  PROVE AnalysisInv'
  <2> DEFINE hit == {c \in Calls : pc[c] # "idle" /\ job[c].dir = d}
  <2>1. /\ pc' = [c \in Calls |-> IF c \in hit THEN "idle" ELSE pc[c]]
        /\ job' = [c \in Calls |-> IF c \in hit THEN Nothing ELSE job[c]]
        /\ cleared' = cleared \ hit /\ logs' = logs
    BY <1>12 DEF Kill
  <2> HIDE DEF hit
  <2>2. ASSUME NEW c \in Calls  PROVE Analysis(c)'
    <3>1. CASE c \in hit
      BY <1>3, <2>1, <3>1
    <3>2. CASE c \notin hit
      <4>1. Analysis(c) /\ pc'[c] = pc[c] /\ job'[c] = job[c] /\ (c \notin cleared' => c \notin cleared)
            /\ Grown(logs, logs')
        BY <1>1, <2>1, <3>2, GrownSame DEF AnalysisInv
      <4> QED  BY <1>1, <4>1, AnalysisOf DEF At
    <3> QED  BY <3>1, <3>2
  <2> QED  BY <2>2 DEF AnalysisInv
<1>13. ASSUME UNCHANGED <<pc, job>>, cleared \subseteq cleared',
              Grown(logs, logs') \/ {a \in Calls : At(a, "walk")} \subseteq cleared'
       PROVE  AnalysisInv'
  <2>1. ASSUME NEW c \in Calls  PROVE Analysis(c)'
    <3>1. Analysis(c) /\ pc'[c] = pc[c] /\ job'[c] = job[c] /\ (c \notin cleared' => c \notin cleared)
      BY <1>13 DEF AnalysisInv
    <3>2. At(c, "walk") /\ c \notin cleared' => Grown(logs, logs')
      BY <1>13
    <3> QED  BY <1>1, <3>1, <3>2, AnalysisOf DEF At
  <2> QED  BY <2>1 DEF AnalysisInv
<1>14. ASSUME NEW o \in Originals, AdminEdit(o)  PROVE AnalysisInv'
  BY <1>1, <1>13, <1>14, GrownSame DEF AdminEdit, walking
<1>15. ASSUME NEW f \in ToSet(Logs), Rotate(f)  PROVE AnalysisInv'
  BY <1>13, <1>15 DEF Rotate
<1>16. ASSUME NEW f \in ToSet(Logs), NEW l \in Lines, LogEvent(f, l)  PROVE AnalysisInv'
  <2>1. Grown(logs, logs') /\ UNCHANGED <<pc, job, cleared>>
    BY <1>1, <1>16, GrownByOne DEF LogEvent
  <2> QED  BY <1>13, <2>1
<1>17. CASE UNCHANGED vars
  BY <1>1, <1>13, <1>17, GrownSame DEF vars
<1> QED  BY <1>6, <1>7, <1>8, <1>9, <1>10, <1>11, <1>12, <1>14, <1>15, <1>16, <1>17 DEF Next

LEMMA AnalysisInit == Init => AnalysisInv
BY DEF Init, AnalysisInv, Analysis, At

LEMMA AnalysisHolds == Spec => []AnalysisInv
BY AnalysisInit, AnalysisStep, KeptHolds, PTL DEF Spec

\* An analysis under which no log file was removed answers with the longest of the
\* matching events, as many as its limit allows, however the files grow meanwhile.
THEOREM AnalysisTheorem == Spec => []AnalysisIsLongest
<1>1. AnalysisInv => AnalysisIsLongest
  BY DEF AnalysisInv, Analysis, Answered, Known, AnalysisIsLongest
<1> QED  BY <1>1, AnalysisHolds, PTL
=============================================================================
