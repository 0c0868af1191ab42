----------------------------- MODULE DumpIndex -----------------------------
(***************************************************************************)
(* The search index of a configuration dump (internal/dump/index.go).      *)
(* dump.Open takes the cached index if no file of the dump has another     *)
(* size or time than its document, and otherwise walks the dump, hands the *)
(* files to a pool of goroutines over unbuffered channels, collects their  *)
(* documents and replaces the cache.                                       *)
(*                                                                         *)
(* Several processes open the same dump (a server per client and `index    *)
(* build`), each may be killed at any moment, and Designer or a developer  *)
(* rewrites the files meanwhile.  The size and modification time of a file *)
(* are one stamp, new with every change; a text without a word of two      *)
(* characters is Empty.                                                    *)
(***************************************************************************)
EXTENDS Integers, FiniteSets

CONSTANTS
  Procs,    \* processes that open the dump
  Pool,     \* goroutines of a pool: GOMAXPROCS, at most 8
  Files,    \* the .bsl and .xml paths, numbered in the order of collectPaths
  Texts,    \* what a file may say
  Empty,    \* a text without terms
  None,     \* no file, no cache, no document
  MaxEdits, \* bound: changes of files
  MaxOpens  \* bound: calls of Open

ASSUME DumpAssumption ==
  /\ Files \subseteq Nat /\ IsFiniteSet(Files) /\ Pool \in 1..8
  /\ Empty \in Texts /\ None \notin Texts
  /\ MaxEdits \in Nat /\ MaxOpens \in Nat

VARIABLES
  disk,    \* disk[f] = [text, stamp], or None
  clock,   \* the last stamp given
  cache,   \* the documents of the cache file, or None
  pc,      \* what Open does in each process
  paths,   \* files still to be compared (freshness) or to be handed to a worker (scan),
           \* the first of them next
  docs,    \* documents loaded from the cache or collected from the workers
  jobs,    \* the files the workers of the process hold, with the document they make of each
  opens,   \* counter of the bound
  touched  \* history: files changed since the process began to open the dump, or not read by it

vars == <<disk, clock, cache, pc, paths, docs, jobs, opens, touched>>

Doc == [path : Files, text : Texts, stamp : 0..MaxEdits]

Job == [at : {"stat", "read", "send", "left"}, file : Files, doc : Doc \cup {None}]  \* "left" in a mutant only

InitialDisk == [Files -> {[text |-> t, stamp |-> 0] : t \in Texts} \cup {None}]

Init ==
  /\ disk \in InitialDisk /\ clock = 0 /\ cache = None
  /\ pc = [p \in Procs |-> "idle"]
  /\ paths = [p \in Procs |-> {}] /\ docs = [p \in Procs |-> {}]
  /\ jobs = [p \in Procs |-> {}]
  /\ opens = 0 /\ touched = [p \in Procs |-> {}]

\* The process is as it was before it opened the dump.
End(p) ==
  /\ pc' = [pc EXCEPT ![p] = "idle"] /\ docs' = [docs EXCEPT ![p] = {}]
  /\ paths' = [paths EXCEPT ![p] = {}] /\ touched' = [touched EXCEPT ![p] = {}]

-----------------------------------------------------------------------------
(* Open: the cache *)

CollectPaths == {f \in Files : disk[f] # None}

\* The paths are sorted: the file a loop over them comes to next.
First(p, f) == f \in paths[p] /\ \A g \in paths[p] : f <= g

\* Open begins; with -reindex, as `index build` does, the cache is not looked at.
Start(p, reindex) ==
  /\ pc[p] = "idle" /\ opens < MaxOpens /\ opens' = opens + 1
  /\ pc' = [pc EXCEPT ![p] = IF reindex THEN "collect" ELSE "load"]
  /\ UNCHANGED <<disk, clock, cache, paths, docs, jobs, touched>>

\* Mutant: the number of files is not compared.
LoadCacheUncounted(p) ==
  /\ pc[p] = "load"
  /\ IF cache # None
       THEN /\ pc' = [pc EXCEPT ![p] = "fresh"]
            /\ docs' = [docs EXCEPT ![p] = cache]
            /\ paths' = [paths EXCEPT ![p] = {d.path : d \in cache}]
       ELSE pc' = [pc EXCEPT ![p] = "collect"] /\ UNCHANGED <<docs, paths>>
  /\ UNCHANGED <<disk, clock, cache, jobs, opens, touched>>

\* The cache is read and the dump is walked: as many files as documents?
LoadCache(p) ==
  /\ pc[p] = "load"
  /\ IF cache # None /\ Cardinality(cache) = Cardinality(CollectPaths)
       THEN /\ pc' = [pc EXCEPT ![p] = "fresh"]
            /\ docs' = [docs EXCEPT ![p] = cache]
            /\ paths' = [paths EXCEPT ![p] = CollectPaths]
       ELSE pc' = [pc EXCEPT ![p] = "collect"] /\ UNCHANGED <<docs, paths>>
  /\ UNCHANGED <<disk, clock, cache, jobs, opens, touched>>

\* cacheFresh: the next file is compared; after the last one the cache is the index.
Compare(p) ==
  /\ pc[p] = "fresh"
  /\ \/ /\ paths[p] = {}
        /\ pc' = [pc EXCEPT ![p] = "opened"] /\ UNCHANGED paths
     \/ \E f \in Files :
          /\ First(p, f)
          /\ IF disk[f] # None /\ \E d \in docs[p] : d.path = f /\ d.stamp = disk[f].stamp
               THEN paths' = [paths EXCEPT ![p] = @ \ {f}] /\ UNCHANGED pc
               ELSE pc' = [pc EXCEPT ![p] = "collect"] /\ paths' = [paths EXCEPT ![p] = {}]
  /\ UNCHANGED <<disk, clock, cache, docs, jobs, opens, touched>>

\* The cache is of no use: the dump is walked and the pool of goroutines starts.
Collect(p) ==
  /\ pc[p] = "collect"
  /\ pc' = [pc EXCEPT ![p] = "scan"]
  /\ paths' = [paths EXCEPT ![p] = CollectPaths] /\ docs' = [docs EXCEPT ![p] = {}]
  /\ UNCHANGED <<disk, clock, cache, jobs, opens, touched>>

-----------------------------------------------------------------------------
(* Open: the pool *)

\* Mutant: the path is still there for a second worker that waits.
HandTwice(p) ==
  /\ pc[p] = "scan" /\ Cardinality(jobs[p]) < Pool
  /\ \E f \in Files :
       /\ First(p, f)
       /\ jobs' = [jobs EXCEPT ![p] = @ \cup {[at |-> "stat", file |-> f, doc |-> None]}]
       /\ paths' = [paths EXCEPT ![p] = IF Cardinality(jobs[p]) + 1 < Pool THEN @ ELSE @ \ {f}]
  /\ UNCHANGED <<disk, clock, cache, pc, docs, opens, touched>>

\* jobs <- path: the feeder meets a worker that waits for one.
Hand(p) ==
  /\ pc[p] = "scan" /\ Cardinality(jobs[p]) < Pool
  /\ \E f \in Files :
       /\ First(p, f)
       /\ jobs' = [jobs EXCEPT ![p] = @ \cup {[at |-> "stat", file |-> f, doc |-> None]}]
       /\ paths' = [paths EXCEPT ![p] = @ \ {f}]
  /\ UNCHANGED <<disk, clock, cache, pc, docs, opens, touched>>

\* The worker of job j goes on with the jobs in next: none when the file makes no document.
Work(p, j, at, next) ==
  /\ pc[p] = "scan" /\ j \in jobs[p] /\ j.at = at
  /\ jobs' = [jobs EXCEPT ![p] = (@ \ {j}) \cup next]
  /\ UNCHANGED <<disk, clock, cache, pc, paths, opens>>

\* scanDocument: os.Stat; a file that is gone makes no document.
Stat(p, j) ==
  /\ LET file == disk[j.file] IN
     Work(p, j, "stat", IF file = None THEN {}
       ELSE {[at |-> "read", file |-> j.file,
         doc |-> [path |-> j.file, text |-> Empty, stamp |-> file.stamp]]})
  /\ UNCHANGED <<docs, touched>>

\* Mutant: a worker leaves its loop when a file makes no document.
ReadOrLeave(p, j) ==
  /\ LET file == disk[j.file] IN
     Work(p, j, "read", IF file = None \/ (file # None /\ file.text = Empty)
       THEN {[j EXCEPT !.at = "left"]}
       ELSE {[at |-> "send", file |-> j.file, doc |-> [j.doc EXCEPT !.text = file.text]]})
  /\ UNCHANGED <<docs, touched>>

\* scanDocument: the text is read; without terms it makes no document.
Read(p, j) ==
  /\ LET file == disk[j.file] IN
     Work(p, j, "read", IF file = None \/ (file # None /\ file.text = Empty) THEN {}
       ELSE {[at |-> "send", file |-> j.file, doc |-> [j.doc EXCEPT !.text = file.text]]})
  /\ UNCHANGED <<docs, touched>>

\* The file is locked, too large or not readable: it is left out without a word.
ReadFail(p, j) ==
  /\ Work(p, j, "stat", {}) \/ Work(p, j, "read", {})
  /\ touched' = [touched EXCEPT ![p] = @ \cup {j.file}]
  /\ UNCHANGED docs

\* Mutant: the size and the time are taken when the document is complete.
SendStats(p, j) ==
  /\ Work(p, j, "send", {})
  /\ LET stamp == IF disk[j.file] = None THEN clock ELSE disk[j.file].stamp IN
     docs' = [docs EXCEPT ![p] = @ \cup {[j.doc EXCEPT !.stamp = stamp]}]
  /\ UNCHANGED touched

\* results <- value: the worker meets the loop of scanDocuments.
Send(p, j) ==
  /\ Work(p, j, "send", {})
  /\ docs' = [docs EXCEPT ![p] = @ \cup {j.doc}]
  /\ UNCHANGED touched

\* close(jobs) ends the loop of each worker that waits, group.Wait, close(results): the
\* documents are complete.
Scanned(p) ==
  /\ pc[p] = "scan" /\ paths[p] = {} /\ jobs[p] = {}
  /\ pc' = [pc EXCEPT ![p] = "save"]
  /\ UNCHANGED <<disk, clock, cache, paths, docs, jobs, opens, touched>>

\* saveCache: a temporary file renamed onto the cache.
Save(p) ==
  /\ pc[p] = "save"
  /\ cache' = docs[p]
  /\ pc' = [pc EXCEPT ![p] = "opened"]
  /\ UNCHANGED <<disk, clock, paths, docs, jobs, opens, touched>>

\* The walk fails, or the cache cannot be written: Open returns an error.
Fail(p) ==
  /\ pc[p] \in {"collect", "save"} /\ End(p)
  /\ UNCHANGED <<disk, clock, cache, jobs, opens>>

\* The process is killed, or it ends with its index.
Die(p) ==
  /\ pc[p] # "idle" /\ End(p)
  /\ jobs' = [jobs EXCEPT ![p] = {}]
  /\ UNCHANGED <<disk, clock, cache, opens>>

-----------------------------------------------------------------------------
(* The environment: a file is written or removed *)

Touch(f, content) ==
  /\ clock < MaxEdits /\ clock' = clock + 1
  /\ content # None \/ disk[f] # None
  /\ disk' = [disk EXCEPT ![f] = IF content = None THEN None
                                 ELSE [text |-> content, stamp |-> clock']]
  /\ touched' = [p \in Procs |-> IF pc[p] = "idle" THEN {} ELSE touched[p] \cup {f}]
  /\ UNCHANGED <<cache, pc, paths, docs, jobs, opens>>

Opening(p) ==
  \/ LoadCache(p) \/ Compare(p) \/ Collect(p) \/ Scanned(p) \/ Save(p) \/ Fail(p)
  \/ Hand(p) \/ \E j \in jobs[p] : Stat(p, j) \/ Read(p, j) \/ ReadFail(p, j) \/ Send(p, j)

Next ==
  \/ \E p \in Procs :
       \/ \E reindex \in BOOLEAN : Start(p, reindex)
       \/ Opening(p) \/ Die(p)
  \/ \E f \in Files, content \in Texts \cup {None} : Touch(f, content)

Spec == Init /\ [][Next]_vars

\* A goroutine that can go on goes on.
FairSpec == Spec /\ \A p \in Procs : WF_vars(Opening(p))

-----------------------------------------------------------------------------
(* Properties *)

\* Every variable has its type; there is a document at most per file, and workers hold
\* different files.
TypeOK ==
  /\ disk \in [Files -> [text : Texts, stamp : 0..MaxEdits] \cup {None}]
  /\ clock \in 0..MaxEdits /\ opens \in 0..MaxOpens
  /\ pc \in [Procs -> {"idle", "load", "fresh", "collect", "scan", "save", "opened"}]
  /\ cache = None \/ cache \subseteq Doc
  /\ touched \in [Procs -> SUBSET Files]
  /\ \A p \in Procs :
       /\ paths[p] \subseteq Files /\ docs[p] \subseteq Doc
       /\ \A d, e \in docs[p] : d.path = e.path => d = e
       /\ jobs[p] \subseteq Job /\ Cardinality(jobs[p]) <= Pool
       /\ \A j, k \in jobs[p] : j.file = k.file => j = k

\* A document with the size and time the file has now has its text: whenever the file
\* is rewritten while it is indexed, its document is stale to the next cacheFresh.
CacheIsSound ==
  cache # None => \A d \in cache :
    (disk[d.path] # None /\ disk[d.path].stamp = d.stamp) => disk[d.path].text = d.text

\* Taken from the cache or built, by however many goroutines: the index says of every
\* file that could be read and did not change while the dump was being opened just what
\* the file says.
IndexIsCurrent ==
  \A p \in Procs : pc[p] = "opened" => \A f \in Files \ touched[p] :
    {d.text : d \in {e \in docs[p] : e.path = f}} =
      IF disk[f] = None THEN {} ELSE {disk[f].text} \ {Empty}

\* Feeder, workers and collector never wait for each other for good: the server that
\* opens its dump at the start comes up, or ends with an error.
OpenReturns == \A p \in Procs : pc[p] # "idle" ~> pc[p] \in {"idle", "opened"}

=============================================================================
