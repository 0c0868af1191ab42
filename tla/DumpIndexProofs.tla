--------------------------- MODULE DumpIndexProofs ---------------------------
(***************************************************************************)
(* The safety properties of DumpIndex, for any number of processes, files, *)
(* goroutines, changes and openings.  What is to be known of a process is  *)
(* said of the values it holds (ProcInv): that its documents were true of  *)
(* their stamps (Documents), that its workers hold different files and     *)
(* nothing that is handed out or done (Workers), how far the files nobody  *)
(* changed have come (Progress), and what of the cache was compared        *)
(* (Checked).                                                              *)
(***************************************************************************)
EXTENDS DumpIndex, FiniteSetTheorems, TLAPS

States == {"idle", "load", "fresh", "collect", "scan", "save", "opened"}

\* A file as it is on the disk at time k.
Stored(k) == [text : Texts, stamp : 0..k]

DiskInv(D, k) == k \in 0..MaxEdits /\ D \in [Files -> Stored(k) \cup {None}]

\* A document that is true of its stamp.
True(d, D, k) ==
  /\ d \in [path : Files, text : Texts, stamp : 0..k] /\ d.text # Empty
  /\ D[d.path] # None /\ D[d.path].stamp = d.stamp => D[d.path].text = d.text

Documents(ds, D, k) ==
  /\ \A d \in ds : True(d, D, k)
  /\ \A d, e \in ds : d.path = e.path => d = e

\* What a worker holds.
Held(j, D, k) ==
  /\ j \in [at : {"stat", "read", "send"}, file : Files, doc : Doc \cup {None}]
  /\ j.at # "stat" => j.doc \in [path : {j.file}, text : Texts, stamp : 0..k]
  /\ j.at = "send" => True(j.doc, D, k)

Workers(js, P, ds, D, k) ==
  /\ IsFiniteSet(js) /\ Cardinality(js) <= Pool
  /\ \A j \in js : Held(j, D, k)
  /\ \A i, j \in js : i.file = j.file => i = j
  /\ \A j \in js : j.file \notin P /\ \A d \in ds : d.path # j.file
  /\ \A d \in ds : d.path \notin P

\* The documents say of f what the file says.
Says(ds, f, D) ==
  {d.text : d \in {e \in ds : e.path = f}} = IF D[f] = None THEN {} ELSE {D[f].text} \ {Empty}

\* A file nobody changed is to be handed out, with a worker, or done.
Progress(js, P, ds, t, D) ==
  \A f \in Files \ t :
    /\ f \in P => D[f] # None
    /\ \A j \in js : j.file = f => D[f] # None /\ (j.at = "send" => j.doc.text = D[f].text)
    /\ f \notin P /\ (\A j \in js : j.file # f) => Says(ds, f, D)

\* W were the files when they were counted: as many as documents.  Those compared
\* have their document.
Checked(P, ds, t, D) ==
  \E W \in SUBSET Files :
    /\ Cardinality(W) = Cardinality(ds) /\ P \subseteq W
    /\ \A f \in W \ P : \E d \in ds :
         d.path = f /\ (f \notin t => D[f] # None /\ d.stamp = D[f].stamp)
    /\ \A f \in Files \ (W \cup t) : D[f] = None

ProcInv(st, P, ds, js, t, D, k) ==
  /\ Documents(ds, D, k)
  /\ st # "scan" => js = {}
  /\ st = "fresh" => Checked(P, ds, t, D)
  /\ st = "scan" => Workers(js, P, ds, D, k) /\ Progress(js, P, ds, t, D)
  /\ st \in {"save", "opened"} => \A f \in Files \ t : Says(ds, f, D)

Shape ==
  /\ pc \in [Procs -> States] /\ paths \in [Procs -> SUBSET Files]
  /\ touched \in [Procs -> SUBSET Files]
  /\ DOMAIN docs = Procs /\ docs = [p \in Procs |-> docs[p]]
  /\ DOMAIN jobs = Procs /\ jobs = [p \in Procs |-> jobs[p]]
  /\ opens \in 0..MaxOpens

OfProc(p) == ProcInv(pc[p], paths[p], docs[p], jobs[p], touched[p], disk, clock)

IndexInv ==
  /\ Shape /\ DiskInv(disk, clock)
  /\ cache # None => Documents(cache, disk, clock)
  /\ \A p \in Procs : OfProc(p)

-----------------------------------------------------------------------------
(* What the parts of the invariant come to *)

\* As many documents as files, and a document for each of these: no others.
LEMMA Counted ==
  ASSUME NEW D, NEW k, NEW ds, Documents(ds, D, k), NEW W \in SUBSET Files,
         Cardinality(W) = Cardinality(ds), \A f \in W : \E d \in ds : d.path = f
  PROVE  \A d \in ds : d.path \in W
<1> DEFINE I == {d.path : d \in ds}
           g == [d \in ds |-> d.path]
<1>1. I \in SUBSET Files /\ W \in SUBSET I
  BY DEF Documents, True
<1>2. IsFiniteSet(I)
  BY <1>1, FS_Subset, DumpAssumption
<1>3. g \in Injection(ds, I) /\ g \in Surjection(ds, I)
  BY DEF Documents, Injection, Surjection, IsInjective
<1>4. Cardinality(ds) = Cardinality(I)
  <2> HIDE DEF I, g
  <2> QED  BY <1>2, <1>3, FS_Injection
<1>5. I = W
  <2> HIDE DEF I, g
  <2> QED  BY <1>1, <1>2, <1>4, FS_Subset
<1> QED  BY <1>5

\* A document with the stamp of the file says what the file says.
LEMMA SaysIt ==
  ASSUME NEW D, NEW k, NEW ds, Documents(ds, D, k), NEW d \in ds,
         D[d.path] # None, d.text = D[d.path].text
  PROVE  Says(ds, d.path, D)
<1>1. {e \in ds : e.path = d.path} = {d}  BY DEF Documents
<1>2. d.text # Empty  BY DEF Documents, True
<1> QED  BY <1>1, <1>2 DEF Says

\* A cache that passed cacheFresh is current.
LEMMA FreshIsCurrent ==
  ASSUME NEW D, NEW k, NEW ds, Documents(ds, D, k), NEW t, Checked({}, ds, t, D)
  PROVE  \A f \in Files \ t : Says(ds, f, D)
<1>1. PICK W \in SUBSET Files :
        /\ Cardinality(W) = Cardinality(ds)
        /\ \A f \in W : \E d \in ds :
             d.path = f /\ (f \notin t => D[f] # None /\ d.stamp = D[f].stamp)
        /\ \A f \in Files \ (W \cup t) : D[f] = None
  BY DEF Checked
<1>2. \A d \in ds : d.path \in W
  BY <1>1, Counted
<1> TAKE f \in Files \ t
<1>3. CASE f \in W
  <2>1. PICK d \in ds : d.path = f /\ D[f] # None /\ d.stamp = D[f].stamp  BY <1>1, <1>3
  <2>2. d.text = D[f].text  BY <2>1 DEF Documents, True
  <2> QED  BY <2>1, <2>2, SaysIt
<1>4. CASE f \notin W
  <2>1. D[f] = None  BY <1>1, <1>4
  <2>2. {e \in ds : e.path = f} = {}  BY <1>2, <1>4
  <2> QED  BY <2>1, <2>2 DEF Says
<1> QED  BY <1>3, <1>4

\* A new document joins the others.
LEMMA OneMore ==
  ASSUME NEW D, NEW k, NEW ds, Documents(ds, D, k), NEW d, True(d, D, k),
         \A e \in ds : e.path # d.path
  PROVE  Documents(ds \cup {d}, D, k)
BY DEF Documents

-----------------------------------------------------------------------------
(* The pool *)

\* Fewer workers hold fewer files.
LEMMA Fewer ==
  ASSUME NEW D, NEW k, NEW js, NEW P, NEW ds, Workers(js, P, ds, D, k), NEW j \in js
  PROVE  Workers(js \ {j}, P, ds, D, k)
<1>1. IsFiniteSet(js) /\ Cardinality(js) <= Pool
  BY DEF Workers
<1>2. Cardinality(js) \in Nat /\ Pool \in Nat
  BY <1>1, FS_CardinalityType, DumpAssumption
<1>3. IsFiniteSet(js \ {j}) /\ Cardinality(js \ {j}) = Cardinality(js) - 1
  BY <1>1, FS_RemoveElement
<1>4. Cardinality(js \ {j}) <= Pool
  BY <1>1, <1>2, <1>3
<1> QED  BY <1>3, <1>4 DEF Workers

LEMMA HandKeeps ==
  ASSUME NEW D, NEW k, NEW js, NEW P \in SUBSET Files, NEW ds, NEW t, NEW f \in P,
         Workers(js, P, ds, D, k), Progress(js, P, ds, t, D), Cardinality(js) < Pool
  PROVE  LET new == js \cup {[at |-> "stat", file |-> f, doc |-> None]}
         IN  Workers(new, P \ {f}, ds, D, k) /\ Progress(new, P \ {f}, ds, t, D)
<1> DEFINE j == [at |-> "stat", file |-> f, doc |-> None]
           new == js \cup {j}
<1>0. j.at = "stat" /\ j.file = f
  OBVIOUS
<1>1. IsFiniteSet(new) /\ Cardinality(new) <= Pool
  <2> HIDE DEF j
  <2>1. IsFiniteSet(js)
    BY DEF Workers
  <2>2. Cardinality(js) \in Nat /\ Pool \in Nat
    BY <2>1, FS_CardinalityType, DumpAssumption
  <2>3. /\ IsFiniteSet(new)
        /\ Cardinality(new) = IF j \in js THEN Cardinality(js) ELSE Cardinality(js) + 1
    BY <2>1, FS_AddElement
  <2> HIDE DEF new
  <2> QED  BY <2>2, <2>3
<1>2. Held(j, D, k)
  BY DEF Held
<1>3. Workers(new, P \ {f}, ds, D, k)
  <2> HIDE DEF j
  <2> QED  BY <1>0, <1>1, <1>2 DEF Workers
<1>4. Progress(new, P \ {f}, ds, t, D)
  <2> HIDE DEF j
  <2> QED  BY <1>0 DEF Progress
<1> QED  BY <1>3, <1>4

\* A worker goes on with its file.
LEMMA GoOn ==
  ASSUME NEW D, NEW k, NEW js, NEW P, NEW ds, NEW t,
         Workers(js, P, ds, D, k), Progress(js, P, ds, t, D), NEW j \in js,
         NEW i, Held(i, D, k), i.file = j.file,
         i.at = "send" /\ i.file \notin t => i.doc.text = D[i.file].text
  PROVE  LET new == (js \ {j}) \cup {i}
         IN  Workers(new, P, ds, D, k) /\ Progress(new, P, ds, t, D)
<1> DEFINE new == (js \ {j}) \cup {i}
<1>1. IsFiniteSet(new) /\ Cardinality(new) <= Pool
  <2>1. IsFiniteSet(js) /\ Cardinality(js) <= Pool
    BY DEF Workers
  <2>2. Cardinality(js) \in Nat /\ Pool \in Nat
    BY <2>1, FS_CardinalityType, DumpAssumption
  <2>3. IsFiniteSet(js \ {j}) /\ Cardinality(js \ {j}) = Cardinality(js) - 1
    BY <2>1, FS_RemoveElement
  <2>4. IsFiniteSet(new) /\ Cardinality(new) <= Cardinality(js)
    BY <2>2, <2>3, FS_AddElement
  <2>5. Cardinality(new) \in Nat
    BY <2>4, FS_CardinalityType
  <2> HIDE DEF new
  <2> QED  BY <2>1, <2>2, <2>4, <2>5
<1>2. Workers(new, P, ds, D, k)
  BY <1>1 DEF Workers
<1>3. \A f \in Files : (\A l \in new : l.file # f) <=> (\A l \in js : l.file # f)
  OBVIOUS
<1>4. Progress(new, P, ds, t, D)
  BY <1>3 DEF Progress
<1> QED  BY <1>2, <1>4

\* A worker is done with its file, which made no document.
LEMMA GiveUp ==
  ASSUME NEW D, NEW k, NEW js, NEW P, NEW ds, NEW t,
         Workers(js, P, ds, D, k), Progress(js, P, ds, t, D), NEW j \in js,
         (j.file \notin t /\ D[j.file] # None) => D[j.file].text = Empty
  PROVE  Workers(js \ {j}, P, ds, D, k) /\ Progress(js \ {j}, P, ds, t, D)
<1>1. Workers(js \ {j}, P, ds, D, k)  BY Fewer
<1>2. ASSUME NEW f \in Files \ t, f \notin P, \A l \in js \ {j} : l.file # f
      PROVE  Says(ds, f, D)
  <2>1. CASE f # j.file  BY <1>2, <2>1 DEF Progress
  <2>2. CASE f = j.file
    <3>1. {e \in ds : e.path = f} = {}  BY <2>2 DEF Workers
    <3> QED  BY <1>2, <2>2, <3>1 DEF Says
  <2> QED  BY <2>1, <2>2
<1> QED  BY <1>1, <1>2 DEF Progress

\* A worker is done with its document.
LEMMA SendKeeps ==
  ASSUME NEW D, NEW k, NEW js, NEW P, NEW ds, NEW t, Documents(ds, D, k),
         Workers(js, P, ds, D, k), Progress(js, P, ds, t, D), NEW j \in js, j.at = "send"
  PROVE  LET more == ds \cup {j.doc}
         IN  /\ Documents(more, D, k) /\ Workers(js \ {j}, P, more, D, k)
             /\ Progress(js \ {j}, P, more, t, D)
<1> DEFINE more == ds \cup {j.doc}
<1>1. True(j.doc, D, k) /\ j.doc.path = j.file
  BY DEF Workers, Held
<1>2. Documents(more, D, k)
  BY <1>1, OneMore DEF Workers
<1>3. Workers(js \ {j}, P, ds, D, k)  BY Fewer
<1>4. Workers(js \ {j}, P, more, D, k)
  BY <1>1, <1>3 DEF Workers
<1>5. ASSUME NEW f \in Files \ t, f \notin P, \A l \in js \ {j} : l.file # f
      PROVE  Says(more, f, D)
  <2>1. CASE f # j.file
    <3>1. {e \in more : e.path = f} = {e \in ds : e.path = f}  BY <1>1, <2>1
    <3>2. Says(ds, f, D)  BY <1>5, <2>1 DEF Progress
    <3> QED  BY <3>1, <3>2 DEF Says
  <2>2. CASE f = j.file
    <3>1. D[f] # None /\ j.doc.text = D[f].text  BY <2>2, <1>5 DEF Progress
    <3> QED  BY <1>1, <1>2, <2>2, <3>1, SaysIt
  <2> QED  BY <2>1, <2>2
<1>6. Progress(js \ {j}, P, more, t, D)
  BY <1>5 DEF Progress
<1> QED  BY <1>2, <1>4, <1>6

-----------------------------------------------------------------------------
(* A file is written or removed: D is the disk before, E the disk after *)

Written(D, k, f, E) ==
  /\ DiskInv(D, k) /\ DiskInv(E, k + 1) /\ f \in Files
  /\ \A g \in Files \ {f} : E[g] = D[g]
  /\ E[f] # None => E[f].stamp = k + 1

\* The new stamp is nobody's.
LEMMA TrueStays ==
  ASSUME NEW D, NEW k, NEW f, NEW E, Written(D, k, f, E), NEW d, True(d, D, k)
  PROVE  True(d, E, k + 1)
<1>1. k \in Nat  BY DumpAssumption DEF Written, DiskInv
<1>2. d.stamp \in 0..k /\ d.path \in Files  BY DEF True
<1>3. d \in [path : Files, text : Texts, stamp : 0..(k + 1)]
  BY <1>1 DEF True
<1>4. CASE d.path = f
  <2>1. d.stamp # k + 1  BY <1>1, <1>2
  <2> QED  BY <1>3, <1>4, <2>1 DEF Written, True
<1>5. CASE d.path # f
  BY <1>2, <1>3, <1>5 DEF Written, True
<1> QED  BY <1>4, <1>5

LEMMA DocumentsStay ==
  ASSUME NEW D, NEW k, NEW f, NEW E, Written(D, k, f, E), NEW ds, Documents(ds, D, k)
  PROVE  Documents(ds, E, k + 1)
BY TrueStays DEF Documents

LEMMA WorkersStay ==
  ASSUME NEW D, NEW k, NEW f, NEW E, Written(D, k, f, E), NEW js, NEW P, NEW ds,
         Workers(js, P, ds, D, k)
  PROVE  Workers(js, P, ds, E, k + 1)
<1>1. k \in Nat  BY DumpAssumption DEF Written, DiskInv
<1>2. 0..k \subseteq 0..(k + 1)  BY <1>1
<1>3. ASSUME NEW j, Held(j, D, k)  PROVE Held(j, E, k + 1)
  BY <1>2, <1>3, TrueStays DEF Held
<1> QED  BY <1>3 DEF Workers

\* What is said of other files than f stays.
LEMMA ProcStays ==
  ASSUME NEW D, NEW k, NEW f, NEW E, Written(D, k, f, E),
         NEW st, NEW P, NEW ds, NEW js, NEW t, ProcInv(st, P, ds, js, t, D, k)
  PROVE  /\ ProcInv(st, P, ds, js, t \cup {f}, E, k + 1)
         /\ st = "idle" => ProcInv(st, P, ds, js, {}, E, k + 1)
<1>1. Documents(ds, E, k + 1)
  BY DocumentsStay DEF ProcInv
<1>2. ASSUME NEW g \in Files \ (t \cup {f})  PROVE E[g] = D[g] /\ g \in Files \ t
  BY <1>2 DEF Written
<1>3. ASSUME NEW g \in Files \ (t \cup {f}), Says(ds, g, D)  PROVE Says(ds, g, E)
  BY <1>2, <1>3 DEF Says
<1>4. ASSUME Checked(P, ds, t, D)  PROVE Checked(P, ds, t \cup {f}, E)
  <2>1. PICK W \in SUBSET Files :
          /\ Cardinality(W) = Cardinality(ds) /\ P \subseteq W
          /\ \A g \in W \ P : \E d \in ds :
               d.path = g /\ (g \notin t => D[g] # None /\ d.stamp = D[g].stamp)
          /\ \A g \in Files \ (W \cup t) : D[g] = None
    BY <1>4 DEF Checked
  <2>2. \A g \in W \ P : \E d \in ds :
          d.path = g /\ (g \notin t \cup {f} => E[g] # None /\ d.stamp = E[g].stamp)
    BY <1>2, <2>1
  <2>3. \A g \in Files \ (W \cup (t \cup {f})) : E[g] = None
    BY <1>2, <2>1
  <2> QED  BY <2>1, <2>2, <2>3 DEF Checked
<1>5. ASSUME Progress(js, P, ds, t, D)  PROVE Progress(js, P, ds, t \cup {f}, E)
  BY <1>2, <1>3, <1>5 DEF Progress
<1> QED  BY <1>1, <1>2, <1>3, <1>4, <1>5, WorkersStay DEF ProcInv

-----------------------------------------------------------------------------
(* The steps *)

LEMMA IndexInit == Init => IndexInv
<1> SUFFICES ASSUME Init PROVE IndexInv
  OBVIOUS
<1>1. Shape
  BY DumpAssumption DEF Init, Shape, States
<1>2. DiskInv(disk, clock)
  <2>1. 0 \in 0..MaxEdits /\ 0 \in 0..0  BY DumpAssumption
  <2> QED  BY <2>1 DEF Init, InitialDisk, DiskInv, Stored
<1>3. ASSUME NEW p \in Procs  PROVE OfProc(p)
  BY DEF Init, OfProc, ProcInv, Documents
<1> QED  BY <1>1, <1>2, <1>3 DEF Init, IndexInv

\* One process moves, and the disk is as it was.
LEMMA OneMoves ==
  ASSUME IndexInv, Shape', UNCHANGED <<disk, clock>>,
         cache' = cache \/ Documents(cache', disk, clock),
         NEW p \in Procs, OfProc(p)',
         \A q \in Procs \ {p} : /\ pc'[q] = pc[q] /\ paths'[q] = paths[q] /\ docs'[q] = docs[q]
                                /\ jobs'[q] = jobs[q] /\ touched'[q] = touched[q]
  PROVE  IndexInv'
<1>1. \A q \in Procs : OfProc(q)'
  BY DEF IndexInv, OfProc
<1> QED  BY <1>1 DEF IndexInv

\* A step of a worker of p.
LEMMA WorkMoves ==
  ASSUME IndexInv, NEW p \in Procs, NEW j, NEW at, NEW next, Work(p, j, at, next),
         touched' \in [Procs -> SUBSET Files], docs' = [docs EXCEPT ![p] = docs'[p]],
         \A q \in Procs \ {p} : touched'[q] = touched[q],
         Documents(docs'[p], disk, clock),
         Workers((jobs[p] \ {j}) \cup next, paths[p], docs'[p], disk, clock),
         Progress((jobs[p] \ {j}) \cup next, paths[p], docs'[p], touched'[p], disk)
  PROVE  IndexInv'
<1>1. /\ pc[p] = "scan" /\ jobs' = [jobs EXCEPT ![p] = (@ \ {j}) \cup next]
      /\ UNCHANGED <<disk, clock, cache, pc, paths, opens>>
  BY DEF Work
<1>2. Shape'
  BY <1>1 DEF IndexInv, Shape
<1>3. jobs'[p] = (jobs[p] \ {j}) \cup next
  BY <1>1 DEF IndexInv, Shape
<1>4. OfProc(p)'
  BY <1>1, <1>3 DEF OfProc, ProcInv
<1> QED  BY <1>1, <1>2, <1>4, OneMoves DEF IndexInv, Shape

\* What is known of the worker of job j.
LEMMA Worker ==
  ASSUME IndexInv, NEW p \in Procs, NEW j, NEW at, NEW next, Work(p, j, at, next)
  PROVE  /\ j \in jobs[p] /\ j.at = at /\ Held(j, disk, clock) /\ j.file \in Files
         /\ Documents(docs[p], disk, clock) /\ Workers(jobs[p], paths[p], docs[p], disk, clock)
         /\ Progress(jobs[p], paths[p], docs[p], touched[p], disk)
         /\ touched \in [Procs -> SUBSET Files] /\ docs = [docs EXCEPT ![p] = docs[p]]
<1>1. j \in jobs[p] /\ j.at = at /\ pc[p] = "scan"
  BY DEF Work
<1>2. /\ Documents(docs[p], disk, clock) /\ Workers(jobs[p], paths[p], docs[p], disk, clock)
      /\ Progress(jobs[p], paths[p], docs[p], touched[p], disk)
  BY <1>1 DEF IndexInv, OfProc, ProcInv
<1>3. Held(j, disk, clock)
  BY <1>1, <1>2 DEF Workers
<1>4. touched \in [Procs -> SUBSET Files] /\ docs = [docs EXCEPT ![p] = docs[p]]
  BY DEF IndexInv, Shape
<1> QED  BY <1>1, <1>2, <1>3, <1>4 DEF Held

\* Worker j goes on as i, or is done without a document.
LEMMA WorkOn ==
  ASSUME IndexInv, NEW p \in Procs, NEW j, NEW at, NEW i, Work(p, j, at, {i}),
         UNCHANGED <<docs, touched>>, Held(i, disk, clock), i.file = j.file,
         i.at = "send" /\ i.file \notin touched[p] => i.doc.text = disk[i.file].text
  PROVE  IndexInv'
<1>1. /\ Workers((jobs[p] \ {j}) \cup {i}, paths[p], docs[p], disk, clock)
      /\ Progress((jobs[p] \ {j}) \cup {i}, paths[p], docs[p], touched[p], disk)
  BY Worker, GoOn
<1> QED  BY <1>1, Worker, WorkMoves

LEMMA WorkEnds ==
  ASSUME IndexInv, NEW p \in Procs, NEW j, NEW at, Work(p, j, at, {}), UNCHANGED docs,
         \/ UNCHANGED touched /\ (disk[j.file] # None => disk[j.file].text = Empty)
         \/ touched' = [touched EXCEPT ![p] = @ \cup {j.file}]
  PROVE  IndexInv'
<1>1. /\ touched' \in [Procs -> SUBSET Files] /\ touched[p] \subseteq touched'[p]
      /\ \A q \in Procs \ {p} : touched'[q] = touched[q]
      /\ (j.file \notin touched'[p] /\ disk[j.file] # None) => disk[j.file].text = Empty
  BY Worker
<1>2. Progress(jobs[p], paths[p], docs[p], touched'[p], disk)
  BY <1>1, Worker DEF Progress
<1>3. /\ Workers(jobs[p] \ {j}, paths[p], docs[p], disk, clock)
      /\ Progress(jobs[p] \ {j}, paths[p], docs[p], touched'[p], disk)
  BY <1>1, <1>2, Worker, GiveUp
<1>4. (jobs[p] \ {j}) \cup {} = jobs[p] \ {j}
  OBVIOUS
<1> QED  BY <1>1, <1>3, <1>4, Worker, WorkMoves

LEMMA WorkSteps ==
  ASSUME IndexInv, NEW p \in Procs, NEW j \in jobs[p],
         Stat(p, j) \/ Read(p, j) \/ ReadFail(p, j) \/ Send(p, j)
  PROVE  IndexInv'
<1>1. CASE Stat(p, j)
  <2>1. CASE disk[j.file] = None
    BY <1>1, <2>1, WorkEnds DEF Stat
  <2>2. CASE disk[j.file] # None
    <3> DEFINE doc == [path |-> j.file, text |-> Empty, stamp |-> disk[j.file].stamp]
               i == [at |-> "read", file |-> j.file, doc |-> doc]
    <3>1. Work(p, j, "stat", {i})
      BY <1>1, <2>2 DEF Stat
    <3>2. Held(j, disk, clock) /\ j.file \in Files  BY <3>1, Worker
    <3>3. doc \in [path : {j.file}, text : Texts, stamp : 0..clock]
      BY <3>2, <2>2, DumpAssumption DEF IndexInv, DiskInv, Stored
    <3>4. 0..clock \subseteq 0..MaxEdits
      BY DumpAssumption DEF IndexInv, DiskInv
    <3>5. doc \in Doc
      BY <3>2, <3>3, <3>4 DEF Doc
    <3>6. i.at = "read" /\ i.file = j.file /\ i = [at |-> "read", file |-> j.file, doc |-> doc]
      OBVIOUS
    <3>7. Held(i, disk, clock) /\ i.file = j.file /\ i.at # "send"
      <4> HIDE DEF doc, i
      <4> QED  BY <3>2, <3>3, <3>5, <3>6 DEF Held
    <3> QED  BY <1>1, <3>1, <3>7, WorkOn DEF Stat
  <2> QED  BY <2>1, <2>2
<1>2. CASE Read(p, j)
  <2>1. CASE disk[j.file] = None \/ disk[j.file].text = Empty
    BY <1>2, <2>1, WorkEnds DEF Read
  <2>2. CASE disk[j.file] # None /\ disk[j.file].text # Empty
    <3> DEFINE i == [at |-> "send", file |-> j.file, doc |-> [j.doc EXCEPT !.text = disk[j.file].text]]
               doc == [path |-> j.file, text |-> disk[j.file].text, stamp |-> j.doc.stamp]
    <3>1. Work(p, j, "read", {i})
      BY <1>2, <2>2 DEF Read
    <3>2. Held(j, disk, clock) /\ j.file \in Files /\ j.at = "read"  BY <3>1, Worker
    <3>3. j.doc \in [path : {j.file}, text : Texts, stamp : 0..clock]
      BY <3>2 DEF Held
    <3>4. disk[j.file].text \in Texts
      BY <3>2, <2>2 DEF IndexInv, DiskInv, Stored
    <3>5. doc \in [path : {j.file}, text : Texts, stamp : 0..clock]
      BY <3>3, <3>4
    <3>6. 0..clock \subseteq 0..MaxEdits
      BY DumpAssumption DEF IndexInv, DiskInv
    <3>7. doc \in Doc
      BY <3>2, <3>5, <3>6 DEF Doc
    <3>8. [j.doc EXCEPT !.text = disk[j.file].text] = doc
      BY <3>3
    <3>9. i = [at |-> "send", file |-> j.file, doc |-> doc]
      BY <3>8
    <3>10. True(doc, disk, clock)
      BY <2>2, <3>2, <3>5 DEF True
    <3>11. Held(i, disk, clock) /\ i.file = j.file /\ i.doc.text = disk[i.file].text
      <4>1. doc.text = disk[j.file].text  OBVIOUS
      <4> HIDE DEF doc, i
      <4> QED  BY <3>2, <3>5, <3>7, <3>9, <3>10, <4>1 DEF Held
    <3> QED  BY <1>2, <3>1, <3>11, WorkOn DEF Read
  <2> QED  BY <2>1, <2>2
<1>3. CASE ReadFail(p, j)
  BY <1>3, WorkEnds DEF ReadFail
<1>4. CASE Send(p, j)
  <2>1. Work(p, j, "send", {}) /\ docs' = [docs EXCEPT ![p] = @ \cup {j.doc}] /\ UNCHANGED touched
    BY <1>4 DEF Send
  <2>2. docs'[p] = docs[p] \cup {j.doc} /\ docs' = [docs EXCEPT ![p] = docs'[p]]
    BY <2>1 DEF IndexInv, Shape
  <2>3. /\ Documents(docs'[p], disk, clock)
        /\ Workers(jobs[p] \ {j}, paths[p], docs'[p], disk, clock)
        /\ Progress(jobs[p] \ {j}, paths[p], docs'[p], touched[p], disk)
    BY <2>1, <2>2, Worker, SendKeeps
  <2>4. (jobs[p] \ {j}) \cup {} = jobs[p] \ {j}
    OBVIOUS
  <2> QED  BY <2>1, <2>2, <2>3, <2>4, Worker, WorkMoves
<1> QED  BY <1>1, <1>2, <1>3, <1>4

LEMMA IndexStep == IndexInv /\ [Next]_vars => IndexInv'
<1> SUFFICES ASSUME IndexInv, [Next]_vars PROVE IndexInv'
  OBVIOUS
<1> USE DEF Shape
<1>1. ASSUME NEW p \in Procs, NEW reindex \in BOOLEAN, Start(p, reindex)  PROVE IndexInv'
  <2>1. Shape'
    BY <1>1, DumpAssumption DEF Start, IndexInv, States
  <2>2. OfProc(p)'
    BY <1>1 DEF Start, IndexInv, OfProc, ProcInv
  <2> QED  BY <1>1, <2>1, <2>2, OneMoves DEF Start, IndexInv
<1>2. ASSUME NEW p \in Procs, LoadCache(p)  PROVE IndexInv'
  <2>1. Shape'
    BY <1>2 DEF LoadCache, IndexInv, States, CollectPaths
  <2>2. OfProc(p)'
    <3>1. CASE cache # None /\ Cardinality(cache) = Cardinality(CollectPaths)
      <4>1. pc'[p] = "fresh" /\ docs'[p] = cache /\ paths'[p] = CollectPaths /\ jobs'[p] = jobs[p]
            /\ touched'[p] = touched[p] /\ UNCHANGED <<disk, clock>> /\ pc[p] = "load"
        BY <1>2, <3>1 DEF LoadCache, IndexInv
      <4>2. Documents(cache, disk, clock)  BY <3>1 DEF IndexInv
      <4>3. Checked(CollectPaths, cache, touched[p], disk)
        BY <3>1 DEF Checked, CollectPaths
      <4>4. jobs[p] = {}  BY <4>1 DEF IndexInv, OfProc, ProcInv
      <4> QED  BY <4>1, <4>2, <4>3, <4>4 DEF OfProc, ProcInv
    <3>2. CASE ~(cache # None /\ Cardinality(cache) = Cardinality(CollectPaths))
      <4>1. pc'[p] = "collect" /\ pc[p] = "load" /\ UNCHANGED <<disk, clock, docs, paths, jobs, touched>>
        BY <1>2, <3>2 DEF LoadCache, IndexInv
      <4> QED  BY <4>1 DEF IndexInv, OfProc, ProcInv
    <3> QED  BY <3>1, <3>2
  <2> QED  BY <1>2, <2>1, <2>2, OneMoves DEF LoadCache, IndexInv
<1>3. ASSUME NEW p \in Procs, Compare(p)  PROVE IndexInv'
  <2>0. pc[p] = "fresh" /\ Checked(paths[p], docs[p], touched[p], disk) /\ jobs[p] = {}
        /\ Documents(docs[p], disk, clock)
        /\ UNCHANGED <<disk, clock, cache, docs, jobs, opens, touched>>
    BY <1>3 DEF Compare, IndexInv, OfProc, ProcInv
  <2>1. CASE paths[p] = {} /\ pc' = [pc EXCEPT ![p] = "opened"] /\ UNCHANGED paths
    <3>1. Shape'
      BY <2>0, <2>1 DEF IndexInv, States
    <3>2. \A f \in Files \ touched[p] : Says(docs[p], f, disk)
      BY <2>0, <2>1, FreshIsCurrent
    <3>3. pc'[p] = "opened"
      BY <2>1 DEF IndexInv
    <3>4. OfProc(p)'
      BY <2>0, <3>2, <3>3 DEF OfProc, ProcInv
    <3> QED  BY <2>0, <2>1, <3>1, <3>4, OneMoves DEF IndexInv
  <2>2. ASSUME NEW f \in paths[p], NEW d \in docs[p], d.path = f, d.stamp = disk[f].stamp,
               disk[f] # None, paths' = [paths EXCEPT ![p] = @ \ {f}], UNCHANGED pc
        PROVE  IndexInv'
    <3>1. Shape'
      BY <2>0, <2>2 DEF IndexInv
    <3>2. Checked(paths[p] \ {f}, docs[p], touched[p], disk)
      <4>1. PICK W \in SUBSET Files :
              /\ Cardinality(W) = Cardinality(docs[p]) /\ paths[p] \subseteq W
              /\ \A g \in W \ paths[p] : \E e \in docs[p] :
                   e.path = g /\ (g \notin touched[p] => disk[g] # None /\ e.stamp = disk[g].stamp)
              /\ \A g \in Files \ (W \cup touched[p]) : disk[g] = None
        BY <2>0 DEF Checked
      <4>2. \A g \in W \ (paths[p] \ {f}) : \E e \in docs[p] :
              e.path = g /\ (g \notin touched[p] => disk[g] # None /\ e.stamp = disk[g].stamp)
        BY <2>2, <4>1
      <4> QED  BY <4>1, <4>2 DEF Checked
    <3>3. paths'[p] = paths[p] \ {f} /\ pc'[p] = "fresh"
      BY <2>0, <2>2 DEF IndexInv
    <3>4. OfProc(p)'
      BY <2>0, <3>2, <3>3 DEF OfProc, ProcInv
    <3> QED  BY <2>0, <2>2, <3>1, <3>4, OneMoves DEF IndexInv
  <2>3. CASE pc' = [pc EXCEPT ![p] = "collect"] /\ paths' = [paths EXCEPT ![p] = {}]
    <3>1. Shape'
      BY <2>0, <2>3 DEF IndexInv, States
    <3>2. pc'[p] = "collect"
      BY <2>3 DEF IndexInv
    <3>3. OfProc(p)'
      BY <2>0, <3>2 DEF OfProc, ProcInv
    <3> QED  BY <2>0, <2>3, <3>1, <3>3, OneMoves DEF IndexInv
  <2> QED  BY <1>3, <2>1, <2>2, <2>3 DEF Compare, First
<1>4. ASSUME NEW p \in Procs, Collect(p)  PROVE IndexInv'
  <2>1. Shape'
    BY <1>4 DEF Collect, IndexInv, States, CollectPaths
  <2>2. /\ pc[p] = "collect" /\ pc'[p] = "scan" /\ docs'[p] = {} /\ paths'[p] = CollectPaths
        /\ jobs'[p] = {} /\ UNCHANGED <<disk, clock, cache>>
    BY <1>4 DEF Collect, IndexInv, OfProc, ProcInv
  <2>3. Workers({}, CollectPaths, {}, disk, clock)
    BY FS_EmptySet, DumpAssumption DEF Workers
  <2>4. Progress({}, CollectPaths, {}, touched'[p], disk)
    BY DEF Progress, Says, CollectPaths
  <2>5. OfProc(p)'
    BY <2>2, <2>3, <2>4 DEF OfProc, ProcInv, Documents
  <2> QED  BY <1>4, <2>1, <2>5, OneMoves DEF Collect, IndexInv
<1>5. ASSUME NEW p \in Procs, Hand(p)  PROVE IndexInv'
  <2>0. PICK f \in paths[p] :
          /\ jobs' = [jobs EXCEPT ![p] = @ \cup {[at |-> "stat", file |-> f, doc |-> None]}]
          /\ paths' = [paths EXCEPT ![p] = @ \ {f}]
    BY <1>5 DEF Hand, First
  <2>1. Shape'
    BY <1>5, <2>0 DEF Hand, IndexInv
  <2>2. /\ Workers(jobs[p], paths[p], docs[p], disk, clock) /\ Documents(docs[p], disk, clock)
        /\ Progress(jobs[p], paths[p], docs[p], touched[p], disk)
        /\ paths[p] \in SUBSET Files /\ Cardinality(jobs[p]) < Pool /\ pc[p] = "scan"
    BY <1>5 DEF Hand, IndexInv, OfProc, ProcInv
  <2>3. /\ jobs'[p] = jobs[p] \cup {[at |-> "stat", file |-> f, doc |-> None]}
        /\ paths'[p] = paths[p] \ {f} /\ pc'[p] = "scan"
        /\ UNCHANGED <<disk, clock, docs, touched, cache>>
    BY <1>5, <2>0 DEF Hand, IndexInv
  <2>4. /\ Workers(jobs'[p], paths'[p], docs[p], disk, clock)
        /\ Progress(jobs'[p], paths'[p], docs[p], touched[p], disk)
    BY <2>2, <2>3, HandKeeps
  <2>5. OfProc(p)'
    BY <2>2, <2>3, <2>4 DEF OfProc, ProcInv
  <2> QED  BY <1>5, <2>0, <2>1, <2>5, OneMoves DEF Hand, IndexInv
<1>6. ASSUME NEW p \in Procs, NEW j \in jobs[p], Stat(p, j) \/ Read(p, j) \/ ReadFail(p, j) \/ Send(p, j)
      PROVE  IndexInv'
  BY <1>6, WorkSteps
<1>7. ASSUME NEW p \in Procs, Scanned(p)  PROVE IndexInv'
  <2>1. Shape'
    BY <1>7 DEF Scanned, IndexInv, States
  <2>2. /\ paths[p] = {} /\ jobs[p] = {} /\ pc'[p] = "save"
        /\ UNCHANGED <<disk, clock, docs, jobs, paths, touched, cache>>
        /\ Documents(docs[p], disk, clock) /\ Progress({}, {}, docs[p], touched[p], disk)
    BY <1>7 DEF Scanned, IndexInv, OfProc, ProcInv
  <2>3. \A f \in Files \ touched[p] : Says(docs[p], f, disk)
    BY <2>2 DEF Progress
  <2>4. OfProc(p)'
    BY <2>2, <2>3 DEF OfProc, ProcInv
  <2> QED  BY <1>7, <2>1, <2>4, OneMoves DEF Scanned, IndexInv
<1>8. ASSUME NEW p \in Procs, Save(p)  PROVE IndexInv'
  <2>1. Shape'
    BY <1>8 DEF Save, IndexInv, States
  <2>2. pc[p] = "save" /\ pc'[p] = "opened" /\ cache' = docs[p]
        /\ UNCHANGED <<disk, clock, docs, jobs, paths, touched>>
    BY <1>8 DEF Save, IndexInv
  <2>3. OfProc(p)' /\ Documents(cache', disk, clock)
    BY <2>2 DEF IndexInv, OfProc, ProcInv
  <2> QED  BY <1>8, <2>1, <2>3, OneMoves DEF Save, IndexInv
<1>9. ASSUME NEW p \in Procs, Fail(p) \/ Die(p)  PROVE IndexInv'
  <2>1. /\ pc' = [pc EXCEPT ![p] = "idle"] /\ docs' = [docs EXCEPT ![p] = {}]
        /\ paths' = [paths EXCEPT ![p] = {}] /\ touched' = [touched EXCEPT ![p] = {}]
        /\ jobs' = [jobs EXCEPT ![p] = {}] \/ (jobs' = jobs /\ pc[p] # "scan")
        /\ UNCHANGED <<disk, clock, cache, opens>>
    BY <1>9 DEF Fail, Die, End
  <2>2. Shape'
    BY <2>1 DEF IndexInv, States
  <2>3. pc'[p] = "idle" /\ docs'[p] = {} /\ jobs'[p] = {}
    BY <2>1 DEF IndexInv, OfProc, ProcInv
  <2>4. OfProc(p)'
    BY <2>3 DEF OfProc, ProcInv, Documents
  <2> QED  BY <2>1, <2>2, <2>4, OneMoves DEF IndexInv
<1>10. ASSUME NEW f \in Files, NEW content \in Texts \cup {None}, Touch(f, content)  PROVE IndexInv'
  <2>1. Shape'
    BY <1>10 DEF Touch, IndexInv
  <2>2. clock \in Nat /\ clock' = clock + 1 /\ clock' \in 0..MaxEdits
    BY <1>10, DumpAssumption DEF Touch, IndexInv, DiskInv
  <2>3. Stored(clock) \subseteq Stored(clock')
    BY <2>2 DEF Stored
  <2>4. content # None => [text |-> content, stamp |-> clock'] \in Stored(clock')
    BY <2>2 DEF Stored
  <2>5. DiskInv(disk', clock')
    BY <1>10, <2>2, <2>3, <2>4 DEF Touch, IndexInv, DiskInv
  <2>6. \A g \in Files \ {f} : disk'[g] = disk[g]
    BY <1>10 DEF Touch, IndexInv, DiskInv
  <2>7. disk'[f] # None => disk'[f].stamp = clock'
    BY <1>10 DEF Touch, IndexInv, DiskInv
  <2>8. Written(disk, clock, f, disk')
    BY <2>2, <2>5, <2>6, <2>7 DEF Written, IndexInv
  <2>9. cache' # None => Documents(cache', disk', clock')
    BY <1>10, <2>2, <2>8, DocumentsStay DEF Touch, IndexInv
  <2>10. ASSUME NEW p \in Procs  PROVE OfProc(p)'
    <3>1. ProcInv(pc[p], paths[p], docs[p], jobs[p], touched[p], disk, clock)
      BY DEF IndexInv, OfProc
    <3>2. touched'[p] = IF pc[p] = "idle" THEN {} ELSE touched[p] \cup {f}
      BY <1>10 DEF Touch
    <3>3. ProcInv(pc[p], paths[p], docs[p], jobs[p], touched'[p], disk', clock + 1)
      BY <2>8, <3>1, <3>2, ProcStays
    <3> QED  BY <1>10, <2>2, <3>3 DEF Touch, OfProc
  <2> QED  BY <2>1, <2>5, <2>9, <2>10 DEF IndexInv
<1>11. CASE UNCHANGED vars
  BY <1>11 DEF vars, IndexInv, OfProc
<1> QED  BY <1>1, <1>2, <1>3, <1>4, <1>5, <1>6, <1>7, <1>8, <1>9, <1>10, <1>11 DEF Next, Opening

LEMMA IndexInvHolds == Spec => []IndexInv
BY IndexInit, IndexStep, PTL DEF Spec

-----------------------------------------------------------------------------
\* Every variable has its type; there is a document at most per file, and workers hold
\* different files.
THEOREM IndexTypes == Spec => []TypeOK
<1>1. ASSUME IndexInv  PROVE TypeOK
  <2>1. clock \in 0..MaxEdits /\ 0..clock \subseteq 0..MaxEdits
    BY <1>1, DumpAssumption DEF IndexInv, DiskInv
  <2>2. disk \in [Files -> [text : Texts, stamp : 0..MaxEdits] \cup {None}]
    BY <1>1, <2>1 DEF IndexInv, DiskInv, Stored
  <2>3. ASSUME NEW ds, Documents(ds, disk, clock)  PROVE ds \subseteq Doc
    BY <2>1, <2>3 DEF Documents, True, Doc
  <2>4. ASSUME NEW p \in Procs
        PROVE  /\ paths[p] \subseteq Files /\ docs[p] \subseteq Doc
               /\ \A d, e \in docs[p] : d.path = e.path => d = e
    BY <1>1, <2>3 DEF IndexInv, Shape, OfProc, ProcInv, Documents
  <2>5. ASSUME NEW p \in Procs
        PROVE  /\ jobs[p] \subseteq Job /\ Cardinality(jobs[p]) <= Pool
               /\ \A j, k \in jobs[p] : j.file = k.file => j = k
    <3>1. CASE jobs[p] = {}
      BY <3>1, FS_EmptySet, DumpAssumption
    <3>2. CASE Workers(jobs[p], paths[p], docs[p], disk, clock)
      BY <3>2 DEF Workers, Held, Job
    <3> QED  BY <1>1, <3>1, <3>2 DEF IndexInv, OfProc, ProcInv
  <2> QED  BY <1>1, <2>1, <2>2, <2>3, <2>4, <2>5 DEF TypeOK, IndexInv, Shape, States
<1> QED  BY <1>1, IndexInvHolds, PTL

\* No document in the cache has the stamp of a file and another text.
THEOREM CacheTheorem == Spec => []CacheIsSound
<1>1. IndexInv => CacheIsSound
  BY DEF IndexInv, CacheIsSound, Documents, True
<1> QED  BY <1>1, IndexInvHolds, PTL

\* Whichever way the index came about, it says of the files nobody changed meanwhile,
\* and that could be read, what they say.
THEOREM CurrentTheorem == Spec => []IndexIsCurrent
<1>1. IndexInv => IndexIsCurrent
  BY DEF IndexInv, IndexIsCurrent, OfProc, ProcInv, Says
<1> QED  BY <1>1, IndexInvHolds, PTL
=============================================================================
