------------------------------ MODULE SetupProofs ------------------------------
(***************************************************************************)
(* What setup does: the installer of the extension (InstallExtension), and *)
(* the profile and its servers in config.toml (Profiles).                  *)
(*                                                                         *)
(* InstallExtension, for any set of platforms and any number of installs.  *)
(* The cascade of remedies never looks back, so what has to be known is    *)
(* that no complaint outlives its turn (Past), and that a turn is only     *)
(* taken for cause (Caused).                                               *)
(*                                                                         *)
(* Profiles, for any ids, commands, edits and text of config.toml to begin *)
(* with.  Every block stays whole (WellFormed), so taking one out moves    *)
(* the other lines and changes none (SameByMap, RemoveKeeps) and leaves no *)
(* marker of its own behind (RemoveDeregisters).  WholeInv carries this    *)
(* over to what a command is about to write, ServedInv and ModeInv say     *)
(* that this is registered, while one command is at work, only with a      *)
(* profile, of a mode it asks for.                                         *)
(***************************************************************************)
EXTENDS InstallExtension, Profiles, FiniteSetTheorems, SequenceTheorems, WellFoundedInduction, TLAPS

-----------------------------------------------------------------------------
(*                             InstallExtension                            *)

Steps == {"idle", "load", "judge", "delete", "update", "reload", "update again", "done", "failed"}

-----------------------------------------------------------------------------
(* The invariant *)

\* The complaints of a load, each by itself.
Old == OlderThan(base.platform, <<3, 15>>)

ModernFits == ~(src.modern /\ Old)
RunModeFits == ~(src.runMode /\ ~base.managed)
CompatFits == ~(src.compat > base.compat)
InheritedFits == ~(src.inherited /\ base.inherited = "load")
ExistsFits == loaded = None \/ base.overwrites

\* What was complained of before a turn is over is not complained of after it, or was
\* not named when the turn came.
Past ==
  /\ stage > 1 => ExistsFits \/ "exists" \in missed
  /\ stage > 2 => ModernFits \/ "modern" \in missed
  /\ stage > 3 => RunModeFits \/ "runMode" \in missed
  /\ stage > 5 => CompatFits \/ "compat" \in missed
  /\ stage > 6 => InheritedFits \/ "inherited" \in missed

\* The last resort comes after the compatibility mode was lowered once.
Halfway == stage = 5 => src.compat = 10

\* The base takes the sources, but maybe not over what there is.
Fits == ModernFits /\ RunModeFits /\ CompatFits /\ InheritedFits

\* The sources have less than the embedded ones only for a cause.
Caused ==
  ~OlderThan(base.platform, <<3, 14>>) =>
    /\ ~src.modern => Old
    /\ ~src.runMode => ~base.managed \/ base.inherited # "never"
    /\ src.compat = 0 => base.compat = 0
    /\ src.compat = 10 => base.compat # 14
    /\ ~src.inherited => base.inherited # "never"

Told == ~src.inherited => noted \/ stage > 6

\* Nothing was loaded into a base without extensions; otherwise the sources were.
Loaded == loaded = IF base.extensions THEN src ELSE None

Types ==
  /\ base \in Base /\ src \in Source \cup {None}
  /\ loaded \in Source \cup {None} /\ applied \in Source \cup {None}
  /\ pc \in Steps /\ err \subseteq Topics /\ stage \in 1..7
  /\ Running => src \in Source
  /\ noted \in BOOLEAN /\ disturbed \in BOOLEAN /\ missed \subseteq Topics /\ installs \in 0..MaxInstalls

Given ==
  /\ known \in [exe : {None, base.platform}, given : {None, base.platform}]
  /\ ~base.extensions => loaded = None

Cascade ==
  /\ Running => Reads(base.platform, src.format) /\ Caused
  /\ pc = "load" => Past /\ Halfway /\ Told
  /\ pc = "delete" => stage = 2 /\ Told
  /\ pc = "judge" => Past /\ Halfway /\ Told /\ LoadComplaints # {} /\ err \subseteq LoadComplaints
  /\ pc = "update" => Fits /\ Loaded /\ (~src.inherited => noted)
  /\ pc = "reload" => Fits /\ ~src.inherited /\ loaded # None /\ loaded.inherited /\ base.inherited = "update"
  /\ pc = "update again" => loaded = src /\ ~src.inherited

\* A complaint stands that was not named when its remedy had its turn.
Unnamed == (LoadComplaints \cup UpdateComplaints) \cap missed # {}

Ended ==
  /\ pc = "failed" /\ ~disturbed /\ base.extensions => TooOld \/ InItsOwnWay \/ Unnamed
  /\ pc = "done" => src \in Source /\ applied = src /\ Caused /\ (~src.inherited => noted)

InstallInv == Types /\ Given /\ Cascade /\ Ended

-----------------------------------------------------------------------------
(* Versions *)

LEMMA TableType ==
  /\ DOMAIN PlatformFormatVersions = 1..14
  /\ \A i \in 1..14 : PlatformFormatVersions[i][1] \in Nat /\ PlatformFormatVersions[i][2] \in 70..210
BY DEF PlatformFormatVersions

LEMMA FirstApplies ==
  ASSUME NEW version, Applying(version) # {}
  PROVE  First(version) \in Applying(version)
<1>1. ASSUME NEW S \in SUBSET (1..14), S # {}  PROVE \E i \in S : \A j \in S : i <= j
  <2>1. S \subseteq Nat
    BY <1>1
  <2>2. PICK i \in S : \A j \in S : <<j, i>> \notin OpToRel(<, Nat)
    BY <1>1, <2>1, NatLessThanWellFounded, WFMin, Zenon
  <2>3. ASSUME NEW j \in S  PROVE ~(j < i)
    BY <2>1, <2>2 DEF OpToRel
  <2> QED  BY <2>1, <2>3
<1>2. Applying(version) \in SUBSET (1..14)
  BY TableType DEF Applying
<1>3. \E i \in Applying(version) : \A j \in Applying(version) : i <= j
  BY <1>1, <1>2
<1> QED  BY <1>3 DEF First

\* The format written is one the platform reads.
LEMMA FormatFits ==
  ASSUME NEW version \in Nat \X Nat, NEW known_ \in {version, None}
  PROVE  /\ FormatVersionForPlatform(known_) \in 70..210
         /\ Reads(version, FormatVersionForPlatform(known_))
<1>1. version # None
  BY InstallAssumption
<1>2. CASE known_ = None
  BY <1>2 DEF FormatVersionForPlatform, Reads
<1>3. CASE known_ = version /\ version[1] >= 5
  <2>1. ~OlderThan(version, <<5, 0>>)
    BY <1>3 DEF OlderThan
  <2> QED  BY <1>1, <1>3, <2>1 DEF FormatVersionForPlatform, Reads
<1>4. CASE known_ = version /\ ~(version[1] >= 5) /\ Applying(version) = {}
  BY <1>1, <1>4 DEF FormatVersionForPlatform, Reads
<1>5. CASE known_ = version /\ ~(version[1] >= 5) /\ Applying(version) # {}
  <2> DEFINE i == First(version)
  <2>1. i \in 1..14 /\ version[1] = 3 /\ version[2] >= PlatformFormatVersions[i][1]
    BY <1>5, FirstApplies, TableType DEF Applying
  <2>2. FormatVersionForPlatform(known_) = PlatformFormatVersions[i][2]
    BY <1>1, <1>5 DEF FormatVersionForPlatform
  <2> HIDE DEF i
  <2>3. PlatformFormatVersions[i][2] \in 70..210 /\ PlatformFormatVersions[i][1] \in Nat
    BY <2>1, TableType
  <2>4. ~OlderThan(version, <<3, PlatformFormatVersions[i][1]>>)
    BY <2>1, <2>3 DEF OlderThan
  <2>5. i \in DOMAIN PlatformFormatVersions /\ PlatformFormatVersions[i][2] <= PlatformFormatVersions[i][2]
    BY <2>1, <2>3, TableType
  <2>6. Reads(version, PlatformFormatVersions[i][2])
    BY <2>4, <2>5 DEF Reads
  <2> QED  BY <2>2, <2>3, <2>6
<1> QED  BY <1>2, <1>3, <1>4, <1>5

-----------------------------------------------------------------------------
(* The log and the cascade *)

\* What a load is complained of.
LEMMA Complaints ==
  ASSUME Types, src \in Source, Reads(base.platform, src.format)
  PROVE  /\ LoadComplaints \in SUBSET Topics /\ "other" \notin LoadComplaints /\ "missing" \notin LoadComplaints
         /\ "exists" \in LoadComplaints <=> ~ExistsFits
         /\ "modern" \in LoadComplaints <=> ~ModernFits
         /\ "runMode" \in LoadComplaints <=> ~RunModeFits
         /\ "compat" \in LoadComplaints <=> ~CompatFits
         /\ "inherited" \in LoadComplaints <=> ~InheritedFits
         /\ LoadComplaints = {} <=> ExistsFits /\ Fits
<1>1. /\ LoadComplaints \in SUBSET Topics /\ "other" \notin LoadComplaints /\ "missing" \notin LoadComplaints
      /\ "exists" \in LoadComplaints <=> ~ExistsFits
      /\ "modern" \in LoadComplaints <=> ~ModernFits
      /\ "runMode" \in LoadComplaints <=> ~RunModeFits
      /\ "compat" \in LoadComplaints <=> ~CompatFits
      /\ "inherited" \in LoadComplaints <=> ~InheritedFits
  BY DEF LoadComplaints, Topics, ExistsFits, ModernFits, RunModeFits, CompatFits, InheritedFits, Old
<1>2. \A t \in LoadComplaints : t \in {"exists", "modern", "runMode", "compat", "inherited"}
  BY <1>1 DEF Topics
<1> QED  BY <1>1, <1>2 DEF Fits

\* The remedies by their turn.
LEMMA Turns ==
  /\ Len(Remedies) = 6 /\ Topic(Remedies[1]) = "exists" /\ Topic(Remedies[2]) = "modern"
  /\ Topic(Remedies[3]) = "runMode" /\ Topic(Remedies[4]) = "compat" /\ Topic(Remedies[5]) = "compat"
  /\ Topic(Remedies[6]) = "inherited"
  /\ Remedies[1] = "exists" /\ Remedies[2] = "modern" /\ Remedies[3] = "runMode" /\ Remedies[4] = "compat10"
  /\ Remedies[5] = "compat0" /\ Remedies[6] = "inherited"
BY DEF Remedies, Topic

\* Sources without inherited properties.
LEMMA Stripped ==
  ASSUME NEW s \in Source
  PROVE  /\ StripInherited(s) \in Source /\ StripInherited(s).format = s.format
         /\ StripInherited(s).modern = s.modern /\ StripInherited(s).compat = s.compat
         /\ ~StripInherited(s).runMode /\ ~StripInherited(s).inherited
BY DEF StripInherited, Source

-----------------------------------------------------------------------------
(* The steps *)

LEMMA InstallInit == Init => InstallInv
<1> SUFFICES ASSUME Init PROVE InstallInv
  OBVIOUS
<1>1. loaded \in {None, Foreign} /\ Foreign \in Source /\ (~base.extensions => loaded = None)
  BY DEF Init, Foreign, Source
<1>2. pc = "idle" /\ ~Running
  BY DEF Init, Running
<1>3. /\ base \in Base /\ src = None /\ applied = loaded /\ err = {} /\ stage = 1 /\ noted = FALSE /\ installs = 0
      /\ disturbed = FALSE /\ missed = {} /\ known \in [exe : {None, base.platform}, given : {None, base.platform}]
  BY DEF Init
<1>4. installs \in 0..MaxInstalls /\ stage \in 1..7
  BY <1>3, InstallAssumption
<1>5. Types
  BY <1>1, <1>2, <1>3, <1>4 DEF Types, Steps
<1>6. Given /\ Cascade /\ Ended
  BY <1>1, <1>2, <1>3 DEF Given, Cascade, Ended
<1> QED  BY <1>5, <1>6 DEF InstallInv

LEMMA StartStep == InstallInv /\ Start => InstallInv'
<1> SUFFICES ASSUME InstallInv, Start PROVE InstallInv'
  OBVIOUS
<1> USE DEF InstallInv
<1>1. /\ src' = Unpacked /\ noted' = ~src'.inherited /\ pc' = IF TooOld THEN "failed" ELSE "load"
      /\ err' = {} /\ stage' = 1 /\ disturbed' = FALSE /\ missed' = {} /\ installs' = installs + 1 /\ installs < MaxInstalls
      /\ UNCHANGED <<base, known, loaded, applied>>
  BY DEF Start
<1> DEFINE version == IF known.given # None THEN known.given ELSE known.exe
           old == version # None /\ OlderThan(version, <<3, 14>>)
<1>2. base \in Base /\ base.platform \in Nat \X Nat
  BY InstallAssumption DEF Types, Base
<1>3. known.exe \in {base.platform, None} /\ known.given \in {base.platform, None}
  BY DEF Given
<1>4. FormatVersionForPlatform(known.exe) \in 70..210 /\ Reads(base.platform, FormatVersionForPlatform(known.exe))
  BY <1>2, <1>3, FormatFits
<1>5. old => OlderThan(base.platform, <<3, 14>>)
  BY <1>3
<1>6. Unpacked = [format |-> FormatVersionForPlatform(known.exe), modern |-> ~old,
                  compat |-> IF old THEN 10 ELSE 14, runMode |-> ~old, inherited |-> ~old]
  BY DEF Unpacked
<1> HIDE DEF old, version
<1>7. /\ src' \in Source /\ Reads(base'.platform, src'.format)
      /\ ~OlderThan(base.platform, <<3, 14>>) =>
           src'.modern /\ src'.runMode /\ src'.inherited /\ src'.compat = 14
  BY <1>1, <1>4, <1>5, <1>6 DEF Source
<1>8. Types'
  <2>1. installs' \in 0..MaxInstalls  BY <1>1, InstallAssumption DEF Types
  <2>2. noted' \in BOOLEAN  BY <1>1
  <2>3. pc' \in Steps /\ stage' \in 1..7
    BY <1>1 DEF Steps
  <2> QED  BY <1>1, <1>7, <2>1, <2>2, <2>3 DEF Types
<1>9. Given' /\ Caused'
  BY <1>1, <1>7 DEF Given, Caused, Types
<1>10. Cascade'
  <2>1. Past' /\ Halfway' /\ Told'
    <3>1. Past' /\ Halfway'  BY <1>1 DEF Past, Halfway
    <3>2. ~src'.inherited => noted'  BY <1>1
    <3> QED  BY <3>1, <3>2 DEF Told
  <2>2. pc' \in {"failed", "load"}
    BY <1>1
  <2> QED  BY <1>7, <1>9, <2>1, <2>2 DEF Cascade
<1>11. Ended'
  BY <1>1 DEF Ended, TooOld
<1> QED  BY <1>8, <1>9, <1>10, <1>11

LEMMA LoadStep == InstallInv /\ Load => InstallInv'
<1> SUFFICES ASSUME InstallInv, Load PROVE InstallInv'
  OBVIOUS
<1> USE DEF InstallInv
<1>1. pc = "load" /\ UNCHANGED <<base, known, src, installs, disturbed, missed, applied, stage>>
  BY DEF Load, Command
<1>2. src \in Source /\ Reads(base.platform, src.format) /\ Caused /\ Past /\ Halfway /\ Told /\ stage \in 1..7
  BY <1>1 DEF Types, Cascade, Running
<1>3. /\ Reads(base.platform, src.format)' /\ Caused'
      /\ Fits' = Fits
  BY <1>1, <1>2 DEF Caused, Old, Fits, ModernFits, RunModeFits, CompatFits, InheritedFits
<1>4. CASE LoadComplaints = {}
  <2>1. /\ pc' = "update" /\ err' = {} /\ loaded' = (IF base.extensions THEN src ELSE loaded)
        /\ noted' = (noted \/ stage > 6)
    BY <1>4, Turns DEF Load
  <2>2. Fits /\ (~src'.inherited => noted')
    BY <1>1, <1>2, <1>4, <2>1, Complaints DEF Told
  <2>3. Loaded' /\ Given'
    BY <1>1, <2>1 DEF Loaded, Given
  <2>4. Types'
    BY <1>1, <1>2, <2>1 DEF Types, Steps, Running
  <2> QED  BY <1>1, <1>3, <2>1, <2>2, <2>3, <2>4 DEF Cascade, Ended
<1>5. CASE LoadComplaints # {}
  <2>1. pc' = "judge" /\ err' \in SUBSET LoadComplaints /\ loaded' = loaded /\ noted' = noted
    BY <1>5 DEF Load
  <2>2. err' \subseteq Topics
    BY <1>2, <2>1, Complaints
  <2>3. LoadComplaints' = LoadComplaints /\ Past' /\ Halfway' /\ Told'
    BY <1>1, <1>2, <2>1
    DEF LoadComplaints, Past, Halfway, Told, ExistsFits, ModernFits, RunModeFits, CompatFits, InheritedFits, Old
  <2>4. Types' /\ Given'
    BY <1>1, <1>2, <2>1, <2>2 DEF Types, Given, Steps, Running
  <2> QED  BY <1>1, <1>3, <1>5, <2>1, <2>2, <2>3, <2>4 DEF Cascade, Ended
<1> QED  BY <1>4, <1>5

\* The sources after a turn.
LEMMA Turned ==
  ASSUME Types, src \in Source, NEW next \in 1..6
  PROVE  /\ Remedied(src, Remedies[next]) \in Source /\ Remedied(src, Remedies[next]).format = src.format
         /\ next = 1 => Remedied(src, Remedies[next]) = src
         /\ Remedied(src, Remedies[next]).modern = (src.modern /\ next # 2)
         /\ Remedied(src, Remedies[next]).runMode = (src.runMode /\ next \notin {3, 6})
         /\ Remedied(src, Remedies[next]).inherited = (src.inherited /\ next # 6)
         /\ Remedied(src, Remedies[next]).compat = (IF next = 4 THEN 10 ELSE IF next = 5 THEN 0 ELSE src.compat)
<1>1. CASE next = 1
  BY <1>1, Turns DEF Remedied, Source
<1>2. CASE next = 2
  BY <1>2, Turns DEF Remedied, Source
<1>3. CASE next = 3
  BY <1>3, Turns DEF Remedied, Source
<1>4. CASE next = 4
  BY <1>4, Turns DEF Remedied, Source
<1>5. CASE next = 5
  BY <1>5, Turns DEF Remedied, Source
<1>6. CASE next = 6
  BY <1>6, Turns, Stripped DEF Remedied, Source
<1> QED  BY <1>1, <1>2, <1>3, <1>4, <1>5, <1>6

\* A turn is taken for a complaint that is there; each one before it that stands was
\* missed before or is passed over now.
LEMMA NextTurn ==
  ASSUME Types, src \in Source, Reads(base.platform, src.format), Past, Halfway, err \subseteq LoadComplaints,
         NEW next \in 1..7, stage <= next, \A i \in stage..6 : i < next => Topic(Remedies[i]) \notin err,
         next # 7 => Topic(Remedies[next]) \in err
  PROVE  LET now == missed \cup PassedOver(next) IN
         /\ next > 1 => ExistsFits \/ "exists" \in now
         /\ next > 2 => ModernFits \/ "modern" \in now
         /\ next > 3 => RunModeFits \/ "runMode" \in now
         /\ next > 5 => CompatFits \/ "compat" \in now
         /\ next > 6 => InheritedFits \/ "inherited" \in now
         /\ next = 2 => ~ModernFits
         /\ next = 3 => ~RunModeFits
         /\ next = 4 => ~CompatFits
         /\ next = 5 => ~CompatFits /\ src.compat = 10
         /\ next = 6 => ~InheritedFits
<1> DEFINE now == missed \cup PassedOver(next)
<1>1. stage \in 1..7
  BY DEF Types
<1>2. /\ "exists" \in LoadComplaints <=> ~ExistsFits
      /\ "modern" \in LoadComplaints <=> ~ModernFits
      /\ "runMode" \in LoadComplaints <=> ~RunModeFits
      /\ "compat" \in LoadComplaints <=> ~CompatFits
      /\ "inherited" \in LoadComplaints <=> ~InheritedFits
  BY Complaints
<1>3. \A i \in stage..(next - 1) : Topic(Remedies[i]) \in LoadComplaints => Topic(Remedies[i]) \in now
  BY DEF PassedOver
<1>4. \A t \in missed : t \in now
  OBVIOUS
<1> HIDE DEF now
<1>5. /\ next > 1 => ExistsFits \/ "exists" \in now
      /\ next > 2 => ModernFits \/ "modern" \in now
      /\ next > 3 => RunModeFits \/ "runMode" \in now
  <2>1. next > 1 => ExistsFits \/ "exists" \in now
    <3>1. CASE stage > 1  BY <1>4, <3>1 DEF Past
    <3>2. CASE stage = 1 /\ next > 1
      <4>1. 1 \in stage..(next - 1)  BY <3>2
      <4> QED  BY <1>2, <1>3, <4>1, Turns
    <3> QED  BY <1>1, <3>1, <3>2
  <2>2. next > 2 => ModernFits \/ "modern" \in now
    <3>1. CASE stage > 2  BY <1>4, <3>1 DEF Past
    <3>2. CASE stage <= 2 /\ next > 2
      <4>1. 2 \in stage..(next - 1)  BY <1>1, <3>2
      <4> QED  BY <1>2, <1>3, <4>1, Turns
    <3> QED  BY <1>1, <3>1, <3>2
  <2>3. next > 3 => RunModeFits \/ "runMode" \in now
    <3>1. CASE stage > 3  BY <1>4, <3>1 DEF Past
    <3>2. CASE stage <= 3 /\ next > 3
      <4>1. 3 \in stage..(next - 1)  BY <1>1, <3>2
      <4> QED  BY <1>2, <1>3, <4>1, Turns
    <3> QED  BY <1>1, <3>1, <3>2
  <2> QED  BY <2>1, <2>2, <2>3
<1>6. next > 5 => CompatFits \/ "compat" \in now
  <2>1. CASE stage > 5  BY <1>4, <2>1 DEF Past
  <2>2. CASE stage <= 5 /\ next > 5
    <3>1. 5 \in stage..(next - 1)  BY <1>1, <2>2
    <3> QED  BY <1>2, <1>3, <3>1, Turns
  <2> QED  BY <1>1, <2>1, <2>2
<1>7. next > 6 => InheritedFits \/ "inherited" \in now
  <2>1. CASE stage > 6  BY <1>4, <2>1 DEF Past
  <2>2. CASE stage <= 6 /\ next > 6
    <3>1. 6 \in stage..(next - 1)  BY <1>1, <2>2
    <3> QED  BY <1>2, <1>3, <3>1, Turns
  <2> QED  BY <1>1, <2>1, <2>2
<1>8. next # 7 => Topic(Remedies[next]) \in LoadComplaints
  OBVIOUS
<1>9. /\ next = 2 => ~ModernFits
      /\ next = 3 => ~RunModeFits
      /\ next = 4 => ~CompatFits
      /\ next = 5 => ~CompatFits
      /\ next = 6 => ~InheritedFits
  BY <1>2, <1>8, Turns
<1>10. next = 5 => src.compat = 10
  <2>1. SUFFICES ASSUME next = 5 PROVE stage = 5
    BY DEF Halfway
  <2>2. 4 \notin stage..6
    BY <2>1, Turns
  <2> QED  BY <1>1, <2>1, <2>2
<1> QED  BY <1>5, <1>6, <1>7, <1>9, <1>10 DEF now

LEMMA PassedOverType ==
  ASSUME Types, src \in Source, Reads(base.platform, src.format), NEW n
  PROVE  missed \cup PassedOver(n) \subseteq Topics
BY Complaints DEF Types, PassedOver

LEMMA RemedyStep ==
  ASSUME InstallInv, pc = "judge", NEW next \in {i \in stage..6 : Topic(Remedies[i]) \in err},
         \A i \in {i \in stage..6 : Topic(Remedies[i]) \in err} : next <= i,
         src' = Remedied(src, Remedies[next]), stage' = next + 1,
         missed' = missed \cup PassedOver(next),
         pc' = IF next = 1 THEN "delete" ELSE "load",
         UNCHANGED <<base, known, loaded, applied, err, noted, installs, disturbed>>
  PROVE  InstallInv'
<1> USE DEF InstallInv
<1>1. /\ src \in Source /\ Reads(base.platform, src.format) /\ Caused /\ Past /\ Halfway /\ Told
      /\ err \subseteq LoadComplaints /\ missed' \subseteq Topics
  BY PassedOverType DEF Types, Cascade, Running
<1>a. stage \in 1..7
  BY DEF Types
<1>b. next \in 1..6 /\ stage <= next /\ Topic(Remedies[next]) \in err
      /\ \A i \in stage..6 : i < next => Topic(Remedies[i]) \notin err
  BY <1>a
<1>2. /\ next > 1 => ExistsFits \/ "exists" \in missed'
      /\ next > 2 => ModernFits \/ "modern" \in missed'
      /\ next > 3 => RunModeFits \/ "runMode" \in missed'
      /\ next > 5 => CompatFits \/ "compat" \in missed'
      /\ next = 2 => ~ModernFits
      /\ next = 3 => ~RunModeFits
      /\ next = 4 => ~CompatFits
      /\ next = 5 => ~CompatFits /\ src.compat = 10
      /\ next = 6 => ~InheritedFits
  BY <1>1, <1>b, NextTurn
<1>3. /\ src' \in Source /\ src'.format = src.format
      /\ src'.modern = (src.modern /\ next # 2)
      /\ src'.runMode = (src.runMode /\ next \notin {3, 6})
      /\ src'.inherited = (src.inherited /\ next # 6)
      /\ src'.compat = (IF next = 4 THEN 10 ELSE IF next = 5 THEN 0 ELSE src.compat)
  BY <1>1, <1>b, Turned
<1>4. /\ base.compat \in {0, 10, 14} /\ src.compat \in {0, 10, 14}
      /\ src.modern \in BOOLEAN /\ src.runMode \in BOOLEAN /\ src.inherited \in BOOLEAN
  BY <1>1 DEF Types, Base, Source
<1>5. /\ Old' = Old /\ ExistsFits' = ExistsFits
      /\ ModernFits' = ~(src'.modern /\ Old)
      /\ RunModeFits' = ~(src'.runMode /\ ~base.managed)
      /\ CompatFits' = ~(src'.compat > base.compat)
      /\ InheritedFits' = ~(src'.inherited /\ base.inherited = "load")
  BY DEF Old, ExistsFits, ModernFits, RunModeFits, CompatFits, InheritedFits
<1>6. next # 1 => Past' /\ Halfway'
  <2> SUFFICES ASSUME next # 1 PROVE Past' /\ Halfway'
    OBVIOUS
  <2> HIDE DEF InstallInv
  <2>1. ExistsFits' \/ "exists" \in missed'
    BY <1>2, <1>5, <1>b
  <2>2. ModernFits' \/ "modern" \in missed'
    <3>1. CASE next = 2
      BY <1>3, <1>4, <1>5, <3>1
    <3>2. CASE next > 2
      BY <1>2, <1>3, <1>4, <1>5, <3>2 DEF ModernFits
    <3> QED  BY <1>b, <3>1, <3>2
  <2>3. next > 2 => RunModeFits' \/ "runMode" \in missed'
    <3>1. CASE next = 3
      BY <1>3, <1>4, <1>5, <3>1
    <3>2. CASE next > 3
      BY <1>2, <1>3, <1>4, <1>5, <3>2 DEF RunModeFits
    <3> QED  BY <1>b, <3>1, <3>2
  <2>4. next > 4 => CompatFits' \/ "compat" \in missed'
    <3>1. CASE next = 5
      <4>1. src'.compat = 0  BY <1>3, <3>1
      <4>2. ~(0 > base.compat)  BY <1>4
      <4> QED  BY <1>5, <4>1, <4>2
    <3>2. CASE next = 6
      <4>1. src'.compat = src.compat  BY <1>3, <3>2
      <4> QED  BY <1>2, <1>5, <3>2, <4>1 DEF CompatFits
    <3> QED  BY <1>b, <3>1, <3>2
  <2>5. next = 6 => InheritedFits'
    BY <1>3, <1>4, <1>5
  <2>6. Halfway'
    BY <1>3, <1>b DEF Halfway
  <2> QED  BY <1>b, <2>1, <2>2, <2>3, <2>4, <2>5, <2>6 DEF Past
<1>7. Told'
  <2>1. CASE next = 6
    BY <1>1, <1>a, <2>1 DEF Told
  <2>2. CASE next # 6
    <3>1. ~src'.inherited => ~src.inherited  BY <1>3, <2>2
    <3>2. stage > 6 => stage' > 6  BY <1>a, <1>b
    <3> QED  BY <1>1, <3>1, <3>2 DEF Told
  <2> QED  BY <2>1, <2>2
<1>8. Caused'
  <2>1. next = 3 => ~base.managed
    BY <1>2 DEF RunModeFits
  <2>2. next = 6 => base.inherited # "never"
    BY <1>2 DEF InheritedFits
  <2>3. next = 2 => Old
    BY <1>2 DEF ModernFits
  <2>4. (next = 4 => base.compat # 14) /\ (next = 5 => base.compat = 0)
    BY <1>2, <1>4 DEF CompatFits
  <2>5. ~OlderThan(base.platform, <<3, 14>>) =>
          /\ ~src'.modern => Old
          /\ ~src'.runMode => ~base.managed \/ base.inherited # "never"
          /\ ~src'.inherited => base.inherited # "never"
    BY <1>1, <1>3, <2>1, <2>2, <2>3 DEF Caused
  <2>6. ~OlderThan(base.platform, <<3, 14>>) =>
          /\ src'.compat = 0 => base.compat = 0
          /\ src'.compat = 10 => base.compat # 14
    BY <1>1, <1>3, <2>4 DEF Caused
  <2> QED  BY <1>5, <2>5, <2>6 DEF Caused
<1>9. Types' /\ Given'
  <2>1. pc' \in Steps /\ stage' \in 1..7
    BY <1>b DEF Steps
  <2> QED  BY <1>1, <1>3, <2>1 DEF Types, Given
<1>10. (next = 1 => stage' = 2) /\ (pc' = "delete" <=> next = 1) /\ pc' \in {"delete", "load"}
  OBVIOUS
<1>11. Cascade'
  BY <1>1, <1>3, <1>6, <1>7, <1>8, <1>10 DEF Cascade
<1>12. Ended'
  BY <1>10 DEF Ended
<1> QED  BY <1>9, <1>11, <1>12

LEMMA JudgeStep == InstallInv /\ Judge => InstallInv'
<1> SUFFICES ASSUME InstallInv, Judge PROVE InstallInv'
  OBVIOUS
<1> USE DEF InstallInv
<1> DEFINE fits == {i \in stage..6 : Topic(Remedies[i]) \in err}
<1>1. /\ pc = "judge" /\ UNCHANGED <<base, known, loaded, applied, err, noted, installs, disturbed>>
      /\ src \in Source /\ Reads(base.platform, src.format) /\ Caused /\ Told /\ Past /\ Halfway
      /\ LoadComplaints # {} /\ err \subseteq LoadComplaints
  BY DEF Judge, Types, Cascade, Running
<1>2. stage \in 1..7
  BY DEF Types
<1>3. CASE /\ fits = {} /\ pc' = "failed" /\ missed' = missed \cup PassedOver(7) /\ UNCHANGED <<src, stage>>
  <2>1. \A i \in stage..6 : i < 7 => Topic(Remedies[i]) \notin err
    BY <1>3
  <2>2. /\ ExistsFits \/ "exists" \in missed'
        /\ ModernFits \/ "modern" \in missed'
        /\ RunModeFits \/ "runMode" \in missed'
        /\ CompatFits \/ "compat" \in missed'
        /\ InheritedFits \/ "inherited" \in missed'
    BY <1>1, <1>2, <1>3, <2>1, NextTurn
  <2>3. LoadComplaints \cap missed' # {}
    <3>1. ~(ExistsFits /\ Fits)
      BY <1>1, Complaints
    <3> QED  BY <1>1, <2>2, <3>1, Complaints DEF Fits
  <2>4. LoadComplaints' = LoadComplaints
    BY <1>1, <1>3 DEF LoadComplaints
  <2>5. Unnamed'
    BY <2>3, <2>4 DEF Unnamed
  <2>6. Types' /\ Given'
    BY <1>1, <1>3, PassedOverType DEF Types, Given, Steps
  <2> QED  BY <1>3, <2>5, <2>6 DEF Cascade, Ended, Running
<1>4. ASSUME NEW next \in fits, \A i \in fits : next <= i, src' = Remedied(src, Remedies[next]), stage' = next + 1,
             missed' = missed \cup PassedOver(next),
             pc' = IF Remedies[next] = "exists" THEN "delete" ELSE "load"
      PROVE  InstallInv'
  <2>1. next \in 1..6
    BY <1>2, <1>4
  <2>2. Remedies[next] = "exists" <=> next = 1
    BY <2>1, Turns
  <2> QED  BY <1>1, <1>4, <2>2, RemedyStep
<1> QED  BY <1>3, <1>4, Turns DEF Judge

LEMMA DeleteStep == InstallInv /\ Delete => InstallInv'
<1> SUFFICES ASSUME InstallInv, Delete PROVE InstallInv'
  OBVIOUS
<1> USE DEF InstallInv
<1>1. /\ pc = "delete" /\ pc' = "load" /\ loaded' = None /\ applied' = None
      /\ UNCHANGED <<base, known, src, noted, installs, disturbed, missed, err, stage>>
  BY DEF Delete, Command
<1>2. src \in Source /\ Reads(base.platform, src.format) /\ Caused /\ Told /\ stage = 2
  BY <1>1 DEF Types, Cascade, Running
<1>3. Past' /\ Halfway' /\ Told' /\ Caused'
  BY <1>1, <1>2 DEF Past, Halfway, Told, Caused, Old, ExistsFits
<1>4. Types' /\ Given'
  BY <1>1, <1>2 DEF Types, Given, Steps
<1> QED  BY <1>1, <1>2, <1>3, <1>4 DEF Cascade, Ended

\* What an update is complained of.
LEMMA Updates ==
  /\ "inherited" \in UpdateComplaints <=> loaded # None /\ loaded.inherited /\ base.inherited = "update"
  /\ UpdateComplaints = {} <=> loaded # None /\ ~(loaded.inherited /\ base.inherited = "update")
  /\ UpdateComplaints \subseteq Topics
BY DEF UpdateComplaints, Topics

LEMMA UpdateStep == InstallInv /\ Update => InstallInv'
<1> SUFFICES ASSUME InstallInv, Update PROVE InstallInv'
  OBVIOUS
<1> USE DEF InstallInv
<1>1. /\ pc = "update" /\ UNCHANGED <<base, known, loaded, err, stage, noted, installs, disturbed>>
      /\ src \in Source /\ Reads(base.platform, src.format) /\ Caused /\ Fits /\ Loaded /\ (~src.inherited => noted)
  BY DEF Update, Types, Cascade, Running
<1>2. CASE UpdateComplaints = {} /\ pc' = "done" /\ applied' = loaded /\ UNCHANGED <<src, missed>>
  <2>1. loaded = src
    BY <1>1, <1>2, Updates DEF Loaded
  <2>2. Caused' /\ Given'
    BY <1>1, <1>2 DEF Caused, Old, Given
  <2>3. Types'
    BY <1>1, <1>2, <2>1 DEF Types, Steps
  <2> QED  BY <1>1, <1>2, <2>1, <2>2, <2>3 DEF Cascade, Ended, Running
<1>3. CASE /\ "inherited" \in UpdateComplaints
           /\ src' = StripInherited(src) /\ pc' = "reload" /\ UNCHANGED <<applied, missed>>
  <2>1. loaded # None /\ loaded.inherited /\ base.inherited = "update"
    BY <1>3, Updates
  <2>2. /\ src' \in Source /\ src'.format = src.format /\ src'.modern = src.modern /\ src'.compat = src.compat
        /\ ~src'.runMode /\ ~src'.inherited
    BY <1>1, <1>3, Stripped
  <2>3. Fits' /\ Caused' /\ Given'
    BY <1>1, <1>3, <2>1, <2>2
    DEF Fits, Caused, Given, Old, ModernFits, RunModeFits, CompatFits, InheritedFits
  <2>4. Types'
    BY <1>1, <1>3, <2>2 DEF Types, Steps
  <2> QED  BY <1>1, <1>3, <2>1, <2>2, <2>3, <2>4 DEF Cascade, Ended
<1>4. CASE /\ UpdateComplaints # {} /\ missed' = missed \cup (UpdateComplaints \ {"missing"})
           /\ pc' = "failed" /\ UNCHANGED <<src, applied>>
  <2>1. Types' /\ Given'
    BY <1>1, <1>4, Updates DEF Types, Given, Steps
  <2>2. CASE "inherited" \in UpdateComplaints
    <3>1. "inherited" \in UpdateComplaints' /\ "inherited" \in missed'
      BY <1>1, <1>4, <2>2 DEF UpdateComplaints
    <3>2. Unnamed'
      BY <3>1 DEF Unnamed
    <3> QED  BY <1>4, <2>1, <3>2 DEF Cascade, Ended, Running
  <2>3. CASE "inherited" \notin UpdateComplaints
    <3>1. loaded = None
      BY <1>4, <2>3, Updates
    <3>2. ~base.extensions'
      BY <1>1, <3>1, NoneAssumption DEF Loaded
    <3> QED  BY <1>4, <2>1, <3>2 DEF Cascade, Ended, Running
  <2> QED  BY <2>2, <2>3
<1> QED  BY <1>2, <1>3, <1>4 DEF Update

LEMMA ReloadStep == InstallInv /\ Reload => InstallInv'
<1> SUFFICES ASSUME InstallInv, Reload PROVE InstallInv'
  OBVIOUS
<1> USE DEF InstallInv
<1>1. /\ pc = "reload" /\ UNCHANGED <<base, known, src, noted, installs, disturbed, missed, applied, err, stage>>
      /\ src \in Source /\ Reads(base.platform, src.format) /\ Caused /\ Fits /\ ~src.inherited
      /\ loaded # None /\ loaded.inherited /\ base.inherited = "update" /\ base.extensions
  BY DEF Reload, Command, Types, Cascade, Running, Given
<1>2. Caused'
  BY <1>1 DEF Caused, Old
<1>3. CASE LoadComplaints = {}
  <2>1. pc' = "update again" /\ loaded' = src
    BY <1>3 DEF Reload
  <2>2. Types' /\ Given'
    BY <1>1, <2>1 DEF Types, Given, Steps
  <2> QED  BY <1>1, <1>2, <2>1, <2>2 DEF Cascade, Ended
<1>4. CASE LoadComplaints # {}
  <2>1. pc' = "failed" /\ loaded' = loaded
    BY <1>4 DEF Reload
  <2>2. ~base.overwrites
    BY <1>1, <1>4, Complaints DEF ExistsFits
  <2>3. Types' /\ Given'
    BY <1>1, <2>1 DEF Types, Given, Steps
  <2>4. InItsOwnWay'
    BY <1>1, <2>1, <2>2 DEF InItsOwnWay
  <2> QED  BY <1>1, <2>1, <2>3, <2>4 DEF Cascade, Ended, Running
<1> QED  BY <1>3, <1>4

LEMMA UpdateAgainStep == InstallInv /\ UpdateAgain => InstallInv'
<1> SUFFICES ASSUME InstallInv, UpdateAgain PROVE InstallInv'
  OBVIOUS
<1> USE DEF InstallInv
<1>1. /\ pc = "update again" /\ UNCHANGED <<base, known, src, loaded, err, stage, installs, disturbed, missed>>
      /\ src \in Source /\ Caused /\ loaded = src /\ ~src.inherited
  BY DEF UpdateAgain, Types, Cascade, Running
<1>2. UpdateComplaints = {}
  BY <1>1, Updates, NoneAssumption
<1>3. pc' = "done" /\ applied' = loaded /\ noted' = TRUE
  BY <1>2 DEF UpdateAgain
<1>4. Types' /\ Given' /\ Caused'
  BY <1>1, <1>3 DEF Types, Given, Caused, Old, Steps
<1> QED  BY <1>1, <1>3, <1>4 DEF Cascade, Ended, Running

LEMMA DisturbStep == InstallInv /\ Disturb => InstallInv'
<1> SUFFICES ASSUME InstallInv, Disturb PROVE InstallInv'
  OBVIOUS
<1>1. /\ pc' = "failed" /\ disturbed' = TRUE
      /\ UNCHANGED <<base, known, src, loaded, applied, err, stage, noted, installs, missed>>
  BY DEF Disturb
<1>2. Types' /\ Given'
  BY <1>1 DEF InstallInv, Types, Given, Steps, Running
<1> QED  BY <1>1, <1>2 DEF InstallInv, Cascade, Ended, Running

LEMMA Stutter == InstallInv /\ UNCHANGED vars => InstallInv'
<1> SUFFICES ASSUME InstallInv, UNCHANGED vars PROVE InstallInv'
  OBVIOUS
<1>1. UNCHANGED <<base, known, src, loaded, applied, pc, err, stage, noted, installs, disturbed, missed>>
  BY DEF vars
<1>2. /\ Old' = Old /\ ExistsFits' = ExistsFits /\ ModernFits' = ModernFits /\ RunModeFits' = RunModeFits
      /\ CompatFits' = CompatFits /\ InheritedFits' = InheritedFits
  BY <1>1 DEF Old, ExistsFits, ModernFits, RunModeFits, CompatFits, InheritedFits
<1>3. /\ Past' = Past /\ Halfway' = Halfway /\ Fits' = Fits /\ Caused' = Caused /\ Told' = Told /\ Loaded' = Loaded
  BY <1>1, <1>2 DEF Past, Halfway, Fits, Caused, Told, Loaded
<1>4. /\ LoadComplaints' = LoadComplaints /\ Unnamed' = Unnamed /\ InItsOwnWay' = InItsOwnWay
      /\ TooOld' = TooOld /\ Running' = Running
  BY <1>1 DEF LoadComplaints, UpdateComplaints, Unnamed, InItsOwnWay, TooOld, Running
<1>5. Types' = Types /\ Given' = Given
  BY <1>1, <1>4 DEF Types, Given
<1>6. Cascade' = Cascade
  BY <1>1, <1>3, <1>4 DEF Cascade
<1>7. Ended' = Ended
  BY <1>1, <1>3, <1>4 DEF Ended
<1> QED  BY <1>5, <1>6, <1>7 DEF InstallInv

LEMMA InstallHolds == Spec => []InstallInv
<1>1. InstallInv /\ [Next]_vars => InstallInv'
  BY StartStep, LoadStep, JudgeStep, DeleteStep, UpdateStep, ReloadStep, UpdateAgainStep, DisturbStep, Stutter
  DEF Next
<1> QED  BY InstallInit, <1>1, PTL DEF Spec

-----------------------------------------------------------------------------
\* Every variable has its type; a running install has its sources.
THEOREM InstallTypes == Spec => []TypeOK
<1>1. InstallInv => TypeOK
  <2>1. Len(Remedies) + 1 = 7
    BY DEF Remedies
  <2> QED  BY <2>1 DEF InstallInv, Types, TypeOK, Steps
<1> QED  BY <1>1, InstallHolds, PTL

\* Whatever an install finds and whatever the logs name, one that nothing disturbs puts
\* its extension to work, or fails for one of the reasons the property names.
THEOREM SucceedsTheorem == Spec => []SucceedsWherePossible
<1>1. InstallInv => SucceedsWherePossible
  BY DEF InstallInv, Ended, Unnamed, SucceedsWherePossible
<1> QED  BY <1>1, InstallHolds, PTL

\* What is put to work asks for less than the embedded sources only where it must, and
\* nobody is left without a role and without being told.
THEOREM NoMoreTheorem == Spec => []NoMoreThanNeeded
<1>1. InstallInv => NoMoreThanNeeded
  BY DEF InstallInv, Ended, Caused, Old, NoMoreThanNeeded
<1> QED  BY <1>1, InstallHolds, PTL

-----------------------------------------------------------------------------
(*                                 Profiles                                *)

\* What config.toml may hold.
Text == Seq(Line)

\* A line that must have another of its block after it, before it.
Opens(l) == l.kind \in {"begin", "server"}
Continues(l) == l.kind \in {"server", "end"}

\* Every block is whole: its lines follow one another without a gap.
WellFormed(text) ==
  /\ Len(text) > 0 => ~Continues(text[1]) /\ ~Opens(text[Len(text)])
  /\ \A n \in 1..(Len(text) - 1) :
       Opens(text[n]) \/ Continues(text[n + 1]) =>
         Opens(text[n]) /\ Continues(text[n + 1]) /\ text[n].id = text[n + 1].id

\* No id has two blocks.
OneBlockEach(text) ==
  \A m, n \in DOMAIN text :
    (text[m].kind = "begin" /\ text[n].kind = "begin" /\ text[m].id = text[n].id) => m = n

\* Codex is told to start a server of the id.
Registered(text, id) == \E n \in DOMAIN text : text[n].kind = "server" /\ text[n].id = id

\* Its sections are of modes that its profile asks for.
AsWanted(text, id) ==
  \A n \in DOMAIN text : (text[n].kind = "server" /\ text[n].id = id) => text[n].mode \in Wants(store[id])

-----------------------------------------------------------------------------
(* Texts and parts of them *)

\* The lines of a text joined from two.
LEMMA Joined ==
  ASSUME NEW s \in Text, NEW t \in Text
  PROVE  /\ s \o t \in Text /\ Len(s \o t) = Len(s) + Len(t)
         /\ \A n \in 1..Len(s) : (s \o t)[n] = s[n]
         /\ \A n \in 1..Len(t) : (s \o t)[Len(s) + n] = t[n]
         /\ \A n \in DOMAIN (s \o t) : \/ /\ n \in DOMAIN s
                                         /\ (s \o t)[n] = s[n]
                                      \/ /\ n - Len(s) \in DOMAIN t
                                         /\ (s \o t)[n] = t[n - Len(s)]
BY DEF Text

\* The lines before line a.
LEMMA FrontPart ==
  ASSUME NEW text \in Text, NEW a \in 1..Len(text)
  PROVE  /\ SubSeq(text, 1, a - 1) \in Text /\ Len(SubSeq(text, 1, a - 1)) = a - 1
         /\ \A n \in 1..(a - 1) : SubSeq(text, 1, a - 1)[n] = text[n]
<1>1. text \in Seq(Line) /\ Len(text) \in Nat
  BY DEF Text
<1>2. \A n \in 1..(a - 1) : n \in 1..Len(text)
  BY <1>1
<1> QED  BY <1>1, <1>2, SubSeqProperties DEF Text

\* The lines after line e.
LEMMA RearPart ==
  ASSUME NEW text \in Text, NEW e \in 1..Len(text)
  PROVE  /\ SubSeq(text, e + 1, Len(text)) \in Text /\ Len(SubSeq(text, e + 1, Len(text))) = Len(text) - e
         /\ \A n \in 1..(Len(text) - e) : SubSeq(text, e + 1, Len(text))[n] = text[e + n]
<1>1. text \in Seq(Line) /\ Len(text) \in Nat
  BY DEF Text
<1>2. \A n \in (e + 1)..Len(text) : n \in 1..Len(text)
  BY <1>1
<1> QED  BY <1>1, <1>2, SubSeqProperties DEF Text

\* Whole blocks stay whole when texts are joined,
LEMMA JoinedWell ==
  ASSUME NEW s \in Text, NEW t \in Text, WellFormed(s), WellFormed(t)
  PROVE  WellFormed(s \o t)
<1> DEFINE u == s \o t
<1>1. /\ u \in Text /\ Len(u) = Len(s) + Len(t) /\ Len(s) \in Nat /\ Len(t) \in Nat
      /\ \A n \in 1..Len(s) : u[n] = s[n]
      /\ \A n \in 1..Len(t) : u[Len(s) + n] = t[n]
  BY Joined DEF Text
<1> HIDE DEF u
<1>2. Len(u) > 0 => ~Continues(u[1]) /\ ~Opens(u[Len(u)])
  <2>1. CASE Len(t) = 0
    BY <1>1, <2>1 DEF WellFormed
  <2>2. CASE Len(t) > 0
    <3>1. u[Len(u)] = t[Len(t)]
      BY <1>1, <2>2
    <3>2. Len(s) = 0 => u[1] = t[1]
      BY <1>1, <2>2
    <3> QED  BY <1>1, <2>2, <3>1, <3>2 DEF WellFormed
  <2> QED  BY <1>1, <2>1, <2>2
<1>3. ASSUME NEW n \in 1..(Len(u) - 1), Opens(u[n]) \/ Continues(u[n + 1])
      PROVE  Opens(u[n]) /\ Continues(u[n + 1]) /\ u[n].id = u[n + 1].id
  <2>1. CASE n < Len(s)
    BY <1>1, <1>3, <2>1 DEF WellFormed
  <2>2. CASE n = Len(s)
    <3>1. u[n] = s[Len(s)] /\ u[n + 1] = t[1]
      BY <1>1, <1>3, <2>2
    <3> QED  BY <1>1, <1>3, <2>2, <3>1 DEF WellFormed
  <2>3. CASE n > Len(s)
    <3> DEFINE k == n - Len(s)
    <3>1. k \in 1..(Len(t) - 1)
      BY <1>1, <1>3, <2>3
    <3>2. u[n] = t[k] /\ u[n + 1] = t[k + 1]
      <4>1. n = Len(s) + k /\ n + 1 = Len(s) + (k + 1) /\ k \in 1..Len(t) /\ k + 1 \in 1..Len(t)
        BY <1>1, <3>1
      <4> HIDE DEF k
      <4> QED  BY <1>1, <4>1
    <3> HIDE DEF k
    <3> QED  BY <1>3, <3>1, <3>2 DEF WellFormed
  <2> QED  BY <1>1, <2>1, <2>2, <2>3
<1> QED  BY <1>2, <1>3 DEF WellFormed, u

\* when a text ends before a line that continues nothing,
LEMMA FrontWell ==
  ASSUME NEW text \in Text, WellFormed(text), NEW a \in 1..Len(text), ~Continues(text[a])
  PROVE  WellFormed(SubSeq(text, 1, a - 1))
<1> DEFINE s == SubSeq(text, 1, a - 1)
<1>1. Len(s) = a - 1 /\ Len(text) \in Nat /\ \A n \in 1..(a - 1) : s[n] = text[n]
  BY FrontPart DEF Text
<1> HIDE DEF s
<1>2. a > 1 => ~Opens(text[a - 1])
  BY <1>1 DEF WellFormed
<1> QED  BY <1>1, <1>2 DEF WellFormed, s

\* and when it starts after one that opens nothing.
LEMMA RearWell ==
  ASSUME NEW text \in Text, WellFormed(text), NEW e \in 1..Len(text), ~Opens(text[e])
  PROVE  WellFormed(SubSeq(text, e + 1, Len(text)))
<1> DEFINE s == SubSeq(text, e + 1, Len(text))
<1>1. Len(s) = Len(text) - e /\ Len(text) \in Nat /\ \A n \in 1..(Len(text) - e) : s[n] = text[e + n]
  BY RearPart DEF Text
<1> HIDE DEF s
<1>2. e < Len(text) => ~Continues(text[e + 1])
  BY <1>1 DEF WellFormed
<1>3. Len(s) > 0 => ~Continues(s[1]) /\ ~Opens(s[Len(s)])
  <2>1. Len(s) > 0 => s[1] = text[e + 1] /\ s[Len(s)] = text[Len(text)]
    BY <1>1
  <2> QED  BY <1>1, <1>2, <2>1 DEF WellFormed
<1>4. ASSUME NEW n \in 1..(Len(s) - 1), Opens(s[n]) \/ Continues(s[n + 1])
      PROVE  Opens(s[n]) /\ Continues(s[n + 1]) /\ s[n].id = s[n + 1].id
  <2>1. s[n] = text[e + n] /\ s[n + 1] = text[(e + n) + 1] /\ e + n \in 1..(Len(text) - 1)
    BY <1>1, <1>4
  <2> QED  BY <1>4, <2>1 DEF WellFormed
<1> QED  BY <1>3, <1>4 DEF WellFormed, s

-----------------------------------------------------------------------------
(* Blocks *)

\* Min, which CHOOSEs, finds the least number.
LEMMA Least ==
  ASSUME NEW S \in SUBSET Nat, S # {}
  PROVE  Min(S) \in S /\ \A n \in S : Min(S) <= n
<1>1. PICK i \in S : \A j \in S : <<j, i>> \notin OpToRel(<, Nat)
  BY NatLessThanWellFounded, WFMin, Zenon
<1>2. ASSUME NEW j \in S  PROVE ~(j < i)
  BY <1>1 DEF OpToRel
<1>3. \A j \in S : i <= j
  BY <1>2
<1> QED  BY <1>3 DEF Min

\* The lines of a block: a begin marker, sections of the same id and the end marker.
Lines(text, id, a, e) ==
  /\ a \in DOMAIN text /\ e \in DOMAIN text /\ a < e
  /\ text[a].kind = "begin" /\ text[e].kind = "end" /\ text[a].id = id /\ text[e].id = id
  /\ \A n \in (a + 1)..(e - 1) : text[n].kind = "server" /\ text[n].id = id

\* A begin marker has its block after it.
LEMMA BlockAfter ==
  ASSUME NEW text \in Text, WellFormed(text), NEW a \in DOMAIN text, text[a].kind = "begin"
  PROVE  \E e \in DOMAIN text : Lines(text, text[a].id, a, e)
<1> DEFINE id == text[a].id
           S == {n \in (a + 1)..Len(text) : text[n].kind # "server" \/ text[n].id # id}
<1>1. Len(text) \in Nat /\ a \in 1..Len(text) /\ S \in SUBSET Nat
  BY DEF Text
<1>2. S # {}
  <2>1. SUFFICES ASSUME \A n \in (a + 1)..Len(text) : text[n].kind = "server"  PROVE FALSE
    OBVIOUS
  <2>2. Opens(text[Len(text)])
    BY <1>1, <2>1 DEF Opens
  <2> QED  BY <1>1, <2>2 DEF WellFormed
<1>3. PICK e \in S : \A n \in S : e <= n
  BY <1>1, <1>2, Least
<1>4. \A n \in (a + 1)..(e - 1) : text[n].kind = "server" /\ text[n].id = id
  BY <1>1, <1>3
<1>5. e - 1 \in 1..(Len(text) - 1) /\ Opens(text[e - 1]) /\ text[e - 1].id = id
  BY <1>1, <1>3, <1>4 DEF Opens
<1>6. Continues(text[e]) /\ text[e].id = id
  <2>1. (e - 1) + 1 = e
    BY <1>1, <1>3
  <2> QED  BY <1>5, <2>1 DEF WellFormed
<1>7. text[e].kind = "end"
  BY <1>3, <1>6 DEF Continues
<1> QED  BY <1>1, <1>3, <1>4, <1>6, <1>7 DEF Lines

\* A section is in a block of its id.
LEMMA BlockBefore ==
  ASSUME NEW text \in Text, WellFormed(text), NEW n \in DOMAIN text, text[n].kind = "server"
  PROVE  \E a \in DOMAIN text :
           /\ a < n /\ text[a].kind = "begin" /\ text[a].id = text[n].id
           /\ \A k \in (a + 1)..n : text[k].kind = "server"
<1> DEFINE id == text[n].id
           S == {k \in 1..(n - 1) : text[n - k].kind # "server" \/ text[n - k].id # id}
<1>1. Len(text) \in Nat /\ n \in 1..Len(text) /\ S \in SUBSET Nat
  BY DEF Text
<1>2. S # {}
  <2>1. SUFFICES ASSUME \A k \in 1..(n - 1) : text[n - k].kind = "server"  PROVE FALSE
    OBVIOUS
  <2>2. text[1].kind = "server"
    <3>1. CASE n = 1
      BY <3>1
    <3>2. CASE n > 1
      <4>1. n - 1 \in 1..(n - 1) /\ n - (n - 1) = 1
        BY <1>1, <3>2
      <4> QED  BY <2>1, <4>1
    <3> QED  BY <1>1, <3>1, <3>2
  <2> QED  BY <1>1, <2>2 DEF WellFormed, Continues
<1>3. PICK k \in S : \A j \in S : k <= j
  BY <1>1, <1>2, Least
<1>4. text[(n - k) + 1].kind = "server" /\ text[(n - k) + 1].id = id
  <2>1. CASE k = 1
    BY <1>1, <2>1
  <2>2. CASE k # 1
    <3>1. k - 1 \in 1..(n - 1) /\ k - 1 \notin S /\ n - (k - 1) = (n - k) + 1
      BY <1>1, <1>3, <2>2
    <3> QED  BY <3>1
  <2> QED  BY <2>1, <2>2
<1>5. Opens(text[n - k]) /\ text[n - k].id = id
  <2>1. n - k \in 1..(Len(text) - 1)
    BY <1>1, <1>3
  <2> QED  BY <1>4, <2>1 DEF WellFormed, Continues
<1>6. text[n - k].kind = "begin"
  BY <1>3, <1>5 DEF Opens
<1>7. ASSUME NEW m \in ((n - k) + 1)..n  PROVE text[m].kind = "server"
  <2>1. CASE m = n
    BY <2>1
  <2>2. CASE m # n
    <3>1. n - m \in 1..(n - 1) /\ n - m \notin S /\ n - (n - m) = m
      BY <1>1, <1>3, <1>7, <2>2
    <3> QED  BY <3>1
  <2> QED  BY <2>1, <2>2
<1>8. n - k \in DOMAIN text /\ n - k < n
  BY <1>1, <1>3
<1> QED  BY <1>5, <1>6, <1>7, <1>8

\* The block found is one whole block, of the id or of one that goes on from it; there is
\* none only where no marker matches.
LEMMA BlockFound ==
  ASSUME NEW text \in Text, WellFormed(text), NEW id \in Ids
  PROVE  \/ Block(text, id) = <<>> /\ \A n \in DOMAIN text : ~Marks(text[n], "begin", id)
         \/ \E a, e \in DOMAIN text : /\ Block(text, id) = <<a, e>>
                                     /\ Marks(text[a], "begin", id)
                                     /\ Lines(text, text[a].id, a, e)
<1> DEFINE begins == {n \in DOMAIN text : Marks(text[n], "begin", id)}
           ends == {n \in DOMAIN text : Marks(text[n], "end", id) /\ n > Min(begins)}
<1>1. begins \in SUBSET Nat /\ ends \in SUBSET Nat /\ Len(text) \in Nat /\ DOMAIN text = 1..Len(text)
  BY DEF Text
<1>2. CASE begins = {}
  BY <1>2 DEF Block
<1>3. CASE begins # {}
  <2> DEFINE a == Min(begins)
  <2>1. a \in begins
    BY <1>1, <1>3, Least
  <2>2. text[a].kind = "begin" /\ text[a].id \in {id} \cup Longer[id]
    BY <2>1 DEF Marks
  <2>3. PICK e \in DOMAIN text : Lines(text, text[a].id, a, e)
    BY <2>1, <2>2, BlockAfter
  <2>4. e \in ends
    BY <2>2, <2>3 DEF Lines, Marks
  <2>5. Min(ends) \in ends /\ Min(ends) <= e
    BY <1>1, <2>4, Least
  <2>6. Min(ends) = e
    <3>1. Min(ends) \in (a + 1)..e /\ text[Min(ends)].kind = "end"
      BY <1>1, <2>1, <2>5 DEF Marks
    <3> QED  BY <1>1, <2>1, <2>3, <3>1 DEF Lines
  <2>7. Block(text, id) = <<a, e>>
    BY <1>3, <2>4, <2>6 DEF Block
  <2> QED  BY <2>1, <2>3, <2>7
<1> QED  BY <1>2, <1>3

-----------------------------------------------------------------------------
(* What stays where it is *)

\* An order-preserving map of the other lines of one text onto those of another that
\* takes each to an equal one shows that they are the same.
LEMMA SameByMap ==
  ASSUME NEW old \in Text, NEW new \in Text, NEW id,
         NEW g \in [Others(old, id) -> Others(new, id)],
         \A n \in Others(old, id) : new[g[n]] = old[n],
         \A m, n \in Others(old, id) : m < n => g[m] < g[n],
         \A m \in Others(new, id) : \E n \in Others(old, id) : g[n] = m
  PROVE  SameOthers(old, new, id)
<1> DEFINE P == Others(old, id)
           Q == Others(new, id)
<1>1. /\ IsFiniteSet(P) /\ IsFiniteSet(Q)
      /\ \A n \in P : n \in Nat
      /\ \A n \in Q : n \in Nat
  <2>1. /\ Len(old) \in Nat /\ P \subseteq 1..Len(old) /\ Len(new) \in Nat /\ Q \subseteq 1..Len(new)
    BY DEF Text, Others
  <2>2. IsFiniteSet(1..Len(old)) /\ IsFiniteSet(1..Len(new))
    BY <2>1, FS_Interval
  <2> QED  BY <2>1, <2>2, FS_Subset
<1>2. /\ \A m, n \in P : m < n => g[m] < g[n]
      /\ \A m \in Q : \E n \in P : g[n] = m
      /\ g \in [P -> Q] /\ \A n \in P : new[g[n]] = old[n]
  OBVIOUS
<1> HIDE DEF P, Q
<1>3. \A m, n \in P : g[m] = g[n] => m = n
  BY <1>1, <1>2
<1>4. Cardinality(P) = Cardinality(Q)
  <2>1. g \in Bijection(P, Q)
    BY <1>2, <1>3 DEF Bijection, Injection, Surjection, IsInjective
  <2> QED  BY <1>1, <2>1, FS_Bijection DEF ExistsBijection
<1>5. ASSUME NEW k \in P  PROVE Rank(Q, g[k]) = Rank(P, k)
  <2> DEFINE S == {m \in P : m < k}
             T == {m \in Q : m < g[k]}
             h == [n \in S |-> g[n]]
  <2>1. h \in Bijection(S, T)
    <3>1. h \in [S -> T]
      BY <1>2
    <3>2. \A m \in T : \E n \in S : h[n] = m
      <4>1. ASSUME NEW m \in T  PROVE \E n \in S : h[n] = m
        <5>1. PICK n \in P : g[n] = m
          BY <1>2
        <5>2. n < k
          BY <1>1, <1>2, <5>1
        <5> QED  BY <5>1, <5>2
      <4> QED  BY <4>1
    <3>3. \A m, n \in S : h[m] = h[n] => m = n
      BY <1>3
    <3> QED  BY <3>1, <3>2, <3>3 DEF Bijection, Injection, Surjection, IsInjective
  <2>2. IsFiniteSet(S)
    BY <1>1, FS_Subset
  <2> QED  BY <2>1, <2>2, FS_Bijection DEF ExistsBijection, Rank
<1>6. ASSUME NEW k \in P, NEW n \in P, k < n  PROVE Rank(P, k) # Rank(P, n)
  <2> DEFINE S == {m \in P : m < k}
             T == {m \in P : m < n}
  <2>1. S \in SUBSET T /\ k \in T /\ k \notin S
    BY <1>1, <1>6
  <2>2. IsFiniteSet(T)
    BY <1>1, FS_Subset
  <2> QED  BY <2>1, <2>2, FS_Subset DEF Rank
<1>7. ASSUME NEW n \in P, NEW m \in Q, Rank(P, n) = Rank(Q, m)  PROVE old[n] = new[m]
  <2>1. PICK k \in P : g[k] = m
    BY <1>2
  <2>2. Rank(P, k) = Rank(P, n)
    BY <1>5, <1>7, <2>1
  <2>3. k = n
    BY <1>1, <1>6, <2>2
  <2> QED  BY <1>2, <2>1, <2>3
<1> QED  BY <1>4, <1>7 DEF SameOthers, P, Q

\* What is put in the place of a block: nothing, or what is left of its last line.
Rest(text, id, e) == IF text[e].id = id THEN <<>> ELSE <<[text[e] EXCEPT !.kind = "rest"]>>

\* What is put there is text and opens or continues no block.
LEMMA RestType ==
  ASSUME NEW text \in Text, NEW id, NEW e \in DOMAIN text
  PROVE  /\ Rest(text, id, e) \in Text /\ WellFormed(Rest(text, id, e))
         /\ Len(Rest(text, id, e)) \in {0, 1}
         /\ Len(Rest(text, id, e)) = 1 => Rest(text, id, e)[1].kind = "rest"
<1> DEFINE line == [text[e] EXCEPT !.kind = "rest"]
<1>1. line \in Line /\ line.kind = "rest"
  <2>1. text[e] \in Line
    BY DEF Text
  <2>2. line = [kind |-> "rest", id |-> text[e].id, mode |-> text[e].mode]
    BY <2>1 DEF Line
  <2> QED  BY <2>1, <2>2 DEF Line
<1> HIDE DEF line
<1>2. /\ <<line>> \in Text /\ Len(<<line>>) = 1 /\ <<line>>[1] = line /\ <<>> \in Text
  BY <1>1 DEF Text
<1>3. WellFormed(<<line>>) /\ WellFormed(<<>>)
  BY <1>1, <1>2 DEF WellFormed, Opens, Continues
<1> QED  BY <1>1, <1>2, <1>3 DEF Rest, line

\* RemoveManagedBlock, in these words.
LEMMA TakenOut ==
  ASSUME NEW text, NEW id, NEW a, NEW e, Block(text, id) = <<a, e>>
  PROVE  RemoveManagedBlock(text, id) =
           (SubSeq(text, 1, a - 1) \o Rest(text, id, e)) \o SubSeq(text, e + 1, Len(text))
<1>1. <<a, e>> # <<>> /\ <<a, e>>[1] = a /\ <<a, e>>[2] = e
  OBVIOUS
<1> QED  BY <1>1 DEF RemoveManagedBlock, Rest

\* Where the lines of a text are once the block from a to e is taken out and, if d is 1,
\* the rest of its last line is in its place.
CutOut(text, new, a, e, d) ==
  /\ new \in Text /\ Len(new) = ((Len(text) - e) + d) + (a - 1)
  /\ \A n \in 1..(a - 1) : new[n] = text[n]
  /\ d = 1 => new[a].kind = "rest"
  /\ \A n \in 1..(Len(text) - e) : new[((a - 1) + d) + n] = text[e + n]

\* RemoveManagedBlock cuts the block out.
LEMMA Layout ==
  ASSUME NEW text \in Text, NEW id, NEW a \in DOMAIN text, NEW e \in DOMAIN text, a < e,
         Block(text, id) = <<a, e>>
  PROVE  CutOut(text, RemoveManagedBlock(text, id), a, e, Len(Rest(text, id, e)))
<1> DEFINE front == SubSeq(text, 1, a - 1)
           rest == Rest(text, id, e)
           rear == SubSeq(text, e + 1, Len(text))
<1>1. RemoveManagedBlock(text, id) = (front \o rest) \o rear
  BY TakenOut
<1>2. Len(text) \in Nat /\ a \in 1..Len(text) /\ e \in 1..Len(text)
  BY DEF Text
<1>3. /\ front \in Text /\ Len(front) = a - 1 /\ \A n \in 1..(a - 1) : front[n] = text[n]
  BY <1>2, FrontPart
<1>4. /\ rear \in Text /\ Len(rear) = Len(text) - e
      /\ \A n \in 1..(Len(text) - e) : rear[n] = text[e + n]
  BY <1>2, RearPart
<1>5. rest \in Text /\ Len(rest) \in {0, 1} /\ (Len(rest) = 1 => rest[1].kind = "rest")
  BY RestType
<1> HIDE DEF front, rest, rear
<1>6. /\ front \o rest \in Text /\ Len(front \o rest) = Len(front) + Len(rest)
      /\ \A n \in 1..Len(front) : (front \o rest)[n] = front[n]
      /\ \A n \in 1..Len(rest) : (front \o rest)[Len(front) + n] = rest[n]
  BY <1>3, <1>5, Joined
<1> DEFINE both == front \o rest
<1>7. /\ both \in Text /\ Len(both) = (a - 1) + Len(rest)
      /\ \A n \in 1..(a - 1) : both[n] = text[n]
      /\ Len(rest) = 1 => both[a].kind = "rest"
  <2>1. \A n \in 1..(a - 1) : both[n] = text[n]
    BY <1>3, <1>6
  <2>2. ASSUME Len(rest) = 1  PROVE both[a] = rest[1]
    <3>1. 1 \in 1..Len(rest) /\ Len(front) + 1 = a
      BY <1>2, <1>3, <2>2
    <3> QED  BY <1>6, <3>1
  <2> QED  BY <1>3, <1>5, <1>6, <2>1, <2>2
<1> HIDE DEF both
<1>8. /\ both \o rear \in Text /\ Len(both \o rear) = Len(both) + Len(rear)
      /\ \A n \in 1..Len(both) : (both \o rear)[n] = both[n]
      /\ \A n \in 1..Len(rear) : (both \o rear)[Len(both) + n] = rear[n]
  BY <1>4, <1>7, Joined
<1> DEFINE new == both \o rear
<1>9. Len(new) = ((Len(text) - e) + Len(rest)) + (a - 1)
  BY <1>2, <1>4, <1>5, <1>7, <1>8
<1>10. \A n \in 1..(a - 1) : new[n] = text[n]
  BY <1>2, <1>5, <1>7, <1>8
<1>11. Len(rest) = 1 => new[a].kind = "rest"
  <2>1. Len(rest) = 1 => a \in 1..Len(both)
    BY <1>2, <1>7
  <2> QED  BY <1>7, <1>8, <2>1
<1>12. \A n \in 1..(Len(text) - e) : new[((a - 1) + Len(rest)) + n] = text[e + n]
  BY <1>4, <1>7, <1>8
<1>13. RemoveManagedBlock(text, id) = new
  BY <1>1 DEF both
<1> HIDE DEF new
<1> QED  BY <1>8, <1>9, <1>10, <1>11, <1>12, <1>13 DEF rest, new, CutOut

\* A text without one of its blocks is whole.
LEMMA RemoveWell ==
  ASSUME NEW text \in Text, WellFormed(text), NEW id \in Ids
  PROVE  RemoveManagedBlock(text, id) \in Text /\ WellFormed(RemoveManagedBlock(text, id))
<1>1. CASE Block(text, id) = <<>>
  BY <1>1 DEF RemoveManagedBlock
<1>2. ASSUME NEW a \in DOMAIN text, NEW e \in DOMAIN text, Block(text, id) = <<a, e>>,
             Lines(text, text[a].id, a, e)
      PROVE  RemoveManagedBlock(text, id) \in Text /\ WellFormed(RemoveManagedBlock(text, id))
  <2> DEFINE front == SubSeq(text, 1, a - 1)
             rest == Rest(text, id, e)
             rear == SubSeq(text, e + 1, Len(text))
  <2>1. RemoveManagedBlock(text, id) = (front \o rest) \o rear
    BY <1>2, TakenOut
  <2>2. Len(text) \in Nat /\ a \in 1..Len(text) /\ e \in 1..Len(text)
    BY DEF Text
  <2>3. ~Continues(text[a]) /\ ~Opens(text[e])
    BY <1>2 DEF Lines, Continues, Opens
  <2>4. /\ front \in Text /\ WellFormed(front)
        /\ rest \in Text /\ WellFormed(rest)
        /\ rear \in Text /\ WellFormed(rear)
    BY <2>2, <2>3, FrontPart, FrontWell, RearPart, RearWell, RestType
  <2> HIDE DEF front, rest, rear
  <2>5. front \o rest \in Text /\ WellFormed(front \o rest)
    BY <2>4, Joined, JoinedWell
  <2>6. (front \o rest) \o rear \in Text /\ WellFormed((front \o rest) \o rear)
    BY <2>4, <2>5, Joined, JoinedWell
  <2> QED  BY <2>1, <2>6
<1> QED  BY <1>1, <1>2, BlockFound

\* Taking out a block and appending lines of its own leaves the others where they are.
LEMMA RemoveKeeps ==
  ASSUME NEW text \in Text, WellFormed(text), NEW id \in Ids, NEW tail \in Text,
         Others(tail, id) = {}
  PROVE  SameOthers(text, RemoveManagedBlock(text, id) \o tail, id)
<1> DEFINE new == RemoveManagedBlock(text, id)
           whole == new \o tail
<1>1. /\ new \in Text /\ whole \in Text /\ Len(text) \in Nat /\ Len(new) \in Nat /\ Len(tail) \in Nat
      /\ DOMAIN text = 1..Len(text) /\ DOMAIN new = 1..Len(new)
  BY RemoveWell, Joined DEF Text
<1>2. /\ Len(whole) = Len(new) + Len(tail)
      /\ \A n \in 1..Len(new) : whole[n] = new[n]
  BY <1>1, Joined
<1> HIDE DEF new
<1>3. \A m \in Others(whole, id) : m \in 1..Len(new) /\ m \in Others(new, id)
  <2>1. SUFFICES ASSUME NEW m \in Others(whole, id)  PROVE m \in 1..Len(new) /\ whole[m] = new[m]
    BY <1>1, <1>2 DEF Others, Text
  <2>2. \/ m \in DOMAIN new /\ whole[m] = new[m]
        \/ m - Len(new) \in DOMAIN tail /\ whole[m] = tail[m - Len(new)]
    BY <1>1, Joined, Zenon DEF Others, new
  <2>3. ~(m - Len(new) \in DOMAIN tail /\ whole[m] = tail[m - Len(new)])
    BY DEF Others
  <2> QED  BY <1>1, <2>2, <2>3
<1>4. \A m \in Others(new, id) : m \in 1..Len(new) /\ m \in Others(whole, id) /\ whole[m] = new[m]
  BY <1>1, <1>2 DEF Others, Text
<1> HIDE DEF whole
<1>5. CASE Block(text, id) = <<>>
  <2> DEFINE g == [n \in Others(text, id) |-> n]
  <2>1. new = text
    BY <1>5 DEF RemoveManagedBlock, new
  <2>2. g \in [Others(text, id) -> Others(whole, id)]
    BY <1>4, <2>1
  <2>3. /\ \A n \in Others(text, id) : whole[g[n]] = text[n]
        /\ \A m, n \in Others(text, id) : m < n => g[m] < g[n]
        /\ \A m \in Others(whole, id) : \E n \in Others(text, id) : g[n] = m
    BY <1>3, <1>4, <2>1
  <2> HIDE DEF g
  <2> QED  BY <1>1, <2>2, <2>3, SameByMap DEF whole, new
<1>6. ASSUME NEW a \in DOMAIN text, NEW e \in DOMAIN text, Block(text, id) = <<a, e>>,
             Marks(text[a], "begin", id), Lines(text, text[a].id, a, e)
      PROVE  SameOthers(text, whole, id)
  <2> DEFINE d == Len(Rest(text, id, e))
             g == [n \in Others(text, id) |-> IF n < a THEN n ELSE ((a - 1) + d) + (n - e)]
  <2>1. /\ a \in 1..Len(text) /\ e \in 1..Len(text) /\ a < e /\ d \in {0, 1}
    BY <1>1, <1>6, RestType DEF Lines
  <2>2. /\ Len(new) = ((Len(text) - e) + d) + (a - 1)
        /\ \A n \in 1..(a - 1) : new[n] = text[n]
        /\ d = 1 => new[a].kind = "rest"
        /\ \A n \in 1..(Len(text) - e) : new[((a - 1) + d) + n] = text[e + n]
    <3>1. CutOut(text, new, a, e, d)
      BY <1>6, <2>1, Layout DEF new
    <3> HIDE DEF d
    <3> QED  BY <3>1 DEF CutOut
  <2> HIDE DEF d
  <2>3. \A n \in Others(text, id) : n \in 1..Len(text) /\ (n < a \/ n > e)
    <3>1. ASSUME NEW n \in Others(text, id), n \in a..e  PROVE FALSE
      <4>1. text[n].id = text[a].id /\ text[n].kind \in {"begin", "server", "end"}
        BY <1>6, <2>1, <3>1 DEF Lines
      <4>2. text[n].id \in {id} \cup Longer[id]
        BY <1>6, <4>1 DEF Marks
      <4> QED  BY <3>1, <4>1, <4>2 DEF Others
    <3> QED  BY <1>1, <2>1, <3>1 DEF Others
  <2>4. ASSUME NEW n \in Others(text, id)
        PROVE  g[n] \in 1..Len(new) /\ new[g[n]] = text[n]
    <3>1. CASE n < a
      BY <1>1, <2>1, <2>2, <2>3, <3>1
    <3>2. CASE n > e
      <4>1. n - e \in 1..(Len(text) - e) /\ e + (n - e) = n
        BY <1>1, <2>1, <2>3, <3>2
      <4>2. g[n] = ((a - 1) + d) + (n - e)
        BY <2>1, <2>3, <3>2
      <4> QED  BY <1>1, <2>1, <2>2, <4>1, <4>2
    <3> QED  BY <2>3, <3>1, <3>2
  <2>5. \A n \in Others(text, id) : g[n] \in Others(whole, id) /\ whole[g[n]] = text[n]
    <3>1. ASSUME NEW n \in Others(text, id)  PROVE g[n] \in Others(new, id)
      BY <1>1, <2>4, <3>1 DEF Others
    <3> QED  BY <1>4, <2>4, <3>1
  <2>6. g \in [Others(text, id) -> Others(whole, id)]
    BY <2>5
  <2>7. \A m, n \in Others(text, id) : m < n => g[m] < g[n]
    BY <1>1, <2>1, <2>3
  <2>8. ASSUME NEW m \in Others(whole, id)  PROVE \E n \in Others(text, id) : g[n] = m
    <3>1. m \in 1..Len(new) /\ m \in Others(new, id)
      BY <1>3
    <3>2. CASE m < a
      <4>1. m \in 1..Len(text) /\ new[m] = text[m]
        BY <1>1, <2>1, <2>2, <3>1, <3>2
      <4>2. m \in Others(text, id)
        BY <1>1, <3>1, <4>1 DEF Others
      <4> QED  BY <3>2, <4>2
    <3>3. CASE m > (a - 1) + d
      <4> DEFINE k == (m - (a - 1)) - d
      <4>1. k \in 1..(Len(text) - e) /\ m = ((a - 1) + d) + k /\ e + k \in 1..Len(text) /\ e + k > e
        <5>1. m \in Int /\ a \in Int /\ e \in Int /\ d \in Int /\ m <= Len(new) /\ m > (a - 1) + d
          BY <1>1, <2>1, <3>1, <3>3
        <5>2. Len(new) = ((Len(text) - e) + d) + (a - 1) /\ Len(text) \in Int /\ Len(new) \in Int /\ e >= 1
          BY <1>1, <2>1, <2>2
        <5>3. k \in Int
          BY <5>1, <5>2
        <5>4. k >= 1
          BY <5>1, <5>2
        <5>5. k <= Len(text) - e
          BY <5>1, <5>2
        <5>6. m = ((a - 1) + d) + k
          BY <5>1, <5>2
        <5> HIDE DEF k
        <5> QED  BY <5>1, <5>2, <5>3, <5>4, <5>5, <5>6
      <4> HIDE DEF k
      <4>2. e + k \in Others(text, id)
        BY <1>1, <2>2, <3>1, <4>1 DEF Others
      <4>3. g[e + k] = m
        BY <2>1, <4>1, <4>2
      <4> QED  BY <4>2, <4>3
    <3>4. ~(d = 1 /\ m = a)
      BY <2>2, <3>1 DEF Others
    <3> QED  BY <1>1, <2>1, <3>1, <3>2, <3>3, <3>4
  <2> HIDE DEF g
  <2> QED  BY <1>1, <2>5, <2>6, <2>7, <2>8, SameByMap DEF whole, new
<1> QED  BY <1>5, <1>6, BlockFound DEF whole, new

-----------------------------------------------------------------------------
(* What is registered *)

\* Where a marker or section of the new text was in the old one.
LEMMA Origin ==
  ASSUME NEW text \in Text, WellFormed(text), NEW id \in Ids
  PROVE  \E h : \A k \in DOMAIN RemoveManagedBlock(text, id) : Opens(RemoveManagedBlock(text, id)[k]) =>
           /\ h[k] \in DOMAIN text /\ text[h[k]] = RemoveManagedBlock(text, id)[k]
           /\ \A l \in DOMAIN RemoveManagedBlock(text, id) :
                (Opens(RemoveManagedBlock(text, id)[l]) /\ h[k] = h[l]) => k = l
           /\ Block(text, id) # <<>> => h[k] < Block(text, id)[1] \/ h[k] > Block(text, id)[2]
<1> DEFINE new == RemoveManagedBlock(text, id)
<1>1. new \in Text /\ Len(text) \in Nat /\ Len(new) \in Nat /\ DOMAIN text = 1..Len(text) /\ DOMAIN new = 1..Len(new)
  BY RemoveWell DEF Text
<1>2. CASE Block(text, id) = <<>>
  <2> DEFINE h == [k \in DOMAIN new |-> k]
  <2>1. new = text
    BY <1>2 DEF RemoveManagedBlock
  <2>2. \A k \in DOMAIN new : h[k] = k
    OBVIOUS
  <2> HIDE DEF h, new
  <2> WITNESS h
  <2> QED  BY <1>1, <1>2, <2>1, <2>2 DEF new
<1>3. ASSUME NEW a \in DOMAIN text, NEW e \in DOMAIN text, Block(text, id) = <<a, e>>,
             Lines(text, text[a].id, a, e)
      PROVE  \E h : \A k \in DOMAIN new : Opens(new[k]) =>
               /\ h[k] \in DOMAIN text /\ text[h[k]] = new[k]
               /\ \A l \in DOMAIN new : (Opens(new[l]) /\ h[k] = h[l]) => k = l
               /\ Block(text, id) # <<>> => h[k] < Block(text, id)[1] \/ h[k] > Block(text, id)[2]
  <2> DEFINE d == Len(Rest(text, id, e))
             h == [k \in DOMAIN new |-> IF k < a THEN k ELSE ((k - (a - 1)) - d) + e]
  <2>1. /\ a \in 1..Len(text) /\ e \in 1..Len(text) /\ a < e /\ d \in {0, 1}
    BY <1>1, <1>3, RestType DEF Lines
  <2>2. CutOut(text, new, a, e, d)
    BY <1>3, <2>1, Layout
  <2>3. \A k \in DOMAIN new : h[k] = IF k < a THEN k ELSE ((k - (a - 1)) - d) + e
    OBVIOUS
  <2> HIDE DEF d, h, new
  <2>4. ASSUME NEW k \in DOMAIN new, Opens(new[k])
        PROVE  /\ h[k] \in DOMAIN text /\ text[h[k]] = new[k]
               /\ IF k < a THEN h[k] = k ELSE h[k] = ((k - (a - 1)) - d) + e /\ h[k] > e
    <3>1. CASE k < a
      <4>1. h[k] = k
        BY <2>3, <3>1
      <4>2. k \in 1..(a - 1) /\ k \in 1..Len(text)
        BY <1>1, <2>1, <3>1
      <4>3. new[k] = text[k]
        BY <2>2, <4>2 DEF CutOut
      <4>4. k \in DOMAIN text
        BY <1>1, <4>2
      <4> QED  BY <3>1, <4>1, <4>3, <4>4
    <3>2. CASE k >= a
      <4>1. k # a \/ d # 1
        BY <2>2, <2>4 DEF CutOut, Opens
      <4>2. /\ Len(new) = ((Len(text) - e) + d) + (a - 1)
            /\ \A n \in 1..(Len(text) - e) : new[((a - 1) + d) + n] = text[e + n]
        BY <2>2 DEF CutOut
      <4> DEFINE n == (k - (a - 1)) - d
      <4>3. k \in Int /\ k <= Len(new) /\ a \in Int /\ e \in Int /\ d \in Int
        BY <1>1, <2>1
      <4>4. n \in Int /\ n >= 1
        BY <2>1, <3>2, <4>1, <4>3
      <4>5. n <= Len(text) - e
        BY <1>1, <4>2, <4>3
      <4>6. ((a - 1) + d) + n = k /\ h[k] = e + n
        BY <2>3, <3>2, <4>3, <4>4
      <4> HIDE DEF n
      <4>7. e + n \in 1..Len(text) /\ n \in 1..(Len(text) - e)
        BY <1>1, <2>1, <4>4, <4>5
      <4>8. text[h[k]] = new[k]
        BY <4>2, <4>6, <4>7
      <4>9. h[k] = ((k - (a - 1)) - d) + e
        BY <2>3, <3>2, <4>3
      <4> QED  BY <1>1, <3>2, <4>3, <4>4, <4>6, <4>7, <4>8, <4>9
    <3> QED  BY <1>1, <2>1, <3>1, <3>2
  <2>5. ASSUME NEW k \in DOMAIN new, NEW l \in DOMAIN new, Opens(new[k]), Opens(new[l]), h[k] = h[l]
        PROVE  k = l
    <3>1. k \in Int /\ l \in Int /\ a \in Int /\ e \in Int /\ d \in Int /\ a < e
      BY <1>1, <2>1
    <3>2. /\ IF k < a THEN h[k] = k ELSE h[k] = ((k - (a - 1)) - d) + e /\ h[k] > e
          /\ IF l < a THEN h[l] = l ELSE h[l] = ((l - (a - 1)) - d) + e /\ h[l] > e
      BY <2>4, <2>5
    <3> QED  BY <2>5, <3>1, <3>2
  <2>6. ASSUME NEW k \in DOMAIN new, Opens(new[k])  PROVE h[k] < a \/ h[k] > e
    BY <1>1, <2>1, <2>4, <2>6
  <2>7. Block(text, id)[1] = a /\ Block(text, id)[2] = e
    BY <1>3
  <2> QED  BY <2>4, <2>5, <2>6, <2>7
<1>4. \E h : \A k \in DOMAIN new : Opens(new[k]) =>
        /\ h[k] \in DOMAIN text /\ text[h[k]] = new[k]
        /\ \A l \in DOMAIN new : (Opens(new[l]) /\ h[k] = h[l]) => k = l
        /\ Block(text, id) # <<>> => h[k] < Block(text, id)[1] \/ h[k] > Block(text, id)[2]
  BY <1>2, <1>3, BlockFound
<1> QED  BY <1>4

\* A text of one block each keeps that, and its sections, when a block is taken out; and
\* nothing of the profile is left unless the block of a longer id was taken for its own.
LEMMA RemoveServed ==
  ASSUME NEW text \in Text, WellFormed(text), NEW id \in Ids
  PROVE  /\ OneBlockEach(text) => OneBlockEach(RemoveManagedBlock(text, id))
         /\ \A i : Registered(RemoveManagedBlock(text, id), i) => Registered(text, i)
         /\ \A i : AsWanted(text, i) => AsWanted(RemoveManagedBlock(text, id), i)
<1> DEFINE new == RemoveManagedBlock(text, id)
<1>1. PICK h : \A k \in DOMAIN new : Opens(new[k]) =>
        /\ h[k] \in DOMAIN text /\ text[h[k]] = new[k]
        /\ \A l \in DOMAIN new : (Opens(new[l]) /\ h[k] = h[l]) => k = l
  BY Origin
<1> HIDE DEF new
<1>2. ASSUME OneBlockEach(text), NEW m \in DOMAIN new, NEW n \in DOMAIN new,
             new[m].kind = "begin", new[n].kind = "begin", new[m].id = new[n].id
      PROVE  m = n
  <2>1. Opens(new[m]) /\ Opens(new[n])
    BY <1>2 DEF Opens
  <2>2. h[m] = h[n]
    BY <1>1, <1>2, <2>1 DEF OneBlockEach
  <2> QED  BY <1>1, <2>1, <2>2
<1>3. ASSUME NEW n \in DOMAIN new, new[n].kind = "server"
      PROVE  h[n] \in DOMAIN text /\ text[h[n]] = new[n]
  BY <1>1, <1>3 DEF Opens
<1> QED  BY <1>2, <1>3 DEF OneBlockEach, Registered, AsWanted, new

\* With one block of the id and none in the way, none of it is left.
LEMMA RemoveDeregisters ==
  ASSUME NEW text \in Text, WellFormed(text), NEW id \in Ids, OneBlockEach(text), ~InTheWay(text, id)
  PROVE  LET new == RemoveManagedBlock(text, id) IN
         /\ \A n \in DOMAIN new : ~(new[n].kind = "begin" /\ new[n].id = id)
         /\ ~Registered(new, id)
<1> DEFINE new == RemoveManagedBlock(text, id)
<1>1. new \in Text /\ WellFormed(new)
  BY RemoveWell
<1>2. ASSUME NEW k \in DOMAIN new, new[k].kind = "begin", new[k].id = id  PROVE FALSE
  <2>1. PICK h : \A n \in DOMAIN new : Opens(new[n]) =>
          /\ h[n] \in DOMAIN text /\ text[h[n]] = new[n]
          /\ Block(text, id) # <<>> => h[n] < Block(text, id)[1] \/ h[n] > Block(text, id)[2]
    BY Origin
  <2>2. h[k] \in DOMAIN text /\ text[h[k]].kind = "begin" /\ text[h[k]].id = id
        /\ (Block(text, id) # <<>> => h[k] < Block(text, id)[1] \/ h[k] > Block(text, id)[2])
    BY <1>2, <2>1 DEF Opens
  <2> HIDE DEF new
  <2>3. CASE Block(text, id) = <<>> /\ \A n \in DOMAIN text : ~Marks(text[n], "begin", id)
    BY <2>2, <2>3 DEF Marks
  <2>4. ASSUME NEW a \in DOMAIN text, NEW e \in DOMAIN text, Block(text, id) = <<a, e>>,
               Marks(text[a], "begin", id), Lines(text, text[a].id, a, e)
        PROVE  FALSE
    <3>1. text[a].kind = "begin" /\ text[a].id = id
      BY <2>4 DEF Marks, InTheWay
    <3>2. h[k] = a
      BY <2>2, <3>1 DEF OneBlockEach
    <3>3. <<a, e>> # <<>> /\ <<a, e>>[1] = a /\ <<a, e>>[2] = e /\ a < e /\ a \in Int /\ e \in Int
      BY <2>4 DEF Lines, Text
    <3> QED  BY <2>2, <2>4, <3>2, <3>3
  <2> QED  BY <2>3, <2>4, BlockFound
<1>3. ~Registered(new, id)
  BY <1>1, <1>2, BlockBefore DEF Registered
<1> QED  BY <1>2, <1>3

\* Without a block that is found there is nothing of the profile.
LEMMA NoBlock ==
  ASSUME NEW text \in Text, WellFormed(text), NEW id \in Ids, Block(text, id) = <<>>
  PROVE  ~Registered(text, id)
<1>1. ASSUME NEW a \in DOMAIN text, NEW e \in DOMAIN text, Block(text, id) = <<a, e>>  PROVE FALSE
  BY <1>1
<1>2. \A n \in DOMAIN text : ~Marks(text[n], "begin", id)
  BY <1>1, BlockFound
<1> QED  BY <1>2, BlockBefore DEF Registered, Marks

\* What is registered in a joined text was so in one of its parts.
LEMMA JoinedServed ==
  ASSUME NEW s \in Text, NEW t \in Text
  PROVE  /\ \A i : Registered(s \o t, i) => Registered(s, i) \/ Registered(t, i)
         /\ \A i : (AsWanted(s, i) /\ AsWanted(t, i)) => AsWanted(s \o t, i)
         /\ (/\ OneBlockEach(s) /\ OneBlockEach(t)
             /\ \A m \in DOMAIN s, n \in DOMAIN t :
                  ~(s[m].kind = "begin" /\ t[n].kind = "begin" /\ s[m].id = t[n].id)) => OneBlockEach(s \o t)
<1> DEFINE u == s \o t
<1>1. \A n \in DOMAIN u : (n \in DOMAIN s /\ u[n] = s[n]) \/ (n - Len(s) \in DOMAIN t /\ u[n] = t[n - Len(s)])
  BY Joined, Zenon
<1>2. u \in Text /\ Len(s) \in Nat /\ \A n \in DOMAIN u : n \in Int
  BY Joined DEF Text
<1> HIDE DEF u
<1>3. ASSUME OneBlockEach(s), OneBlockEach(t),
             \A m \in DOMAIN s, n \in DOMAIN t :
               ~(s[m].kind = "begin" /\ t[n].kind = "begin" /\ s[m].id = t[n].id),
             NEW m \in DOMAIN u, NEW n \in DOMAIN u,
             u[m].kind = "begin" /\ u[n].kind = "begin" /\ u[m].id = u[n].id
      PROVE  m = n
  <2>1. CASE m - Len(s) \in DOMAIN t /\ u[m] = t[m - Len(s)] /\ n - Len(s) \in DOMAIN t /\ u[n] = t[n - Len(s)]
    <3>1. m - Len(s) = n - Len(s)
      BY <1>3, <2>1 DEF OneBlockEach
    <3> QED  BY <1>2, <3>1
  <2> QED  BY <1>1, <1>3, <2>1 DEF OneBlockEach
<1> QED  BY <1>1, <1>3 DEF Registered, AsWanted, OneBlockEach, u

-----------------------------------------------------------------------------
(* What setup writes and what the user edits *)

\* Text that is neither a marker nor a section of ours.
Plain(l) == l.kind \notin {"begin", "server", "end"}

\* A line is a text.
LEMMA LineText ==
  ASSUME NEW l \in Line
  PROVE  /\ <<l>> \in Text /\ Len(<<l>>) = 1 /\ DOMAIN <<l>> = {1} /\ <<l>>[1] = l
BY DEF Text

\* The block rendered for a profile: whole, one, its own, and of the modes it asks for.
LEMMA Rendered ==
  ASSUME NEW id \in Ids, NEW value
  PROVE  LET block == RenderCodexBlock(id, value) IN
         /\ block \in Text /\ WellFormed(block) /\ OneBlockEach(block)
         /\ Others(block, id) = {}
         /\ \A n \in DOMAIN block : block[n].id = id
         /\ \A n \in DOMAIN block : block[n].kind = "server" => block[n].mode \in Wants(value)
<1> DEFINE begin == [kind |-> "begin", id |-> id, mode |-> "db"]
           end == [kind |-> "end", id |-> id, mode |-> "db"]
           section(mode) == IF mode \in Wants(value)
                              THEN <<[kind |-> "server", id |-> id, mode |-> mode]>> ELSE <<>>
           head == <<begin>> \o section("db")
           body == head \o section("edt")
           block == body \o <<end>>
           Ours(t) == \A n \in DOMAIN t : t[n].kind = "server" /\ t[n].id = id /\ t[n].mode \in Wants(value)
<1>1. begin \in Line /\ end \in Line /\ begin.kind = "begin" /\ end.kind = "end" /\ begin.id = id /\ end.id = id
  BY DEF Line, Modes
<1>2. ASSUME NEW mode \in Modes
      PROVE  /\ section(mode) \in Text /\ Len(section(mode)) \in Nat /\ Ours(section(mode))
  <2> DEFINE line == [kind |-> "server", id |-> id, mode |-> mode]
  <2>1. line \in Line /\ line.kind = "server" /\ line.id = id /\ line.mode = mode
    BY DEF Line
  <2> HIDE DEF line
  <2>2. <<line>> \in Text /\ Len(<<line>>) = 1 /\ DOMAIN <<line>> = {1} /\ <<line>>[1] = line
    BY <2>1, LineText
  <2>3. <<>> \in Text /\ Len(<<>>) = 0 /\ DOMAIN <<>> = {}
    BY DEF Text
  <2> QED  BY <2>1, <2>2, <2>3 DEF line
<1>3. RenderCodexBlock(id, value) = block
  BY DEF RenderCodexBlock
<1> DEFINE db == section("db")
           edt == section("edt")
<1>4. db \in Text /\ Len(db) \in Nat /\ Ours(db) /\ edt \in Text /\ Len(edt) \in Nat /\ Ours(edt)
  BY <1>2 DEF Modes
<1> HIDE DEF db, edt, begin, end
<1>5. <<begin>> \in Text /\ Len(<<begin>>) = 1 /\ <<begin>>[1] = begin
      /\ <<end>> \in Text /\ Len(<<end>>) = 1 /\ <<end>>[1] = end
  BY <1>1, LineText
<1> DEFINE first == <<begin>> \o db
           most == first \o edt
           all == most \o <<end>>
<1>6. /\ first \in Text /\ Len(first) \in Nat /\ Len(first) >= 1
      /\ first[1] = begin
      /\ \A n \in 2..Len(first) : first[n].kind = "server" /\ first[n].id = id /\ first[n].mode \in Wants(value)
  <2>1. /\ first \in Text /\ Len(first) = 1 + Len(db) /\ first[1] = begin
        /\ \A n \in 1..Len(db) : first[1 + n] = db[n]
    BY <1>4, <1>5, Joined
  <2>2. ASSUME NEW n \in 2..Len(first)  PROVE n - 1 \in DOMAIN db /\ first[n] = db[n - 1]
    <3>1. n - 1 \in 1..Len(db) /\ 1 + (n - 1) = n
      BY <1>4, <2>1
    <3> QED  BY <1>4, <2>1, <3>1 DEF Text
  <2> QED  BY <1>4, <2>1, <2>2
<1> HIDE DEF first
<1>7. /\ most \in Text /\ Len(most) \in Nat /\ Len(most) >= 1
      /\ most[1] = begin
      /\ \A n \in 2..Len(most) : most[n].kind = "server" /\ most[n].id = id /\ most[n].mode \in Wants(value)
  <2>1. /\ most \in Text /\ Len(most) = Len(first) + Len(edt)
        /\ \A n \in 1..Len(first) : most[n] = first[n]
        /\ \A n \in 1..Len(edt) : most[Len(first) + n] = edt[n]
    BY <1>4, <1>6, Joined
  <2>2. ASSUME NEW n \in 2..Len(most), n > Len(first)
        PROVE  n - Len(first) \in DOMAIN edt /\ most[n] = edt[n - Len(first)]
    <3>1. n - Len(first) \in 1..Len(edt) /\ Len(first) + (n - Len(first)) = n
      BY <1>4, <1>6, <2>1, <2>2
    <3> QED  BY <1>4, <2>1, <3>1 DEF Text
  <2>3. ASSUME NEW n \in 2..Len(most), n <= Len(first)
        PROVE  n \in 2..Len(first) /\ most[n] = first[n]
    BY <1>6, <2>1, <2>3
  <2>4. most[1] = first[1] /\ Len(most) \in Nat /\ Len(most) >= 1
    BY <1>4, <1>6, <2>1
  <2>5. ASSUME NEW n \in 2..Len(most)
        PROVE  most[n].kind = "server" /\ most[n].id = id /\ most[n].mode \in Wants(value)
    <3>1. n <= Len(first) \/ n > Len(first)
      BY <1>6
    <3> QED  BY <1>4, <1>6, <2>2, <2>3, <3>1
  <2> QED  BY <1>6, <2>1, <2>4, <2>5
<1> HIDE DEF most
<1>8. /\ all \in Text /\ Len(all) = Len(most) + 1 /\ DOMAIN all = 1..Len(all)
      /\ all[1] = begin /\ all[Len(all)] = end
      /\ \A n \in 2..(Len(all) - 1) : all[n].kind = "server" /\ all[n].id = id /\ all[n].mode \in Wants(value)
  <2>1. /\ all \in Text /\ Len(all) = Len(most) + 1
        /\ \A n \in 1..Len(most) : all[n] = most[n]
        /\ all[Len(most) + 1] = end
    BY <1>5, <1>7, Joined
  <2> QED  BY <1>7, <2>1 DEF Text
<1>9. RenderCodexBlock(id, value) = all
  BY <1>3 DEF first, most, db, edt, begin, end
<1> HIDE DEF all, block
<1>10. \A n \in DOMAIN all : /\ all[n].id = id
                            /\ all[n].kind = IF n = 1 THEN "begin" ELSE IF n = Len(all) THEN "end" ELSE "server"
  <2>1. ASSUME NEW n \in DOMAIN all  PROVE n = 1 \/ n = Len(all) \/ n \in 2..(Len(all) - 1)
    BY <1>7, <1>8
  <2>2. Len(all) # 1
    BY <1>7, <1>8
  <2> QED  BY <1>1, <1>7, <1>8, <2>1, <2>2
<1>11. WellFormed(all)
  <2>1. Len(all) \in Nat /\ Len(all) >= 2
    BY <1>7, <1>8
  <2> QED  BY <1>8, <1>10, <2>1 DEF WellFormed, Opens, Continues
<1>12. OneBlockEach(all) /\ Others(all, id) = {}
  BY <1>10 DEF OneBlockEach, Others
<1>13. \A n \in DOMAIN all : all[n].kind = "server" => all[n].mode \in Wants(value)
  <2>1. ASSUME NEW n \in DOMAIN all, all[n].kind = "server"  PROVE n \in 2..(Len(all) - 1)
    BY <1>7, <1>8, <1>10, <2>1
  <2> QED  BY <1>8, <2>1
<1> QED  BY <1>8, <1>9, <1>10, <1>11, <1>12, <1>13

\* Taking out a line that is of no block keeps the blocks,
LEMMA EditedOut ==
  ASSUME NEW text \in Text, WellFormed(text), NEW n \in DOMAIN text, Plain(text[n])
  PROVE  /\ RemoveAt(text, n) \in Text /\ WellFormed(RemoveAt(text, n))
         /\ OneBlockEach(text) => OneBlockEach(RemoveAt(text, n))
         /\ \A i : Registered(RemoveAt(text, n), i) => Registered(text, i)
         /\ \A i : AsWanted(text, i) => AsWanted(RemoveAt(text, n), i)
<1> DEFINE front == SubSeq(text, 1, n - 1)
           rear == SubSeq(text, n + 1, Len(text))
           new == front \o rear
<1>1. Len(text) \in Nat /\ n \in 1..Len(text)
  BY DEF Text
<1>2. /\ front \in Text /\ Len(front) = n - 1 /\ \A k \in 1..(n - 1) : front[k] = text[k]
      /\ rear \in Text /\ Len(rear) = Len(text) - n
      /\ \A k \in 1..(Len(text) - n) : rear[k] = text[n + k]
  BY <1>1, FrontPart, RearPart
<1>3. WellFormed(front) /\ WellFormed(rear)
  BY <1>1, FrontWell, RearWell DEF Plain, Opens, Continues
<1> HIDE DEF front, rear
<1>4. new \in Text /\ WellFormed(new)
  BY <1>2, <1>3, Joined, JoinedWell
<1>5. /\ Len(new) = Len(text) - 1
      /\ \A k \in 1..(n - 1) : new[k] = text[k]
      /\ \A k \in 1..(Len(text) - n) : new[(n - 1) + k] = text[n + k]
  <2>1. /\ Len(new) = Len(front) + Len(rear)
        /\ \A k \in 1..Len(front) : new[k] = front[k]
        /\ \A k \in 1..Len(rear) : new[Len(front) + k] = rear[k]
    BY <1>2, Joined
  <2>2. Len(new) = Len(text) - 1
    BY <1>1, <1>2, <2>1
  <2>3. \A k \in 1..(n - 1) : new[k] = text[k]
    BY <1>2, <2>1
  <2>4. \A k \in 1..(Len(text) - n) : new[(n - 1) + k] = text[n + k]
    BY <1>2, <2>1
  <2> QED  BY <2>2, <2>3, <2>4
<1>6. RemoveAt(text, n) = new
  BY DEF RemoveAt, front, rear
<1>7. DOMAIN new = 1..(Len(text) - 1) /\ DOMAIN text = 1..Len(text)
  BY <1>4, <1>5 DEF Text
<1> HIDE DEF new
<1>8. ASSUME NEW k \in DOMAIN new
      PROVE  /\ IF k < n THEN k \in DOMAIN text /\ new[k] = text[k]
                ELSE k + 1 \in DOMAIN text /\ new[k] = text[k + 1]
  <2>1. CASE k < n
    BY <1>1, <1>5, <1>7, <2>1
  <2>2. CASE k >= n
    <3>1. k - (n - 1) \in 1..(Len(text) - n) /\ (n - 1) + (k - (n - 1)) = k /\ n + (k - (n - 1)) = k + 1
      BY <1>1, <1>7, <2>2
    <3>2. new[k] = text[k + 1]
      BY <1>5, <3>1
    <3> QED  BY <1>1, <1>7, <2>2, <3>2
  <2> QED  BY <1>1, <1>7, <2>1, <2>2
<1>9. \A k \in DOMAIN new : \E m \in DOMAIN text : new[k] = text[m]
  BY <1>8
<1>10. ASSUME OneBlockEach(text)  PROVE OneBlockEach(new)
  <2>1. SUFFICES ASSUME NEW k \in DOMAIN new, NEW m \in DOMAIN new,
                        new[k].kind = "begin", new[m].kind = "begin", new[k].id = new[m].id
                 PROVE  k = m
    BY DEF OneBlockEach
  <2>2. k \in Int /\ m \in Int /\ n \in Int
    BY <1>1, <1>7
  <2>3. /\ (k < n /\ m < n) => k = m
        /\ (k < n /\ ~(m < n)) => k = m + 1
        /\ (~(k < n) /\ m < n) => k + 1 = m
        /\ (~(k < n) /\ ~(m < n)) => k + 1 = m + 1
    BY <1>8, <1>10, <2>1 DEF OneBlockEach
  <2> QED  BY <2>2, <2>3
<1> QED  BY <1>4, <1>6, <1>9, <1>10 DEF Registered, AsWanted

\* and so does appending one.
LEMMA EditedIn ==
  ASSUME NEW text \in Text, WellFormed(text), NEW l \in Line, Plain(l)
  PROVE  /\ Append(text, l) \in Text /\ WellFormed(Append(text, l))
         /\ OneBlockEach(text) => OneBlockEach(Append(text, l))
         /\ \A i : Registered(Append(text, l), i) => Registered(text, i)
         /\ \A i : AsWanted(text, i) => AsWanted(Append(text, l), i)
<1> DEFINE last == <<l>>
<1>1. last \in Text /\ Len(last) = 1 /\ DOMAIN last = {1} /\ last[1] = l
  BY LineText
<1>2. Append(text, l) = text \o last
  BY AppendIsConcat DEF Text
<1> HIDE DEF last
<1>3. /\ WellFormed(last) /\ OneBlockEach(last)
      /\ \A i : ~Registered(last, i) /\ AsWanted(last, i)
      /\ \A n \in DOMAIN last : last[n].kind # "begin"
  BY <1>1 DEF WellFormed, OneBlockEach, Registered, AsWanted, Plain, Opens, Continues
<1>4. text \o last \in Text /\ WellFormed(text \o last)
  BY <1>1, <1>3, Joined, JoinedWell
<1>5. OneBlockEach(text) => OneBlockEach(text \o last)
  BY <1>1, <1>3, JoinedServed
<1>6. /\ \A i : Registered(text \o last, i) => Registered(text, i)
      /\ \A i : AsWanted(text, i) => AsWanted(text \o last, i)
  BY <1>1, <1>3, JoinedServed
<1> QED  BY <1>2, <1>4, <1>5, <1>6

-----------------------------------------------------------------------------
(* Types *)

Saved == (SUBSET (Fields \ {"unusable"})) \cup {NoProfile}

SetupJob == [id : Ids, value : SUBSET Fields, register : BOOLEAN]
RemoveJob == [id : Ids, exact : BOOLEAN]
RewriteJob == [id : Ids, read : Text, write : Text]
NoteJob == [key : Keys, read : [Keys -> 0..MaxCalls], put : 0..MaxCalls]

Stages == {"idle", "save", "register", "write", "deregister", "rewrite", "forget", "note"}

Causes == {"overlap", "unregistered", "longer", "capitals", "refused"}

JobFits(c) ==
  /\ doing[c] = "idle" => job[c] = NoJob
  /\ doing[c] \in {"save", "register"} => job[c] \in SetupJob
  /\ doing[c] = "deregister" => job[c] \in RemoveJob
  /\ doing[c] \in {"write", "rewrite"} => job[c] \in RewriteJob
  /\ doing[c] = "forget" => job[c] \in RemoveJob \cup RewriteJob
  /\ doing[c] = "note" => job[c] \in NoteJob

FilesType == store \in [Ids -> Saved] /\ codex \in Text /\ notes \in [Keys -> 0..MaxCalls]

CallsType ==
  /\ doing \in [Calls -> Stages]
  /\ job \in [Calls -> {NoJob} \cup SetupJob \cup RemoveJob \cup RewriteJob \cup NoteJob]
  /\ \A c \in Calls : JobFits(c)

CountsType == calls \in 0..MaxCalls /\ edits \in 0..MaxEdits /\ upset \subseteq Causes

TypeInv == FilesType /\ CallsType /\ CountsType

\* What setup completes is a set of fields.
LEMMA FlagsType ==
  ASSUME NEW flags \in Flags, NEW found \in BOOLEAN
  PROVE  flags \in SUBSET Fields /\ Completed(flags, found) \in SUBSET Fields
BY ProfilesAssumption DEF Completed, Fields

\* A call that goes on with work that fits keeps the types of the calls.
LEMMA CallTypes ==
  ASSUME CallsType, NEW c \in Calls, NEW place \in Stages, Goto(c, place),
         NEW work, job' = [job EXCEPT ![c] = work],
         \/ place = "idle" /\ work = NoJob
         \/ place \in {"save", "register"} /\ work \in SetupJob
         \/ place = "deregister" /\ work \in RemoveJob
         \/ place \in {"write", "rewrite"} /\ work \in RewriteJob
         \/ place = "forget" /\ work \in RemoveJob \cup RewriteJob
         \/ place = "note" /\ work \in NoteJob
  PROVE  CallsType'
<1>1. /\ doing' \in [Calls -> Stages] /\ doing'[c] = place /\ job'[c] = work
      /\ \A d \in Calls \ {c} : doing'[d] = doing[d] /\ job'[d] = job[d]
  BY DEF CallsType, Goto
<1>2. job' \in [Calls -> {NoJob} \cup SetupJob \cup RemoveJob \cup RewriteJob \cup NoteJob]
  BY DEF CallsType
<1>3. JobFits(c)'
  BY <1>1 DEF JobFits
<1>4. \A d \in Calls \ {c} : JobFits(d)'
  BY <1>1 DEF CallsType, JobFits
<1> QED  BY <1>1, <1>2, <1>3, <1>4 DEF CallsType

\* config.toml is a text of lines at the start,
LEMMA StartIsText == StartText \in Text
<1>1. [kind : {"own", "text"}, id : Ids, mode : Modes] \subseteq Line
  BY DEF Line
<1> QED  BY <1>1, ProfilesAssumption, SeqMonotonic DEF Text

\* The types hold at the start.
LEMMA TypeInit == ProfilesInit => TypeInv
<1> SUFFICES ASSUME ProfilesInit  PROVE TypeInv
  OBVIOUS
<1>1. FilesType
  BY StartIsText, ProfilesAssumption DEF ProfilesInit, FilesType, Saved
<1>2. CallsType
  BY DEF ProfilesInit, CallsType, JobFits, Stages
<1>3. CountsType
  BY ProfilesAssumption DEF ProfilesInit, CountsType
<1> QED  BY <1>1, <1>2, <1>3 DEF TypeInv

\* Every step keeps the types.
LEMMA TypeStep ==
  ASSUME TypeInv, WellFormed(codex), [ProfilesNext]_profilesVars
  PROVE  TypeInv'
<1>a. NoProfile \in Saved
  BY DEF Saved
<1>b. /\ {"overlap"} \subseteq Causes /\ {} \subseteq Causes
      /\ {"unregistered"} \subseteq Causes /\ {"longer"} \subseteq Causes
      /\ {"capitals"} \subseteq Causes /\ {"refused"} \subseteq Causes
  BY DEF Causes
<1>c. Overlap \subseteq Causes
  BY <1>b DEF Overlap
<1>1. ASSUME NEW c \in Calls, SetupStart(c)  PROVE TypeInv'
  <2>1. PICK id \in Ids, flags \in Flags, found \in Bridges, register \in BOOLEAN :
          Begin(c, "save", [id |-> id, value |-> Completed(flags, found), register |-> register])
    BY <1>1 DEF SetupStart
  <2>2. [id |-> id, value |-> Completed(flags, found), register |-> register] \in SetupJob
    BY FlagsType, ProfilesAssumption DEF SetupJob
  <2>3. CallsType'
    BY <2>1, <2>2, CallTypes DEF TypeInv, Begin, Stages
  <2>4. CountsType'
    BY <1>c, <1>1, <2>1, ProfilesAssumption DEF TypeInv, CountsType, SetupStart, Begin, Upset
  <2> QED  BY <2>1, <2>3, <2>4 DEF TypeInv, FilesType, Begin, files
<1>2. ASSUME NEW c \in Calls, SetupSave(c)  PROVE TypeInv'
  <2>1. PICK ok \in BOOLEAN :
          /\ ok => Normalize(job[c].value)
          /\ store' = [store EXCEPT ![job[c].id] = AtomicWrite(ok, @, job[c].value)]
          /\ IF ok /\ job[c].register THEN Goto(c, "register") /\ UNCHANGED job ELSE Return(c)
          /\ Upset(IF ok /\ ~job[c].register THEN {"unregistered"} ELSE {})
    BY <1>2 DEF SetupSave
  <2>2. job[c] \in SetupJob /\ job = [job EXCEPT ![c] = job[c]]
    BY <1>2 DEF SetupSave, At, TypeInv, CallsType, JobFits
  <2>3. ok => job[c].value \in Saved
    BY <2>1, <2>2 DEF SetupJob, Normalize, Saved
  <2>4. FilesType'
    BY <1>2, <2>1, <2>2, <2>3 DEF SetupSave, TypeInv, FilesType, AtomicWrite, SetupJob
  <2>5. CallsType'
    BY <2>1, <2>2, CallTypes DEF TypeInv, Return, Stages
  <2>6. CountsType'
    BY <1>b, <1>2, <2>1 DEF SetupSave, TypeInv, CountsType, Upset
  <2> QED  BY <2>4, <2>5, <2>6 DEF TypeInv
<1>3. ASSUME NEW c \in Calls, NEW label \in {"write", "rewrite"}, NEW text \in Text,
             job[c].id \in Ids, Rewrites(c, label, text), UNCHANGED <<files, calls, edits>>
      PROVE  TypeInv'
  <2>1. [id |-> job[c].id, read |-> codex, write |-> text] \in RewriteJob
    BY <1>3 DEF RewriteJob, TypeInv, FilesType
  <2>2. CallsType'
    BY <1>3, <2>1, CallTypes DEF Rewrites, TypeInv, Stages
  <2>3. CountsType'
    BY <1>b, <1>3 DEF Rewrites, TypeInv, CountsType, Upset
  <2> QED  BY <1>3, <2>2, <2>3 DEF TypeInv, FilesType, files
<1>4. ASSUME NEW c \in Calls, Return(c), UNCHANGED <<store, calls, edits>>, notes' \in [Keys -> 0..MaxCalls],
             codex' \in Text, upset' \subseteq Causes
      PROVE  TypeInv'
  <2>1. CallsType'
    BY <1>4, CallTypes DEF Return, TypeInv, Stages
  <2> QED  BY <1>4, <2>1 DEF TypeInv, FilesType, CountsType
<1>5. ASSUME NEW c \in Calls, UpdateRead(c)  PROVE TypeInv'
  <2>1. job[c] \in SetupJob /\ job[c].id \in Ids
    BY <1>5 DEF UpdateRead, At, TypeInv, CallsType, JobFits, SetupJob
  <2>2. CASE Return(c) /\ Upset({"unregistered"})
    BY <1>b, <1>4, <1>5, <2>2 DEF UpdateRead, Upset, TypeInv, FilesType, CountsType, files
  <2>3. CASE Rewrites(c, "write", RemoveManagedBlock(codex, job[c].id)
                                    \o RenderCodexBlock(job[c].id, store[job[c].id]))
    <3>1. RemoveManagedBlock(codex, job[c].id) \o RenderCodexBlock(job[c].id, store[job[c].id]) \in Text
      BY <2>1, RemoveWell, Rendered, Joined DEF TypeInv, FilesType
    <3> QED  BY <1>3, <1>5, <2>1, <2>3, <3>1 DEF UpdateRead
  <2> QED  BY <1>5, <2>2, <2>3 DEF UpdateRead
<1>6. ASSUME NEW c \in Calls, UpdateWrite(c)  PROVE TypeInv'
  <2>1. job[c].write \in Text
    BY <1>6 DEF UpdateWrite, At, TypeInv, CallsType, JobFits, RewriteJob
  <2>2. codex' \in Text /\ upset' \subseteq Causes
    BY <1>b, <1>6, <2>1 DEF UpdateWrite, AtomicWrite, Upset, TypeInv, FilesType, CountsType
  <2> QED  BY <1>4, <1>6, <2>2 DEF UpdateWrite, TypeInv, FilesType
<1>7. ASSUME NEW c \in Calls, RemoveStart(c)  PROVE TypeInv'
  <2>1. PICK id \in Ids, exact \in BOOLEAN :
          /\ Begin(c, "deregister", [id |-> id, exact |-> exact])
          /\ Upset(Overlap \cup (IF exact THEN {} ELSE {"capitals"}))
    BY <1>7 DEF RemoveStart
  <2>2. [id |-> id, exact |-> exact] \in RemoveJob
    BY DEF RemoveJob
  <2>3. CallsType'
    BY <2>1, <2>2, CallTypes DEF TypeInv, Begin, Stages
  <2>4. CountsType'
    BY <1>b, <1>c, <2>1, ProfilesAssumption DEF TypeInv, CountsType, Begin, Upset
  <2> QED  BY <2>1, <2>3, <2>4 DEF TypeInv, FilesType, Begin, files
<1>8. ASSUME NEW c \in Calls, Goto(c, "forget"), UNCHANGED <<store, notes, job, calls, edits>>,
             codex' \in Text, upset' \subseteq Causes, doing[c] \in {"deregister", "rewrite"}
      PROVE  TypeInv'
  <2>1. job[c] \in RemoveJob \cup RewriteJob /\ job = [job EXCEPT ![c] = job[c]]
    BY <1>8 DEF TypeInv, CallsType, JobFits
  <2>2. CallsType'
    BY <1>8, <2>1, CallTypes DEF TypeInv, Stages
  <2> QED  BY <1>8, <2>2 DEF TypeInv, FilesType, CountsType
<1>9. ASSUME NEW c \in Calls, DeregisterRead(c)  PROVE TypeInv'
  <2>1. job[c] \in RemoveJob /\ job[c].id \in Ids
    BY <1>9 DEF DeregisterRead, At, TypeInv, CallsType, JobFits, RemoveJob
  <2>2. CASE Goto(c, "forget") /\ UNCHANGED <<job, upset>>
    BY <1>8, <1>9, <2>2 DEF DeregisterRead, At, TypeInv, FilesType, CountsType, files
  <2>3. CASE Rewrites(c, "rewrite", RemoveManagedBlock(codex, job[c].id))
    <3>1. RemoveManagedBlock(codex, job[c].id) \in Text
      BY <2>1, RemoveWell DEF TypeInv, FilesType
    <3> QED  BY <1>3, <1>9, <2>1, <2>3, <3>1 DEF DeregisterRead
  <2> QED  BY <1>9, <2>2, <2>3 DEF DeregisterRead
<1>10. ASSUME NEW c \in Calls, DeregisterWrite(c)  PROVE TypeInv'
  <2>1. job[c].write \in Text
    BY <1>10 DEF DeregisterWrite, At, TypeInv, CallsType, JobFits, RewriteJob
  <2>2. codex' \in Text /\ upset' \subseteq Causes
    BY <1>b, <1>10, <2>1 DEF DeregisterWrite, AtomicWrite, Upset, TypeInv, FilesType, CountsType
  <2> QED  BY <1>8, <1>10, <2>2 DEF DeregisterWrite, At
<1>11. ASSUME NEW c \in Calls, RemoveProfile(c)  PROVE TypeInv'
  <2>1. CallsType'
    BY <1>11, CallTypes DEF RemoveProfile, Return, TypeInv, Stages
  <2>2. store' \in [Ids -> Saved]
    BY <1>a, <1>11 DEF RemoveProfile, TypeInv, FilesType
  <2> QED  BY <1>11, <2>1, <2>2 DEF RemoveProfile, TypeInv, FilesType, CountsType
<1>12. ASSUME NEW c \in Calls, NEW id \in Ids, NEW flags \in Flags, Import(c, id, flags)  PROVE TypeInv'
  <2>1. flags \in Saved
    BY <1>12, ProfilesAssumption DEF Import, Normalize, Saved
  <2>2. CountsType'
    BY <1>b, <1>c, <1>12, ProfilesAssumption DEF Import, Upset, TypeInv, CountsType
  <2> QED  BY <1>12, <2>1, <2>2 DEF Import, TypeInv, FilesType, CallsType, JobFits
<1>13. ASSUME NEW c \in Calls, PutRead(c)  PROVE TypeInv'
  <2>1. PICK k \in Keys : Begin(c, "note", [key |-> k, read |-> notes, put |-> calls + 1]) /\ UNCHANGED upset
    BY <1>13 DEF PutRead
  <2>2. CountsType' /\ calls + 1 \in 0..MaxCalls
    BY <2>1, ProfilesAssumption DEF TypeInv, CountsType, Begin
  <2>3. [key |-> k, read |-> notes, put |-> calls + 1] \in NoteJob
    BY <2>2 DEF NoteJob, TypeInv, FilesType
  <2>4. CallsType'
    BY <2>1, <2>3, CallTypes DEF TypeInv, Begin, Stages
  <2> QED  BY <2>1, <2>2, <2>4 DEF TypeInv, FilesType, Begin, files
<1>14. ASSUME NEW c \in Calls, PutWrite(c)  PROVE TypeInv'
  <2>1. job[c] \in NoteJob
    BY <1>14 DEF PutWrite, At, TypeInv, CallsType, JobFits
  <2>2. notes' \in [Keys -> 0..MaxCalls]
    BY <1>14, <2>1 DEF PutWrite, NoteJob, AtomicWrite, TypeInv, FilesType
  <2> QED  BY <1>4, <1>14, <2>2 DEF PutWrite, TypeInv, FilesType, CountsType
<1>15. ASSUME NEW c \in Calls, Kill(c)  PROVE TypeInv'
  BY <1>b, <1>4, <1>15 DEF Kill, Upset, files, TypeInv, FilesType, CountsType
<1>16. ASSUME NEW l \in [kind : {"own", "text"}, id : Ids, mode : {"db"}], Edit(l)  PROVE TypeInv'
  <2>1. l \in Line /\ Plain(l)
    BY DEF Line, Plain, Modes
  <2>2. codex' \in Text
    BY <1>16, <2>1, EditedIn, EditedOut DEF Edit, TypeInv, FilesType
  <2> QED  BY <1>16, <2>2, ProfilesAssumption DEF Edit, TypeInv, FilesType, CallsType, JobFits, CountsType
<1>17. CASE UNCHANGED profilesVars
  BY <1>17 DEF profilesVars, TypeInv, FilesType, CallsType, JobFits, CountsType
<1> QED  BY <1>1, <1>2, <1>5, <1>6, <1>7, <1>9, <1>10, <1>11, <1>12, <1>13, <1>14, <1>15, <1>16, <1>17
         DEF ProfilesNext

-----------------------------------------------------------------------------
(* What is to be written keeps what is not of the profile *)

\* A rewrite, from what it was read from.
Rewritten(work) ==
  /\ WellFormed(work.write) /\ SameOthers(work.read, work.write, work.id)
  /\ Block(work.read, work.id) # <<>> \/ ~Taken(work.read, work.id)

WholeJob(c) == doing[c] \in {"write", "rewrite"} => Rewritten(job[c])

WholeInv == WellFormed(codex) /\ \A c \in Calls : WholeJob(c)

\* and has no blocks.
LEMMA StartIsWhole ==
  /\ WellFormed(StartText)
  /\ \A n \in DOMAIN StartText : StartText[n].kind \notin {"begin", "server", "end"}
<1>1. /\ Len(StartText) \in Nat /\ DOMAIN StartText = 1..Len(StartText)
      /\ \A n \in DOMAIN StartText : StartText[n].kind \in {"own", "text"}
  <2> DEFINE S == [kind : {"own", "text"}, id : Ids, mode : Modes]
  <2>1. StartText \in Seq(S) /\ \A l \in S : l.kind \in {"own", "text"}
    BY ProfilesAssumption
  <2> HIDE DEF S
  <2>2. Len(StartText) \in Nat /\ DOMAIN StartText = 1..Len(StartText)
    BY <2>1
  <2>3. \A n \in DOMAIN StartText : StartText[n] \in S
    BY <2>1, ElementOfSeq, <2>2
  <2> QED  BY <2>1, <2>2, <2>3
<1>2. \A n \in DOMAIN StartText : StartText[n].kind \notin {"begin", "server", "end"}
  BY <1>1
<1> QED  BY <1>1, <1>2 DEF WellFormed, Opens, Continues

\* It holds at the start.
LEMMA WholeInit == ProfilesInit => WholeInv
BY StartIsWhole DEF ProfilesInit, WholeInv, WholeJob

\* A call that goes on, to a rewrite only with one that is whole.
LEMMA WholeCalls ==
  ASSUME TypeInv, WholeInv, NEW c \in Calls, NEW place, Goto(c, place),
         NEW work, job' = [job EXCEPT ![c] = work],
         place \in {"write", "rewrite"} => Rewritten(work), WellFormed(codex)'
  PROVE  WholeInv'
<1>1. /\ doing'[c] = place /\ job'[c] = work
      /\ \A d \in Calls \ {c} : doing'[d] = doing[d] /\ job'[d] = job[d]
  BY DEF TypeInv, CallsType, Goto
<1>2. WholeJob(c)'
  BY <1>1 DEF WholeJob, Rewritten
<1>3. \A d \in Calls \ {c} : WholeJob(d)'
  BY <1>1 DEF WholeInv, WholeJob, Rewritten
<1> QED  BY <1>2, <1>3 DEF WholeInv

\* Registering a profile is a rewrite that is whole,
LEMMA RegisterWhole ==
  ASSUME NEW text \in Text, WellFormed(text), NEW id \in Ids, NEW value
  PROVE  /\ WellFormed(RemoveManagedBlock(text, id) \o RenderCodexBlock(id, value))
         /\ SameOthers(text, RemoveManagedBlock(text, id) \o RenderCodexBlock(id, value), id)
<1> DEFINE block == RenderCodexBlock(id, value)
<1>1. block \in Text /\ WellFormed(block) /\ Others(block, id) = {}
  BY Rendered
<1> HIDE DEF block
<1>2. RemoveManagedBlock(text, id) \in Text /\ WellFormed(RemoveManagedBlock(text, id))
  BY RemoveWell
<1>3. WellFormed(RemoveManagedBlock(text, id) \o block)
  BY <1>1, <1>2, JoinedWell
<1>4. SameOthers(text, RemoveManagedBlock(text, id) \o block, id)
  BY <1>1, RemoveKeeps
<1> QED  BY <1>3, <1>4 DEF block

\* and so is taking it away.
LEMMA DeregisterWhole ==
  ASSUME NEW text \in Text, WellFormed(text), NEW id \in Ids
  PROVE  SameOthers(text, RemoveManagedBlock(text, id), id)
<1>1. <<>> \in Text /\ Others(<<>>, id) = {}
  BY DEF Text, Others
<1>2. SameOthers(text, RemoveManagedBlock(text, id) \o <<>>, id)
  BY <1>1, RemoveKeeps
<1>3. RemoveManagedBlock(text, id) \in Seq(Line)
  BY RemoveWell DEF Text
<1>4. RemoveManagedBlock(text, id) \o <<>> = RemoveManagedBlock(text, id)
  BY <1>3, ConcatEmptySeq
<1> QED  BY <1>2, <1>4

\* Every step keeps this, whatever commands overlap.
LEMMA WholeStep ==
  ASSUME TypeInv, WholeInv, [ProfilesNext]_profilesVars
  PROVE  WholeInv'
<1>a. /\ codex \in Text /\ WellFormed(codex)
      /\ job \in [Calls -> {NoJob} \cup SetupJob \cup RemoveJob \cup RewriteJob \cup NoteJob]
  BY DEF TypeInv, FilesType, CallsType, WholeInv
<1>b. \A c \in Calls : job = [job EXCEPT ![c] = job[c]]
  BY <1>a
<1>c. ASSUME NEW c \in Calls, NEW label \in {"save", "deregister", "note"}, NEW work, Begin(c, label, work)
      PROVE  WholeInv'
  <2>1. WellFormed(codex)' /\ label \notin {"write", "rewrite"}
    BY <1>a, <1>c DEF Begin, files
  <2> QED  BY <1>c, <2>1, WholeCalls DEF Begin
<1>d. ASSUME NEW c \in Calls, Return(c), WellFormed(codex)'
      PROVE  WholeInv'
  <2>1. Goto(c, "idle") /\ job' = [job EXCEPT ![c] = NoJob] /\ "idle" \notin {"write", "rewrite"}
    BY <1>d DEF Return
  <2> QED  BY <1>d, <2>1, WholeCalls
<1>e. ASSUME NEW c \in Calls, NEW label \in {"register", "forget"}, Goto(c, label), UNCHANGED job, WellFormed(codex)'
      PROVE  WholeInv'
  BY <1>b, <1>e, WholeCalls
<1>f. ASSUME NEW c \in Calls, doing[c] \in {"write", "rewrite"}, NEW ok \in BOOLEAN,
             codex' = AtomicWrite(ok, codex, job[c].write)
      PROVE  WellFormed(codex)'
  BY <1>a, <1>f DEF AtomicWrite, WholeInv, WholeJob, Rewritten
<1>g. ASSUME NEW c \in Calls, NEW label \in {"write", "rewrite"}, NEW text, Rewrites(c, label, text),
             UNCHANGED codex, WellFormed(text), SameOthers(codex, text, job[c].id),
             Block(codex, job[c].id) # <<>> \/ ~Taken(codex, job[c].id)
      PROVE  WholeInv'
  <2> DEFINE work == [id |-> job[c].id, read |-> codex, write |-> text]
  <2>1. Rewritten(work)
    BY <1>g DEF Rewritten
  <2>2. WellFormed(codex)' /\ Goto(c, label) /\ job' = [job EXCEPT ![c] = work]
    BY <1>a, <1>g DEF Rewrites
  <2> HIDE DEF work
  <2> QED  BY <2>1, <2>2, WholeCalls
<1>1. ASSUME NEW c \in Calls, SetupStart(c)  PROVE WholeInv'
  BY <1>1, <1>c DEF SetupStart
<1>2. ASSUME NEW c \in Calls, SetupSave(c)  PROVE WholeInv'
  <2>1. WellFormed(codex)'
    BY <1>a, <1>2 DEF SetupSave
  <2>2. (Goto(c, "register") /\ UNCHANGED job) \/ Return(c)
    BY <1>2 DEF SetupSave
  <2> QED  BY <1>d, <1>e, <2>1, <2>2
<1>3. ASSUME NEW c \in Calls, UpdateRead(c)  PROVE WholeInv'
  <2>1. job[c].id \in Ids /\ UNCHANGED codex
    BY <1>3 DEF UpdateRead, At, TypeInv, CallsType, JobFits, SetupJob, files
  <2>2. CASE Return(c)
    BY <1>a, <1>d, <2>1, <2>2
  <2>3. CASE /\ Block(codex, job[c].id) # <<>> \/ ~Taken(codex, job[c].id)
             /\ Rewrites(c, "write", RemoveManagedBlock(codex, job[c].id)
                                       \o RenderCodexBlock(job[c].id, store[job[c].id]))
    <3> DEFINE text == RemoveManagedBlock(codex, job[c].id) \o RenderCodexBlock(job[c].id, store[job[c].id])
    <3>1. WellFormed(text) /\ SameOthers(codex, text, job[c].id)
      BY <1>a, <2>1, RegisterWhole
    <3>2. Rewrites(c, "write", text)
      BY <2>3
    <3> HIDE DEF text
    <3> QED  BY <1>g, <2>1, <2>3, <3>1, <3>2
  <2> QED  BY <1>3, <2>2, <2>3 DEF UpdateRead
<1>4. ASSUME NEW c \in Calls, UpdateWrite(c)  PROVE WholeInv'
  BY <1>4, <1>d, <1>f DEF UpdateWrite, At
<1>5. ASSUME NEW c \in Calls, RemoveStart(c)  PROVE WholeInv'
  BY <1>5, <1>c DEF RemoveStart
<1>6. ASSUME NEW c \in Calls, DeregisterRead(c)  PROVE WholeInv'
  <2>1. job[c].id \in Ids /\ UNCHANGED codex
    BY <1>6 DEF DeregisterRead, At, TypeInv, CallsType, JobFits, RemoveJob, files
  <2>2. CASE Goto(c, "forget") /\ UNCHANGED job
    BY <1>a, <1>e, <2>1, <2>2
  <2>3. CASE Block(codex, job[c].id) # <<>> /\ Rewrites(c, "rewrite", RemoveManagedBlock(codex, job[c].id))
    BY <1>a, <1>g, <2>1, <2>3, RemoveWell, DeregisterWhole
  <2> QED  BY <1>6, <2>2, <2>3 DEF DeregisterRead
<1>7. ASSUME NEW c \in Calls, DeregisterWrite(c)  PROVE WholeInv'
  BY <1>7, <1>e, <1>f DEF DeregisterWrite, At
<1>8. ASSUME NEW c \in Calls, RemoveProfile(c)  PROVE WholeInv'
  BY <1>a, <1>8, <1>d DEF RemoveProfile
<1>9. ASSUME NEW c \in Calls, NEW id \in Ids, NEW flags \in Flags, Import(c, id, flags)  PROVE WholeInv'
  BY <1>9 DEF Import, WholeInv, WholeJob, Rewritten
<1>10. ASSUME NEW c \in Calls, PutRead(c)  PROVE WholeInv'
  BY <1>10, <1>c DEF PutRead
<1>11. ASSUME NEW c \in Calls, PutWrite(c)  PROVE WholeInv'
  BY <1>a, <1>11, <1>d DEF PutWrite
<1>12. ASSUME NEW c \in Calls, Kill(c)  PROVE WholeInv'
  BY <1>a, <1>12, <1>d DEF Kill, files
<1>13. ASSUME NEW l \in [kind : {"own", "text"}, id : Ids, mode : {"db"}], Edit(l)  PROVE WholeInv'
  <2>1. l \in Line /\ Plain(l)
    BY DEF Line, Plain, Modes
  <2>2. WellFormed(codex)'
    BY <1>a, <1>13, <2>1, EditedIn, EditedOut DEF Edit
  <2> QED  BY <1>13, <2>2 DEF Edit, WholeInv, WholeJob, Rewritten
<1>14. CASE UNCHANGED profilesVars
  BY <1>14 DEF profilesVars, WholeInv, WholeJob, Rewritten
<1> QED  BY <1>1, <1>2, <1>3, <1>4, <1>5, <1>6, <1>7, <1>8, <1>9, <1>10, <1>11, <1>12, <1>13, <1>14
         DEF ProfilesNext

-----------------------------------------------------------------------------
(* What is registered has its profile *)

\* A command is at work.
Works(c) == doing[c] \notin {"idle", "note"}

\* There is one at a time,
OneAtWork == \A c, d \in Calls : (Works(c) /\ Works(d)) => c = d

\* what is registered has its profile,
HaveProfiles(text) == \A id \in Ids : Registered(text, id) => store[id] # NoProfile

\* also in what is to be written, and what is taken away is gone from there first.
ServedJob(c) ==
  /\ doing[c] \in {"write", "rewrite"} => OneBlockEach(job[c].write) /\ HaveProfiles(job[c].write)
  /\ doing[c] = "deregister" => job[c].exact
  /\ doing[c] = "rewrite" => ~Registered(job[c].write, job[c].id)
  /\ doing[c] = "forget" => ~Registered(codex, job[c].id)

Served == /\ OneAtWork /\ OneBlockEach(codex) /\ HaveProfiles(codex)
          /\ \A c \in Calls : ServedJob(c)

ServedInv == upset \subseteq {"unregistered"} => Served

\* It holds at the start.
LEMMA ServedInit == ProfilesInit => ServedInv
BY StartIsWhole DEF ProfilesInit, ServedInv, Served, OneAtWork, Works, OneBlockEach, HaveProfiles, Registered,
                    ServedJob

\* Nothing that happened is forgotten.
LEMMA UpsetGrows == [ProfilesNext]_profilesVars => upset \subseteq upset'
<1> SUFFICES ASSUME [ProfilesNext]_profilesVars  PROVE upset \subseteq upset'
  OBVIOUS
<1>1. ASSUME NEW causes, Upset(causes)  PROVE upset \subseteq upset'
  BY <1>1 DEF Upset
<1>2. ASSUME NEW c \in Calls,
             \/ SetupStart(c) \/ SetupSave(c) \/ UpdateRead(c) \/ UpdateWrite(c) \/ RemoveStart(c)
             \/ DeregisterRead(c) \/ DeregisterWrite(c)
      PROVE  upset \subseteq upset'
  BY <1>1, <1>2 DEF SetupStart, SetupSave, UpdateRead, UpdateWrite, Rewrites, RemoveStart, DeregisterRead,
                    DeregisterWrite
<1>3. ASSUME NEW c \in Calls,
             \/ RemoveProfile(c) \/ PutRead(c) \/ PutWrite(c) \/ Kill(c)
             \/ \E id \in Ids, flags \in Flags : Import(c, id, flags)
      PROVE  upset \subseteq upset'
  BY <1>1, <1>3 DEF RemoveProfile, Import, PutRead, PutWrite, Kill
<1>4. ASSUME NEW l, Edit(l)  PROVE upset \subseteq upset'
  BY <1>4 DEF Edit
<1>5. CASE UNCHANGED profilesVars
  BY <1>5 DEF profilesVars
<1> QED  BY <1>2, <1>3, <1>4, <1>5 DEF ProfilesNext

\* A command that is alone goes on.
LEMMA ServedAlone ==
  ASSUME TypeInv, NEW c \in Calls, \A d \in Calls \ {c} : ~Works(d),
         NEW place, Goto(c, place), NEW work, job' = [job EXCEPT ![c] = work],
         OneBlockEach(codex)', HaveProfiles(codex)', ServedJob(c)'
  PROVE  Served'
<1>1. \A d \in Calls \ {c} : doing'[d] = doing[d] /\ ~Works(d)'
  BY DEF TypeInv, CallsType, Goto, Works
<1>2. OneAtWork'
  BY <1>1 DEF OneAtWork, Works
<1>3. \A d \in Calls \ {c} : ServedJob(d)'
  BY <1>1 DEF ServedJob, Works
<1> QED  BY <1>2, <1>3 DEF Served

\* A call that is over, or that puts a note, changes nothing here.
LEMMA ServedApart ==
  ASSUME TypeInv, Served, NEW c \in Calls, NEW place \in {"idle", "note"}, Goto(c, place),
         NEW work, job' = [job EXCEPT ![c] = work], UNCHANGED <<store, codex>>
  PROVE  Served'
<1>1. /\ doing'[c] = place
      /\ \A d \in Calls \ {c} : doing'[d] = doing[d] /\ job'[d] = job[d]
  BY DEF TypeInv, CallsType, Goto
<1>2. OneAtWork'
  BY <1>1 DEF Served, OneAtWork, Works
<1>3. ServedJob(c)'
  BY <1>1 DEF ServedJob
<1>4. \A d \in Calls \ {c} : ServedJob(d)'
  BY <1>1 DEF Served, ServedJob, HaveProfiles
<1>5. OneBlockEach(codex)' /\ HaveProfiles(codex)'
  BY DEF Served, OneBlockEach, HaveProfiles
<1> QED  BY <1>2, <1>3, <1>4, <1>5 DEF Served

\* What registering a profile that is there leaves.
LEMMA RegisterServed ==
  ASSUME NEW text \in Text, WellFormed(text), NEW id \in Ids, ~InTheWay(text, id),
         OneBlockEach(text), HaveProfiles(text), store[id] # NoProfile
  PROVE  LET new == RemoveManagedBlock(text, id) \o RenderCodexBlock(id, store[id]) IN
         /\ OneBlockEach(new) /\ HaveProfiles(new)
         /\ (\A i \in Ids \ {id} : AsWanted(text, i)) => \A i \in Ids : AsWanted(new, i)
<1> DEFINE old == RemoveManagedBlock(text, id)
           block == RenderCodexBlock(id, store[id])
<1>1. /\ block \in Text /\ OneBlockEach(block)
      /\ \A n \in DOMAIN block : block[n].id = id
      /\ \A n \in DOMAIN block : block[n].kind = "server" => block[n].mode \in Wants(store[id])
  BY Rendered
<1>2. /\ old \in Text /\ OneBlockEach(old)
      /\ \A i : Registered(old, i) => Registered(text, i)
      /\ \A i : AsWanted(text, i) => AsWanted(old, i)
  BY RemoveWell, RemoveServed
<1>3. /\ \A n \in DOMAIN old : ~(old[n].kind = "begin" /\ old[n].id = id)
      /\ ~Registered(old, id)
  BY RemoveDeregisters
<1> HIDE DEF old, block
<1>4. OneBlockEach(old \o block)
  BY <1>1, <1>2, <1>3, JoinedServed
<1>5. HaveProfiles(old \o block)
  <2>1. ASSUME NEW i \in Ids, Registered(old \o block, i)  PROVE store[i] # NoProfile
    <3>1. Registered(old, i) \/ Registered(block, i)
      BY <1>1, <1>2, <2>1, JoinedServed
    <3>2. Registered(block, i) => i = id
      BY <1>1 DEF Registered
    <3> QED  BY <1>2, <3>1, <3>2 DEF HaveProfiles
  <2> QED  BY <2>1 DEF HaveProfiles
<1>6. ASSUME \A i \in Ids \ {id} : AsWanted(text, i), NEW i \in Ids  PROVE AsWanted(old \o block, i)
  <2>1. AsWanted(block, i)
    BY <1>1 DEF AsWanted
  <2>2. AsWanted(old, i)
    BY <1>2, <1>3, <1>6 DEF AsWanted, Registered
  <2> QED  BY <1>1, <1>2, <2>1, <2>2, JoinedServed
<1> QED  BY <1>4, <1>5, <1>6 DEF old, block

\* Every step keeps this.
LEMMA ServedStep ==
  ASSUME TypeInv, WholeInv, ServedInv, [ProfilesNext]_profilesVars
  PROVE  ServedInv'
<1> SUFFICES ASSUME upset' \subseteq {"unregistered"}  PROVE Served'
  BY DEF ServedInv
<1>a. /\ upset \subseteq {"unregistered"} /\ Served
      /\ OneAtWork /\ OneBlockEach(codex) /\ HaveProfiles(codex) /\ \A c \in Calls : ServedJob(c)
  BY UpsetGrows DEF ServedInv, Served
<1>b. /\ "overlap" \notin upset' /\ "longer" \notin upset' /\ "capitals" \notin upset' /\ "refused" \notin upset'
  OBVIOUS
<1>c. /\ codex \in Text /\ WellFormed(codex)
      /\ job \in [Calls -> {NoJob} \cup SetupJob \cup RemoveJob \cup RewriteJob \cup NoteJob]
      /\ store \in [Ids -> Saved]
  BY DEF TypeInv, FilesType, CallsType, WholeInv
<1>d. \A c \in Calls : job = [job EXCEPT ![c] = job[c]]
  BY <1>c
<1>e. ASSUME NEW c \in Calls, Works(c)  PROVE \A d \in Calls \ {c} : ~Works(d)
  BY <1>a, <1>e DEF OneAtWork
<1>f. ASSUME UNCHANGED <<store, codex>>  PROVE OneBlockEach(codex)' /\ HaveProfiles(codex)'
  BY <1>a, <1>f DEF OneBlockEach, HaveProfiles
<1>g. ASSUME NEW more, Upset(Overlap \cup more)  PROVE \A d \in Calls : ~Works(d)
  <2>1. Overlap = {}
    BY <1>b, <1>g DEF Upset, Overlap
  <2> QED  BY <2>1 DEF Overlap, Works
<1>h. ASSUME NEW c \in Calls, Return(c), UNCHANGED <<store, codex>>  PROVE Served'
  BY <1>a, <1>h, ServedApart DEF Return
<1>i. ASSUME NEW c \in Calls, NEW place, Goto(c, place), NEW work, job' = [job EXCEPT ![c] = work]
      PROVE  doing'[c] = place /\ job'[c] = work
  BY <1>i DEF Goto, TypeInv, CallsType
<1>1. ASSUME NEW c \in Calls, SetupStart(c)  PROVE Served'
  <2>1. PICK work : Begin(c, "save", work) /\ Upset(Overlap)
    BY <1>1 DEF SetupStart
  <2>2. \A d \in Calls : ~Works(d)
    BY <1>g, <2>1
  <2>3. OneBlockEach(codex)' /\ HaveProfiles(codex)'
    BY <1>f, <2>1 DEF Begin, files
  <2>4. ServedJob(c)'
    BY <1>i, <2>1 DEF Begin, ServedJob
  <2> QED  BY <2>1, <2>2, <2>3, <2>4, ServedAlone DEF Begin
<1>2. ASSUME NEW c \in Calls, SetupSave(c)  PROVE Served'
  <2>1. PICK ok \in BOOLEAN :
          /\ ok => Normalize(job[c].value)
          /\ store' = [store EXCEPT ![job[c].id] = AtomicWrite(ok, @, job[c].value)]
          /\ IF ok /\ job[c].register THEN Goto(c, "register") /\ UNCHANGED job ELSE Return(c)
    BY <1>2 DEF SetupSave
  <2>2. job[c] \in SetupJob /\ Works(c)
    BY <1>2 DEF SetupSave, At, TypeInv, CallsType, JobFits, Works
  <2>3. ok => job[c].value # NoProfile
    <3>1. "absent" \notin Fields
      BY DEF Fields
    <3> QED  BY <2>2, <3>1 DEF SetupJob, NoProfile
  <2>4. \A i \in Ids : store[i] # NoProfile => store'[i] # NoProfile
    BY <1>c, <2>1, <2>2, <2>3 DEF SetupJob, AtomicWrite
  <2>5. OneBlockEach(codex)' /\ HaveProfiles(codex)'
    BY <1>2, <1>a, <2>4 DEF SetupSave, OneBlockEach, HaveProfiles
  <2>6. PICK place, work : place \in {"register", "idle"} /\ Goto(c, place) /\ job' = [job EXCEPT ![c] = work]
    BY <1>d, <2>1 DEF Return
  <2>7. ServedJob(c)'
    BY <1>i, <2>6 DEF ServedJob
  <2> QED  BY <1>e, <2>2, <2>5, <2>6, <2>7, ServedAlone
<1>3. ASSUME NEW c \in Calls, UpdateRead(c)  PROVE Served'
  <2>1. job[c].id \in Ids /\ Works(c) /\ UNCHANGED <<store, codex>>
    BY <1>3 DEF UpdateRead, At, TypeInv, CallsType, JobFits, SetupJob, Works, files
  <2>2. CASE Return(c)
    BY <1>h, <2>1, <2>2
  <2> DEFINE text == RemoveManagedBlock(codex, job[c].id) \o RenderCodexBlock(job[c].id, store[job[c].id])
             work == [id |-> job[c].id, read |-> codex, write |-> text]
  <2>3. CASE store[job[c].id] # NoProfile /\ Rewrites(c, "write", text)
    <3>1. ~InTheWay(codex, job[c].id)
      BY <1>b, <2>3 DEF Rewrites, Upset
    <3>2. OneBlockEach(text) /\ HaveProfiles(text)
      BY <1>a, <1>c, <2>1, <2>3, <3>1, RegisterServed
    <3>3. Goto(c, "write") /\ job' = [job EXCEPT ![c] = work]
      BY <2>3 DEF Rewrites
    <3> HIDE DEF text
    <3>4. work.write = text
      OBVIOUS
    <3> HIDE DEF work
    <3>5. doing'[c] = "write" /\ job'[c] = work
      BY <1>i, <3>3
    <3>6. \A i \in Ids : Registered(text, i) => store'[i] # NoProfile
      BY <2>1, <3>2 DEF HaveProfiles
    <3>7. ServedJob(c)'
      BY <3>2, <3>4, <3>5, <3>6 DEF ServedJob, HaveProfiles
    <3> QED  BY <1>e, <1>f, <2>1, <3>3, <3>7, ServedAlone
  <2> QED  BY <1>3, <2>2, <2>3 DEF UpdateRead
<1>4. ASSUME NEW c \in Calls, UpdateWrite(c)  PROVE Served'
  <2>1. Works(c) /\ OneBlockEach(job[c].write) /\ HaveProfiles(job[c].write)
    BY <1>4, <1>a DEF UpdateWrite, At, Works, ServedJob
  <2>2. OneBlockEach(codex)' /\ HaveProfiles(codex)'
    BY <1>4, <1>a, <2>1 DEF UpdateWrite, AtomicWrite, OneBlockEach, HaveProfiles
  <2>3. Goto(c, "idle") /\ job' = [job EXCEPT ![c] = NoJob]
    BY <1>4 DEF UpdateWrite, Return
  <2>4. ServedJob(c)'
    BY <1>i, <2>3 DEF ServedJob
  <2> QED  BY <1>e, <2>1, <2>2, <2>3, <2>4, ServedAlone
<1>5. ASSUME NEW c \in Calls, RemoveStart(c)  PROVE Served'
  <2>1. PICK id \in Ids, exact \in BOOLEAN :
          /\ Begin(c, "deregister", [id |-> id, exact |-> exact])
          /\ Upset(Overlap \cup (IF exact THEN {} ELSE {"capitals"}))
    BY <1>5 DEF RemoveStart
  <2>2. (\A d \in Calls : ~Works(d)) /\ exact
    BY <1>b, <1>g, <2>1 DEF Upset
  <2>3. OneBlockEach(codex)' /\ HaveProfiles(codex)'
    BY <1>f, <2>1 DEF Begin, files
  <2>4. doing'[c] = "deregister" /\ job'[c] = [id |-> id, exact |-> exact]
    BY <1>i, <2>1 DEF Begin
  <2>5. ServedJob(c)'
    BY <2>2, <2>4 DEF ServedJob
  <2> QED  BY <2>1, <2>2, <2>3, <2>5, ServedAlone DEF Begin
<1>6. ASSUME NEW c \in Calls, DeregisterRead(c)  PROVE Served'
  <2>1. job[c].id \in Ids /\ Works(c) /\ UNCHANGED <<store, codex>> /\ job[c].exact
    BY <1>6, <1>a DEF DeregisterRead, At, TypeInv, CallsType, JobFits, RemoveJob, Works, files, ServedJob
  <2> DEFINE text == RemoveManagedBlock(codex, job[c].id)
             work == [id |-> job[c].id, read |-> codex, write |-> text]
  <2>2. CASE Rewrites(c, "rewrite", text)
    <3>1. ~InTheWay(codex, job[c].id)
      BY <1>b, <2>2 DEF Rewrites, Upset
    <3>2. /\ OneBlockEach(text) /\ ~Registered(text, job[c].id)
          /\ \A i : Registered(text, i) => Registered(codex, i)
      BY <1>a, <1>c, <2>1, <3>1, RemoveServed, RemoveDeregisters
    <3>3. Goto(c, "rewrite") /\ job' = [job EXCEPT ![c] = work]
      BY <2>2 DEF Rewrites
    <3> HIDE DEF text
    <3>4. work.write = text /\ work.id = job[c].id
      OBVIOUS
    <3> HIDE DEF work
    <3>5. doing'[c] = "rewrite" /\ job'[c] = work
      BY <1>i, <3>3
    <3>6. \A i \in Ids : Registered(text, i) => store'[i] # NoProfile
      BY <1>a, <2>1, <3>2 DEF HaveProfiles
    <3>7. ServedJob(c)'
      BY <3>2, <3>4, <3>5, <3>6 DEF ServedJob, HaveProfiles
    <3> QED  BY <1>e, <1>f, <2>1, <3>3, <3>7, ServedAlone
  <2>3. CASE Block(codex, job[c].id) = <<>> /\ Goto(c, "forget") /\ UNCHANGED job
    <3>1. ~Registered(codex, job[c].id)
      BY <1>c, <2>1, <2>3, NoBlock
    <3>2. Goto(c, "forget") /\ job' = [job EXCEPT ![c] = job[c]]
      BY <1>d, <2>3
    <3>3. doing'[c] = "forget" /\ job'[c] = job[c]
      BY <1>i, <3>2
    <3>4. ~Registered(codex', job'[c].id)
      BY <2>1, <3>1, <3>3
    <3>5. ServedJob(c)'
      BY <3>3, <3>4 DEF ServedJob
    <3> QED  BY <1>e, <1>f, <2>1, <3>2, <3>5, ServedAlone
  <2> QED  BY <1>6, <2>1, <2>2, <2>3 DEF DeregisterRead
<1>7. ASSUME NEW c \in Calls, DeregisterWrite(c)  PROVE Served'
  <2>1. /\ Works(c) /\ OneBlockEach(job[c].write) /\ HaveProfiles(job[c].write)
        /\ ~Registered(job[c].write, job[c].id)
    BY <1>7, <1>a DEF DeregisterWrite, At, Works, ServedJob
  <2>2. codex' = job[c].write /\ store' = store
    BY <1>7, <1>b DEF DeregisterWrite, AtomicWrite, Upset
  <2>3. OneBlockEach(codex)' /\ HaveProfiles(codex)'
    BY <2>1, <2>2 DEF OneBlockEach, HaveProfiles
  <2>4. Goto(c, "forget") /\ job' = [job EXCEPT ![c] = job[c]]
    BY <1>d, <1>7 DEF DeregisterWrite
  <2>5. doing'[c] = "forget" /\ job'[c] = job[c]
    BY <1>i, <2>4
  <2>6. ~Registered(codex', job'[c].id)
    BY <2>1, <2>2, <2>5
  <2>7. ServedJob(c)'
    BY <2>5, <2>6 DEF ServedJob
  <2> QED  BY <1>e, <2>1, <2>3, <2>4, <2>7, ServedAlone
<1>8. ASSUME NEW c \in Calls, RemoveProfile(c)  PROVE Served'
  <2>1. Works(c) /\ ~Registered(codex, job[c].id)
    BY <1>8, <1>a DEF RemoveProfile, At, Works, ServedJob
  <2>2. \A i \in Ids : Registered(codex, i) => store'[i] = store[i]
    BY <1>8, <1>c, <2>1 DEF RemoveProfile
  <2>3. OneBlockEach(codex)' /\ HaveProfiles(codex)'
    BY <1>8, <1>a, <2>2 DEF RemoveProfile, OneBlockEach, HaveProfiles
  <2>4. Goto(c, "idle") /\ job' = [job EXCEPT ![c] = NoJob]
    BY <1>8 DEF RemoveProfile, Return
  <2>5. ServedJob(c)'
    BY <1>i, <2>4 DEF ServedJob
  <2> QED  BY <1>e, <2>1, <2>3, <2>4, <2>5, ServedAlone
<1>9. ASSUME NEW c \in Calls, NEW id \in Ids, NEW flags \in Flags, Import(c, id, flags)  PROVE Served'
  <2>1. \A d \in Calls : ~Works(d)
    BY <1>9, <1>g DEF Import
  <2>2. flags # NoProfile
    <3>1. "absent" \notin Fields /\ flags \subseteq Fields
      BY ProfilesAssumption DEF Fields
    <3> QED  BY <3>1 DEF NoProfile
  <2>3. \A i \in Ids : store[i] # NoProfile => store'[i] # NoProfile
    BY <1>9, <1>c, <2>2 DEF Import
  <2>4. OneBlockEach(codex)' /\ HaveProfiles(codex)'
    BY <1>9, <1>a, <2>3 DEF Import, OneBlockEach, HaveProfiles
  <2>5. OneAtWork' /\ \A d \in Calls : ServedJob(d)'
    BY <1>9, <2>1 DEF Import, OneAtWork, Works, ServedJob
  <2> QED  BY <2>4, <2>5 DEF Served
<1>10. ASSUME NEW c \in Calls, PutRead(c)  PROVE Served'
  BY <1>10, <1>a, ServedApart DEF PutRead, Begin, files
<1>11. ASSUME NEW c \in Calls, PutWrite(c)  PROVE Served'
  BY <1>11, <1>h DEF PutWrite
<1>12. ASSUME NEW c \in Calls, Kill(c)  PROVE Served'
  BY <1>12, <1>h DEF Kill, files
<1>13. ASSUME NEW l \in [kind : {"own", "text"}, id : Ids, mode : {"db"}], Edit(l)  PROVE Served'
  <2>1. l \in Line /\ Plain(l)
    BY DEF Line, Plain, Modes
  <2>2. OneBlockEach(codex)' /\ \A i : Registered(codex', i) => Registered(codex, i)
    <3>1. CASE \E n \in DOMAIN codex : codex[n] = l /\ codex' = RemoveAt(codex, n)
      BY <1>a, <1>c, <2>1, <3>1, EditedOut
    <3>2. CASE codex' = Append(codex, l)
      BY <1>a, <1>c, <2>1, <3>2, EditedIn
    <3> QED  BY <1>13, <3>1, <3>2 DEF Edit
  <2>3. HaveProfiles(codex)'
    BY <1>13, <1>a, <2>2 DEF Edit, HaveProfiles
  <2>4. OneAtWork' /\ \A d \in Calls : ServedJob(d)'
    BY <1>13, <1>a, <2>2 DEF Edit, OneAtWork, Works, ServedJob, HaveProfiles
  <2> QED  BY <2>2, <2>3, <2>4 DEF Served
<1>14. CASE UNCHANGED profilesVars
  BY <1>14, <1>a DEF profilesVars, Served, OneAtWork, Works, OneBlockEach, HaveProfiles, ServedJob
<1> QED  BY <1>1, <1>2, <1>3, <1>4, <1>5, <1>6, <1>7, <1>8, <1>9, <1>10, <1>11, <1>12, <1>13, <1>14
         DEF ProfilesNext

-----------------------------------------------------------------------------
(* What is registered is what its profile asks for *)

\* A setup is between its two files.
Setting(c) == doing[c] \in {"register", "write"}

\* The sections of an id in a text are of the modes that a profile of this value asks for.
OfModes(text, id, value) ==
  \A n \in DOMAIN text : (text[n].kind = "server" /\ text[n].id = id) => text[n].mode \in Wants(value)

\* What is to be written is what the profiles ask for,
WantedJob(c) == doing[c] \in {"write", "rewrite"} => \A i \in Ids : OfModes(job[c].write, i, store[i])

\* and so is what is there, but for the profile a setup has just saved.
Wanted ==
  /\ \A i \in Ids : OfModes(codex, i, store[i]) \/ \E c \in Calls : Setting(c) /\ job[c].id = i
  /\ \A c \in Calls : WantedJob(c)

ModeInv == upset = {} => Wanted

\* It holds at the start.
LEMMA ModeInit == ProfilesInit => ModeInv
BY StartIsWhole DEF ProfilesInit, ModeInv, Wanted, WantedJob, OfModes

\* A command that is alone goes on.
LEMMA WantedAlone ==
  ASSUME TypeInv, NEW c \in Calls, \A d \in Calls \ {c} : ~Works(d),
         NEW place, Goto(c, place), NEW work, job' = [job EXCEPT ![c] = work],
         \A i \in Ids : OfModes(codex', i, store'[i]) \/ (place \in {"register", "write"} /\ work.id = i),
         place \in {"write", "rewrite"} => \A i \in Ids : OfModes(work.write, i, store'[i])
  PROVE  Wanted'
<1>1. /\ doing'[c] = place /\ job'[c] = work
      /\ \A d \in Calls \ {c} : doing'[d] = doing[d] /\ ~Works(d)
  BY DEF TypeInv, CallsType, Goto
<1>2. \A d \in Calls \ {c} : WantedJob(d)'
  BY <1>1 DEF WantedJob, Works
<1>3. WantedJob(c)'
  BY <1>1 DEF WantedJob
<1>4. \A i \in Ids : OfModes(codex', i, store'[i]) \/ (Setting(c)' /\ job'[c].id = i)
  BY <1>1 DEF Setting
<1> QED  BY <1>2, <1>3, <1>4 DEF Wanted

\* A call that is over, or that puts a note, changes nothing here.
LEMMA WantedApart ==
  ASSUME TypeInv, Wanted, NEW c \in Calls, ~Setting(c), NEW place \in {"idle", "note"}, Goto(c, place),
         NEW work, job' = [job EXCEPT ![c] = work], UNCHANGED <<store, codex>>
  PROVE  Wanted'
<1>1. /\ doing'[c] = place
      /\ \A d \in Calls \ {c} : doing'[d] = doing[d] /\ job'[d] = job[d]
  BY DEF TypeInv, CallsType, Goto
<1>2. WantedJob(c)'
  BY <1>1 DEF WantedJob
<1>3. \A d \in Calls \ {c} : WantedJob(d)'
  BY <1>1 DEF Wanted, WantedJob
<1>4. \A i \in Ids : OfModes(codex, i, store[i]) \/ \E d \in Calls \ {c} : Setting(d)' /\ job'[d].id = i
  BY <1>1 DEF Wanted, Setting
<1> QED  BY <1>2, <1>3, <1>4 DEF Wanted

\* Every step keeps this.
LEMMA ModeStep ==
  ASSUME TypeInv, WholeInv, ServedInv, ModeInv, [ProfilesNext]_profilesVars
  PROVE  ModeInv'
<1> SUFFICES ASSUME upset' = {}  PROVE Wanted'
  BY DEF ModeInv
<1>a. upset = {} /\ Served /\ OneAtWork /\ OneBlockEach(codex) /\ HaveProfiles(codex) /\ Wanted
  BY UpsetGrows DEF ServedInv, Served, ModeInv
<1>b. \A cause : ~Upset({cause})
  BY DEF Upset
<1>c. /\ codex \in Text /\ WellFormed(codex)
      /\ job \in [Calls -> {NoJob} \cup SetupJob \cup RemoveJob \cup RewriteJob \cup NoteJob]
      /\ store \in [Ids -> Saved]
  BY DEF TypeInv, FilesType, CallsType, WholeInv
<1>d. \A c \in Calls : job = [job EXCEPT ![c] = job[c]]
  BY <1>c
<1>e. ASSUME NEW c \in Calls, Works(c)  PROVE \A d \in Calls \ {c} : ~Works(d)
  BY <1>a, <1>e DEF OneAtWork
<1>f. ASSUME NEW c \in Calls, \A d \in Calls \ {c} : ~Works(d), ~Setting(c), NEW i \in Ids
      PROVE  OfModes(codex, i, store[i])
  BY <1>a, <1>f DEF Wanted, Setting, Works
<1>g. ASSUME NEW more, Upset(Overlap \cup more)  PROVE \A d \in Calls : ~Works(d)
  <2>1. Overlap = {}
    BY <1>g DEF Upset, Overlap
  <2> QED  BY <2>1 DEF Overlap, Works
<1>h. ASSUME NEW c \in Calls, ~Setting(c), Return(c), UNCHANGED <<store, codex>>  PROVE Wanted'
  BY <1>a, <1>h, WantedApart DEF Return
<1>i. \A text, i : AsWanted(text, i) <=> OfModes(text, i, store[i])
  BY DEF AsWanted, OfModes
<1>j. ASSUME NEW c \in Calls, NEW label \in {"save", "deregister"}, NEW work, Begin(c, label, work),
             \A d \in Calls : ~Works(d)
      PROVE  Wanted'
  <2>1. Goto(c, label) /\ job' = [job EXCEPT ![c] = work] /\ UNCHANGED <<store, codex>>
    BY <1>j DEF Begin, files
  <2>2. ~Setting(c)
    BY <1>j DEF Setting, Works
  <2>3. \A i \in Ids : OfModes(codex', i, store'[i])
    BY <1>f, <1>j, <2>1, <2>2
  <2> QED  BY <1>j, <2>1, <2>3, WantedAlone
<1>k. ASSUME NEW c \in Calls, \A d \in Calls \ {c} : ~Works(d), NEW place \in {"idle", "forget"}, Goto(c, place),
             NEW work, job' = [job EXCEPT ![c] = work], \A i \in Ids : OfModes(codex', i, store'[i])
      PROVE  Wanted'
  <2>1. place \notin {"write", "rewrite"}
    BY <1>k
  <2> QED  BY <1>k, <2>1, WantedAlone
<1>1. ASSUME NEW c \in Calls, SetupStart(c)  PROVE Wanted'
  <2>1. PICK work : Begin(c, "save", work) /\ Upset(Overlap)
    BY <1>1 DEF SetupStart
  <2>2. \A d \in Calls : ~Works(d)
    BY <1>g, <2>1
  <2> QED  BY <1>j, <2>1, <2>2
<1>2. ASSUME NEW c \in Calls, SetupSave(c)  PROVE Wanted'
  <2>1. PICK ok \in BOOLEAN :
          /\ store' = [store EXCEPT ![job[c].id] = AtomicWrite(ok, @, job[c].value)]
          /\ IF ok /\ job[c].register THEN Goto(c, "register") /\ UNCHANGED job ELSE Return(c)
          /\ Upset(IF ok /\ ~job[c].register THEN {"unregistered"} ELSE {})
    BY <1>2 DEF SetupSave
  <2>2. job[c].id \in Ids /\ Works(c) /\ ~Setting(c) /\ codex' = codex
    BY <1>2 DEF SetupSave, At, TypeInv, CallsType, JobFits, SetupJob, Works, Setting
  <2>3. CASE ok
    <3>1. Goto(c, "register") /\ job' = [job EXCEPT ![c] = job[c]]
      BY <1>b, <1>d, <2>1, <2>3
    <3>2. \A i \in Ids \ {job[c].id} : store'[i] = store[i]
      BY <1>c, <2>1, <2>2
    <3>3. \A i \in Ids \ {job[c].id} : OfModes(codex', i, store'[i])
      BY <1>e, <1>f, <2>2, <3>2
    <3> QED  BY <1>e, <2>2, <3>1, <3>3, WantedAlone
  <2>4. CASE ~ok
    <3>1. store' = store
      BY <1>c, <2>1, <2>2, <2>4 DEF AtomicWrite
    <3> QED  BY <1>h, <2>1, <2>2, <2>4, <3>1
  <2> QED  BY <2>3, <2>4
<1>3. ASSUME NEW c \in Calls, UpdateRead(c)  PROVE Wanted'
  <2>1. job[c].id \in Ids /\ Works(c) /\ UNCHANGED <<store, codex>>
    BY <1>3 DEF UpdateRead, At, TypeInv, CallsType, JobFits, SetupJob, Works, files
  <2> DEFINE text == RemoveManagedBlock(codex, job[c].id) \o RenderCodexBlock(job[c].id, store[job[c].id])
             work == [id |-> job[c].id, read |-> codex, write |-> text]
  <2>2. store[job[c].id] # NoProfile /\ Rewrites(c, "write", text)
    BY <1>3, <1>b DEF UpdateRead
  <2>3. ~InTheWay(codex, job[c].id)
    BY <1>b, <2>2 DEF Rewrites
  <2>4. \A i \in Ids \ {job[c].id} : OfModes(codex, i, store[i])
    BY <1>a, <1>e, <2>1 DEF Wanted, Setting, Works
  <2>5. \A i \in Ids : OfModes(text, i, store[i])
    BY <1>a, <1>c, <1>i, <2>1, <2>2, <2>3, <2>4, RegisterServed
  <2>6. Goto(c, "write") /\ job' = [job EXCEPT ![c] = work]
    BY <2>2 DEF Rewrites
  <2> HIDE DEF text
  <2>7. work.write = text /\ work.id = job[c].id
    OBVIOUS
  <2> HIDE DEF work
  <2>8. /\ \A i \in Ids : OfModes(codex', i, store'[i]) \/ work.id = i
        /\ \A i \in Ids : OfModes(work.write, i, store'[i])
    BY <2>1, <2>4, <2>5, <2>7
  <2> QED  BY <1>e, <2>1, <2>6, <2>8, WantedAlone
<1>4. ASSUME NEW c \in Calls, UpdateWrite(c)  PROVE Wanted'
  <2>1. Works(c) /\ \A i \in Ids : OfModes(job[c].write, i, store[i])
    BY <1>4, <1>a DEF UpdateWrite, At, Works, Wanted, WantedJob
  <2>2. codex' = job[c].write /\ store' = store
    BY <1>4, <1>b DEF UpdateWrite, AtomicWrite
  <2>3. \A i \in Ids : OfModes(codex', i, store'[i])
    BY <2>1, <2>2
  <2> QED  BY <1>4, <1>e, <1>k, <2>1, <2>3 DEF UpdateWrite, Return
<1>5. ASSUME NEW c \in Calls, RemoveStart(c)  PROVE Wanted'
  <2>1. PICK work, more : Begin(c, "deregister", work) /\ Upset(Overlap \cup more)
    BY <1>5 DEF RemoveStart
  <2>2. \A d \in Calls : ~Works(d)
    BY <1>g, <2>1
  <2> QED  BY <1>j, <2>1, <2>2
<1>6. ASSUME NEW c \in Calls, DeregisterRead(c)  PROVE Wanted'
  <2>1. job[c].id \in Ids /\ Works(c) /\ ~Setting(c) /\ UNCHANGED <<store, codex>>
    BY <1>6 DEF DeregisterRead, At, TypeInv, CallsType, JobFits, RemoveJob, Works, Setting, files
  <2>2. \A i \in Ids : OfModes(codex, i, store[i])
    BY <1>e, <1>f, <2>1
  <2> DEFINE text == RemoveManagedBlock(codex, job[c].id)
             work == [id |-> job[c].id, read |-> codex, write |-> text]
  <2>3. CASE Rewrites(c, "rewrite", text)
    <3>1. \A i \in Ids : OfModes(text, i, store[i])
      BY <1>c, <1>i, <2>1, <2>2, RemoveServed
    <3>2. Goto(c, "rewrite") /\ job' = [job EXCEPT ![c] = work]
      BY <2>3 DEF Rewrites
    <3> HIDE DEF text
    <3>3. work.write = text
      OBVIOUS
    <3> HIDE DEF work
    <3>4. /\ \A i \in Ids : OfModes(codex', i, store'[i])
          /\ \A i \in Ids : OfModes(work.write, i, store'[i])
      BY <2>1, <2>2, <3>1, <3>3
    <3> QED  BY <1>e, <2>1, <3>2, <3>4, WantedAlone
  <2>4. CASE Goto(c, "forget") /\ UNCHANGED job
    <3>1. Goto(c, "forget") /\ job' = [job EXCEPT ![c] = job[c]]
      BY <1>d, <2>4
    <3>2. \A i \in Ids : OfModes(codex', i, store'[i])
      BY <2>1, <2>2
    <3> QED  BY <1>e, <1>k, <2>1, <3>1, <3>2
  <2> QED  BY <1>6, <2>3, <2>4 DEF DeregisterRead
<1>7. ASSUME NEW c \in Calls, DeregisterWrite(c)  PROVE Wanted'
  <2>1. Works(c) /\ \A i \in Ids : OfModes(job[c].write, i, store[i])
    BY <1>7, <1>a DEF DeregisterWrite, At, Works, Wanted, WantedJob
  <2>2. codex' = job[c].write /\ store' = store
    BY <1>7, <1>b DEF DeregisterWrite, AtomicWrite
  <2>3. \A i \in Ids : OfModes(codex', i, store'[i])
    BY <2>1, <2>2
  <2>4. Goto(c, "forget") /\ job' = [job EXCEPT ![c] = job[c]]
    BY <1>d, <1>7 DEF DeregisterWrite
  <2> QED  BY <1>e, <1>k, <2>1, <2>3, <2>4
<1>8. ASSUME NEW c \in Calls, RemoveProfile(c)  PROVE Wanted'
  <2>1. Works(c) /\ ~Setting(c) /\ codex' = codex /\ ~Registered(codex, job[c].id)
    BY <1>8, <1>a DEF RemoveProfile, At, Works, Setting, Served, ServedJob
  <2>2. \A i \in Ids \ {job[c].id} : store'[i] = store[i]
    BY <1>8, <1>c DEF RemoveProfile
  <2>3. OfModes(codex', job[c].id, store'[job[c].id])
    BY <2>1 DEF OfModes, Registered
  <2>4. \A i \in Ids : OfModes(codex', i, store'[i])
    BY <1>e, <1>f, <2>1, <2>2, <2>3
  <2> QED  BY <1>8, <1>e, <1>k, <2>1, <2>4 DEF RemoveProfile, Return
<1>9. ASSUME NEW c \in Calls, NEW id \in Ids, NEW flags \in Flags, Import(c, id, flags)  PROVE Wanted'
  BY <1>9 DEF Import, Upset
<1>10. ASSUME NEW c \in Calls, PutRead(c)  PROVE Wanted'
  <2>1. ~Setting(c)
    BY <1>10 DEF PutRead, Begin, At, Setting
  <2> QED  BY <1>10, <1>a, <2>1, WantedApart DEF PutRead, Begin, files
<1>11. ASSUME NEW c \in Calls, PutWrite(c)  PROVE Wanted'
  BY <1>11, <1>h DEF PutWrite, At, Setting
<1>12. ASSUME NEW c \in Calls, Kill(c)  PROVE Wanted'
  <2>1. ~Setting(c)
    BY <1>12, <1>b DEF Kill, Setting
  <2> QED  BY <1>12, <1>h, <2>1 DEF Kill, files
<1>13. ASSUME NEW l \in [kind : {"own", "text"}, id : Ids, mode : {"db"}], Edit(l)  PROVE Wanted'
  <2>1. l \in Line /\ Plain(l)
    BY DEF Line, Plain, Modes
  <2>2. \A i \in Ids : AsWanted(codex, i) => AsWanted(codex', i)
    <3>1. CASE \E n \in DOMAIN codex : codex[n] = l /\ codex' = RemoveAt(codex, n)
      BY <1>c, <2>1, <3>1, EditedOut
    <3>2. CASE codex' = Append(codex, l)
      BY <1>c, <2>1, <3>2, EditedIn
    <3> QED  BY <1>13, <3>1, <3>2 DEF Edit
  <2>3. \A i \in Ids : OfModes(codex, i, store[i]) => OfModes(codex', i, store'[i])
    BY <1>13, <1>i, <2>2 DEF Edit
  <2> QED  BY <1>13, <1>a, <2>3 DEF Edit, Wanted, WantedJob, Setting
<1>14. CASE UNCHANGED profilesVars
  BY <1>14, <1>a DEF profilesVars, Wanted, WantedJob, Setting
<1> QED  BY <1>1, <1>2, <1>3, <1>4, <1>5, <1>6, <1>7, <1>8, <1>9, <1>10, <1>11, <1>12, <1>13, <1>14
         DEF ProfilesNext

-----------------------------------------------------------------------------
(* The theorems *)

ProfilesInv == TypeInv /\ WholeInv /\ ServedInv /\ ModeInv

\* The invariants together are inductive.
LEMMA ProfilesInductive == ProfilesSpec => []ProfilesInv
<1>1. ProfilesInit => ProfilesInv
  BY TypeInit, WholeInit, ServedInit, ModeInit DEF ProfilesInv
<1>2. ProfilesInv /\ [ProfilesNext]_profilesVars => ProfilesInv'
  <2>1. ProfilesInv => WellFormed(codex)
    BY DEF ProfilesInv, WholeInv
  <2> QED  BY <2>1, TypeStep, WholeStep, ServedStep, ModeStep DEF ProfilesInv
<1> QED  BY <1>1, <1>2, PTL DEF ProfilesSpec

\* The files hold what can be written to them, and a call that is over no work.
THEOREM ProfilesTypes == ProfilesSpec => []ProfilesTypeOK
<1>1. ProfilesInv => ProfilesTypeOK
  BY DEF ProfilesInv, TypeInv, FilesType, CallsType, CountsType, JobFits, ProfilesTypeOK, Text, Saved, Stages,
         Causes, At
<1> QED  BY <1>1, ProfilesInductive, PTL

\* The server does not refuse the options it is started with, but for a root of external
\* objects without the two connections that takes.
LEMMA OptionsAccepted ==
  ASSUME NEW value, NEW mode \in Modes
  PROVE  \/ Accepted(Options(value, mode))
         \/ mode = "edt" /\ "external_objects_root" \in value
            /\ ~({"edt_bridge", "ditrix_url", "ditrix_project"} \subseteq value)
<1> DEFINE options == Options(value, mode)
<1>1. CASE mode = "db"
  <2>1. /\ "ditrix_url" \notin options /\ "ditrix_project" \notin options /\ "edt_bridge" \notin options
        /\ "external_objects_root" \notin options
        /\ "platform" \in options <=> "infobase" \in options
    BY <1>1 DEF Options
  <2> QED  BY <2>1 DEF Accepted
<1>2. CASE mode = "edt"
  <2>1. /\ "platform" \notin options /\ "infobase" \notin options
        /\ "ditrix_url" \in options <=> "ditrix_project" \in options
        /\ "edt_bridge" \in options <=> "edt_bridge" \in value
        /\ "ditrix_url" \in options <=> {"ditrix_url", "ditrix_project"} \subseteq value
        /\ "external_objects_root" \in options <=> "external_objects_root" \in value
    BY <1>2 DEF Options
  <2> QED  BY <1>2, <2>1 DEF Accepted
<1> QED  BY <1>1, <1>2 DEF Modes

\* A server that Codex is told to start has its profile, of its mode, and is not refused,
\* but for what disturbed the commands.
THEOREM ServedTheorem == ProfilesSpec => []RegisteredIsServed
<1>1. ASSUME ProfilesInv  PROVE RegisteredIsServed
  <2> SUFFICES ASSUME NEW n \in DOMAIN codex, codex[n].kind = "server"
               PROVE  /\ upset \subseteq {"unregistered"} => store[codex[n].id] # NoProfile
                      /\ (upset = {} /\ \A c \in Calls : At(c, "idle")) => codex[n].mode \in Wants(store[codex[n].id])
                      /\ store[codex[n].id] # NoProfile =>
                           \/ Accepted(Options(store[codex[n].id], codex[n].mode))
                           \/ codex[n].mode = "edt" /\ "external_objects_root" \in store[codex[n].id]
                              /\ ~({"edt_bridge", "ditrix_url", "ditrix_project"} \subseteq store[codex[n].id])
    BY DEF RegisteredIsServed
  <2>1. codex[n].id \in Ids /\ codex[n].mode \in Modes
    <3>1. codex \in Seq(Line)
      BY <1>1 DEF ProfilesInv, TypeInv, FilesType, Text
    <3>2. codex[n] \in Line
      BY <3>1
    <3> QED  BY <3>2 DEF Line
  <2>2. ASSUME upset \subseteq {"unregistered"}  PROVE store[codex[n].id] # NoProfile
    <3>1. Registered(codex, codex[n].id)
      BY DEF Registered
    <3> QED  BY <1>1, <2>1, <2>2, <3>1 DEF ProfilesInv, ServedInv, Served, HaveProfiles
  <2>3. ASSUME upset = {}, \A c \in Calls : At(c, "idle")  PROVE codex[n].mode \in Wants(store[codex[n].id])
    <3>1. \A c \in Calls : ~Setting(c)
      BY <2>3 DEF At, Setting
    <3>2. OfModes(codex, codex[n].id, store[codex[n].id])
      BY <1>1, <2>1, <2>3, <3>1 DEF ProfilesInv, ModeInv, Wanted
    <3> QED  BY <3>2 DEF OfModes
  <2> QED  BY <2>1, <2>2, <2>3, OptionsAccepted
<1> QED  BY <1>1, ProfilesInductive, PTL

\* Where a call is changes by a step of its own.
LEMMA OwnStep ==
  ASSUME TypeInv, [ProfilesNext]_profilesVars, NEW c \in Calls, doing'[c] # doing[c]
  PROVE  \/ SetupStart(c) \/ SetupSave(c) \/ UpdateRead(c) \/ UpdateWrite(c)
         \/ RemoveStart(c) \/ DeregisterRead(c) \/ DeregisterWrite(c) \/ RemoveProfile(c)
         \/ PutRead(c) \/ PutWrite(c) \/ Kill(c)
<1>1. ASSUME NEW d \in Calls, NEW place, Goto(d, place)  PROVE d = c
  BY <1>1 DEF Goto, TypeInv, CallsType
<1>2. ASSUME NEW d \in Calls,
             \/ SetupStart(d) \/ SetupSave(d) \/ UpdateRead(d) \/ UpdateWrite(d)
             \/ RemoveStart(d) \/ DeregisterRead(d) \/ DeregisterWrite(d) \/ RemoveProfile(d)
             \/ PutRead(d) \/ PutWrite(d) \/ Kill(d)
      PROVE  d = c
  BY <1>1, <1>2 DEF SetupStart, SetupSave, UpdateRead, UpdateWrite, RemoveStart, DeregisterRead, DeregisterWrite,
                    RemoveProfile, PutRead, PutWrite, Kill, Begin, Return, Rewrites
<1>3. ASSUME NEW d, NEW id, NEW flags, Import(d, id, flags)  PROVE FALSE
  BY <1>3 DEF Import
<1>4. ASSUME NEW l, Edit(l)  PROVE FALSE
  BY <1>4 DEF Edit
<1>5. ~UNCHANGED profilesVars
  BY DEF profilesVars
<1> QED  BY <1>2, <1>3, <1>4, <1>5 DEF ProfilesNext

\* "Appends or replaces only blocks previously managed by this application", and a note
\* keeps the others, unless the file was changed after it was read.
THEOREM LostTheorem == ProfilesSpec => NothingIsLost
<1>1. ASSUME ProfilesInv, [ProfilesNext]_profilesVars, NEW c \in Calls,
             doing[c] \in {"write", "rewrite"}, doing'[c] # doing[c], codex' # codex, job[c].read = codex
      PROVE  /\ SameOthers(codex, codex', job[c].id)
             /\ Block(codex, job[c].id) # <<>> \/ ~Taken(codex, job[c].id)
  <2>1. UpdateWrite(c) \/ DeregisterWrite(c)
    <3>1. ~UNCHANGED codex /\ ~UNCHANGED files
      BY <1>1 DEF files
    <3> QED  BY <1>1, <3>1, OwnStep DEF ProfilesInv, SetupStart, SetupSave, UpdateRead, RemoveStart, DeregisterRead,
                    RemoveProfile, PutRead, PutWrite, Kill, Begin
  <2>2. codex' = job[c].write
    BY <1>1, <2>1 DEF UpdateWrite, DeregisterWrite, AtomicWrite
  <2>3. Rewritten(job[c])
    BY <1>1 DEF ProfilesInv, WholeInv, WholeJob
  <2> QED  BY <1>1, <2>2, <2>3 DEF Rewritten
<1>2. ASSUME ProfilesInv, [ProfilesNext]_profilesVars, NEW c \in Calls,
             At(c, "note"), doing'[c] # doing[c], notes' # notes, job[c].read = notes,
             NEW k \in Keys \ {job[c].key}
      PROVE  notes'[k] = notes[k]
  <2>1. PutWrite(c)
    <3>1. ~UNCHANGED notes /\ ~UNCHANGED files
      BY <1>2 DEF files
    <3> QED  BY <1>2, <3>1, OwnStep DEF ProfilesInv, SetupStart, SetupSave, UpdateRead, UpdateWrite, RemoveStart,
                    DeregisterRead, DeregisterWrite, RemoveProfile, PutRead, Kill, Begin
  <2>2. notes \in [Keys -> 0..MaxCalls]
    BY <1>2 DEF ProfilesInv, TypeInv, FilesType
  <2> QED  BY <1>2, <2>1, <2>2 DEF PutWrite, AtomicWrite
<1>3. ProfilesInv /\ [ProfilesNext]_profilesVars =>
        [\A c \in Calls :
           /\ (doing[c] \in {"write", "rewrite"} /\ doing'[c] # doing[c] /\ codex' # codex
               /\ job[c].read = codex) =>
                LET id == job[c].id IN
                /\ SameOthers(codex, codex', id)
                /\ Block(codex, id) # <<>> \/ ~Taken(codex, id)
           /\ (At(c, "note") /\ doing'[c] # doing[c] /\ notes' # notes /\ job[c].read = notes) =>
                \A k \in Keys \ {job[c].key} : notes'[k] = notes[k]]_profilesVars
  BY <1>1, <1>2
<1> QED  BY <1>3, ProfilesInductive, PTL DEF ProfilesSpec, NothingIsLost
=============================================================================
