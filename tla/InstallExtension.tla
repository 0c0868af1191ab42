-------------------------- MODULE InstallExtension --------------------------
(***************************************************************************)
(* Installing the support extension MCP_HTTPService into an infobase       *)
(* (internal/installer/upstream.go).  The sources are unpacked, lowered to *)
(* what is known of the platform, loaded by Designer and, as long as       *)
(* Designer complains of something known, lowered further and loaded       *)
(* again, each remedy once and in one order; then the database is updated. *)
(*                                                                         *)
(* Of the sources the model keeps what a remedy can change, of the         *)
(* infobase and its platform what they complain of.  The log of a failed   *)
(* command, which the code searches for words, may name any of the         *)
(* complaints, in any order and maybe none of them, but no other.          *)
(* Any command may also fail for a reason of its own (a locked infobase, a *)
(* wrong password), and the installer may be killed between two commands;  *)
(* whoever installs tries again on what is left.                           *)
(***************************************************************************)
EXTENDS Integers, Sequences

CONSTANTS
  Platforms,   \* versions <<major, minor>> of 8.major.minor
  None,        \* no extension; no version known
  MaxInstalls  \* bound: times the installer is run

ASSUME InstallAssumption ==
  /\ Platforms \subseteq Nat \X Nat /\ None \notin Nat \X Nat
  /\ MaxInstalls \in Nat

VARIABLES
  base,     \* the infobase and the platform it runs on
  known,    \* [exe, given]: version in the path of the platform, version in the options
  src,      \* the unpacked sources
  loaded,   \* the configuration of the extension in the infobase
  applied,  \* the extension the database works with
  pc, err,  \* what the installer does; what the log of the last load names
  stage,    \* remedies before this one have had their turn
  noted,    \* the user has been told to assign the role
  installs, \* counter of the bound
  disturbed, \* history: something else went wrong in this install
  missed    \* history: complaints of this install the log did not name in their turn

vars == <<base, known, src, loaded, applied, pc, err, stage, noted, installs, disturbed, missed>>

-----------------------------------------------------------------------------
(* Versions *)

OlderThan(version, other) ==
  IF version[1] # other[1] THEN version[1] < other[1] ELSE version[2] < other[2]

\* The XML format (2.7 is 70, 2.9.1 is 91) a minor version of 8.3 introduced.
PlatformFormatVersions ==
  <<<<27, 200>>, <<26, 190>>, <<25, 180>>, <<24, 170>>, <<23, 160>>, <<22, 150>>, <<21, 140>>,
    <<20, 130>>, <<19, 120>>, <<18, 110>>, <<17, 100>>, <<16, 91>>, <<15, 90>>, <<14, 80>>>>

\* The entries of the table that apply to a version, and the first of them.
Applying(version) ==
  {i \in DOMAIN PlatformFormatVersions : version[1] = 3 /\ version[2] >= PlatformFormatVersions[i][1]}

First(version) == CHOOSE i \in Applying(version) : \A j \in Applying(version) : i <= j

\* Mutant: no default.
FormatVersionWithoutDefault(version) ==
  IF version = None \/ Applying(version) = {} THEN 0 ELSE PlatformFormatVersions[First(version)][2]

\* The format written for a platform.
FormatVersionForPlatform(version) ==
  IF version = None THEN 70
  ELSE IF version[1] >= 5 THEN 210
  ELSE IF Applying(version) = {} THEN 70 ELSE PlatformFormatVersions[First(version)][2]

\* The release notes: the platform reads the formats up to its own.
Reads(version, format) ==
  \/ format = 70
  \/ ~OlderThan(version, <<5, 0>>) /\ format <= 210
  \/ \E i \in DOMAIN PlatformFormatVersions :
       /\ ~OlderThan(version, <<3, PlatformFormatVersions[i][1]>>)
       /\ format <= PlatformFormatVersions[i][2]

-----------------------------------------------------------------------------
(* The infobase: what Designer complains of *)

\* compat: the highest compatibility mode an extension may ask for (Designer takes
\* "DontUse", 0, from everyone); inherited: where inherited properties are refused.
Base == [platform : Platforms, managed : BOOLEAN, compat : {0, 10, 14}, overwrites : BOOLEAN,
         inherited : {"load", "update", "never"}, extensions : BOOLEAN]

Source == [format : 70..210, modern : BOOLEAN, compat : {0, 10, 14}, runMode : BOOLEAN,
           inherited : BOOLEAN]

ASSUME NoneAssumption == None \notin Source

Topics == {"exists", "modern", "runMode", "compat", "inherited", "missing", "other"}

LoadComplaints ==
  {t \in Topics :
    \/ t = "exists"    /\ loaded # None /\ ~base.overwrites
    \/ t = "modern"    /\ src.modern /\ OlderThan(base.platform, <<3, 15>>)
    \/ t = "runMode"   /\ src.runMode /\ ~base.managed
    \/ t = "compat"    /\ src.compat > base.compat
    \/ t = "inherited" /\ src.inherited /\ base.inherited = "load"
    \/ t = "other"     /\ ~Reads(base.platform, src.format)}

UpdateComplaints ==
  {t \in Topics :
    \/ t = "missing"   /\ loaded = None
    \/ t = "inherited" /\ loaded # None /\ loaded.inherited /\ base.inherited = "update"}

-----------------------------------------------------------------------------
(* The remedies *)

\* Mutant: no last resort.
RemediesWithoutDontUse == <<"exists", "modern", "runMode", "compat10", "inherited">>

\* In the order the code tries them, each once.
Remedies == <<"exists", "modern", "runMode", "compat10", "compat0", "inherited">>

Topic(remedy) == IF remedy \in {"compat10", "compat0"} THEN "compat" ELSE remedy

\* stripUnsupportedElements, defaultRunModeRe, patchExtensionXML, stripInheritedProperties
StripInherited(s) ==
  [format |-> s.format, modern |-> s.modern, compat |-> s.compat, runMode |-> FALSE, inherited |-> FALSE]

\* Mutant: the compatibility mode goes at once.
RemediedAtOnce(s, remedy) ==
  CASE remedy = "exists"    -> s
    [] remedy = "modern"    -> [s EXCEPT !.modern = FALSE]
    [] remedy = "runMode"   -> [s EXCEPT !.runMode = FALSE]
    [] remedy \in {"compat10", "compat0"} -> [s EXCEPT !.compat = 0]
    [] remedy = "inherited" -> StripInherited(s)

\* The sources after a remedy.
Remedied(s, remedy) ==
  CASE remedy = "exists"    -> s
    [] remedy = "modern"    -> [s EXCEPT !.modern = FALSE]
    [] remedy = "runMode"   -> [s EXCEPT !.runMode = FALSE]
    [] remedy = "compat10"  -> [s EXCEPT !.compat = 10]
    [] remedy = "compat0"   -> [s EXCEPT !.compat = 0]
    [] remedy = "inherited" -> StripInherited(s)

\* The sources as embedded, lowered at once for a platform known to be old.
Unpacked ==
  LET version == IF known.given # None THEN known.given ELSE known.exe
      old == version # None /\ OlderThan(version, <<3, 14>>)
  IN [format |-> FormatVersionForPlatform(known.exe), modern |-> ~old,
      compat |-> IF old THEN 10 ELSE 14, runMode |-> ~old, inherited |-> ~old]

TooOld ==
  LET version == IF known.given # None THEN known.given ELSE known.exe
  IN version # None /\ OlderThan(version, <<3, 10>>)

\* Another build of the extension.
Foreign == [format |-> 70, modern |-> TRUE, compat |-> 0, runMode |-> FALSE, inherited |-> FALSE]

Init ==
  /\ base \in Base
  /\ known \in [exe : {None, base.platform}, given : {None, base.platform}]
  /\ loaded \in IF base.extensions THEN {None, Foreign} ELSE {None}
  /\ applied = loaded
  /\ src = None /\ pc = "idle" /\ err = {} /\ stage = 1 /\ noted = FALSE
  /\ installs = 0 /\ disturbed = FALSE /\ missed = {}

-----------------------------------------------------------------------------
(* The steps of an install *)

\* The sources are unpacked and lowered; a platform known to be too old is refused.
Start ==
  /\ pc \in {"idle", "done", "failed"} /\ installs < MaxInstalls /\ installs' = installs + 1
  /\ src' = Unpacked
  /\ noted' = ~src'.inherited
  /\ pc' = IF TooOld THEN "failed" ELSE "load"
  /\ err' = {} /\ stage' = 1 /\ disturbed' = FALSE /\ missed' = {}
  /\ UNCHANGED <<base, known, loaded, applied>>

Command(at) ==
  /\ pc = at
  /\ UNCHANGED <<base, known, src, installs, disturbed, missed>>

\* /LoadConfigFromFiles -Extension; a configuration that cannot hold extensions accepts
\* the command and does nothing.  After the last remedy the user is told of the role.
Load ==
  /\ Command("load")
  /\ IF LoadComplaints = {}
       THEN /\ pc' = "update" /\ err' = {} /\ noted' = (noted \/ stage > Len(Remedies))
            /\ loaded' = IF base.extensions THEN src ELSE loaded
       ELSE /\ pc' = "judge" /\ err' \in SUBSET LoadComplaints
            /\ UNCHANGED <<loaded, noted>>
  /\ UNCHANGED <<applied, stage>>

\* The complaints whose remedies before turn n are passed over.
PassedOver(n) == {t \in LoadComplaints : \E i \in stage..(n - 1) : t = Topic(Remedies[i])}

\* The next remedy for a complaint the log names, or the end of the cascade.
Judge ==
  /\ pc = "judge"
  /\ LET fits == {i \in stage..Len(Remedies) : Topic(Remedies[i]) \in err} IN
     \/ /\ fits = {} /\ pc' = "failed"
        /\ missed' = missed \cup PassedOver(Len(Remedies) + 1) /\ UNCHANGED <<src, stage>>
     \/ \E next \in fits :
          /\ \A i \in fits : next <= i
          /\ src' = Remedied(src, Remedies[next]) /\ stage' = next + 1
          /\ missed' = missed \cup PassedOver(next)
          /\ pc' = IF Remedies[next] = "exists" THEN "delete" ELSE "load"
  /\ UNCHANGED <<base, known, loaded, applied, err, noted, installs, disturbed>>

\* /ManageCfgExtensions -delete
Delete ==
  /\ Command("delete") /\ pc' = "load"
  /\ loaded' = None /\ applied' = None
  /\ UNCHANGED <<err, stage, noted>>

\* /UpdateDBCfg -Extension; inherited properties may be refused only now.
Update ==
  /\ pc = "update"
  /\ \/ /\ UpdateComplaints = {}
        /\ pc' = "done" /\ applied' = loaded /\ UNCHANGED <<src, missed>>
     \/ /\ "inherited" \in UpdateComplaints
        /\ src' = StripInherited(src) /\ pc' = "reload" /\ UNCHANGED <<applied, missed>>
     \/ /\ UpdateComplaints # {}
        /\ missed' = missed \cup (UpdateComplaints \ {"missing"})
        /\ pc' = "failed" /\ UNCHANGED <<src, applied>>
  /\ UNCHANGED <<base, known, loaded, err, stage, noted, installs, disturbed>>

\* The extension is loaded over itself, without another remedy and without a deletion.
Reload ==
  /\ Command("reload")
  /\ IF LoadComplaints = {} THEN pc' = "update again" /\ loaded' = src
     ELSE pc' = "failed" /\ UNCHANGED loaded
  /\ UNCHANGED <<applied, err, stage, noted>>

UpdateAgain ==
  /\ pc = "update again"
  /\ IF UpdateComplaints = {} THEN pc' = "done" /\ applied' = loaded /\ noted' = TRUE
     ELSE pc' = "failed" /\ UNCHANGED <<applied, noted>>
  /\ UNCHANGED <<base, known, src, loaded, err, stage, installs, disturbed, missed>>

Running == pc \notin {"idle", "done", "failed"}

\* A command fails for a reason of its own, a temporary file cannot be written, or the
\* installer is killed: in the cascade too, no remedy fits.
Disturb ==
  /\ Running
  /\ pc' = "failed" /\ disturbed' = TRUE
  /\ UNCHANGED <<base, known, src, loaded, applied, err, stage, noted, installs, missed>>

Next ==
  \/ Start \/ Load \/ Judge \/ Delete \/ Update \/ Reload \/ UpdateAgain \/ Disturb

Spec == Init /\ [][Next]_vars

-----------------------------------------------------------------------------
(* Properties *)

\* Every variable has its type; a running install has its sources.
TypeOK ==
  /\ base \in Base /\ src \in Source \cup {None}
  /\ loaded \in Source \cup {None} /\ applied \in Source \cup {None}
  /\ pc \in {"idle", "load", "judge", "delete", "update", "reload", "update again", "done", "failed"}
  /\ err \subseteq Topics /\ stage \in 1..(Len(Remedies) + 1)
  /\ Running => src \in Source
  /\ noted \in BOOLEAN /\ disturbed \in BOOLEAN /\ missed \subseteq Topics /\ installs \in 0..MaxInstalls

\* The base refused inherited properties only when the database was updated, and does not
\* let a load replace an extension: that of the first load stands in the way of the second.
InItsOwnWay ==
  /\ base.inherited = "update" /\ ~base.overwrites
  /\ loaded # None /\ loaded.inherited /\ ~src.inherited

\* Whatever the platform and the base complain of, and whatever an install that failed
\* or was killed has left, the remedies are enough: an install that nothing disturbs
\* puts its extension to work, unless the platform is too old, the base holds no
\* extensions, the extension it loaded itself is in the way, or a complaint that still
\* stands was not named in the log of the load when its remedy had its turn.
SucceedsWherePossible ==
  /\ pc = "done" => applied = src
  /\ (pc = "failed" /\ ~disturbed /\ base.extensions) =>
       \/ TooOld \/ InItsOwnWay
       \/ (LoadComplaints \cup UpdateComplaints) \cap missed # {}

\* "Only fall back to DontUse as a last resort": what is put to work asks for less than
\* the embedded sources only where the base or the platform does not take them, and
\* nobody is left without the role of DefaultRoles, which goes with the inherited
\* properties before the load, in the cascade or after the update, and without being told.
NoMoreThanNeeded ==
  /\ (pc = "done" /\ ~applied.inherited) => noted
  /\ (pc = "done" /\ ~OlderThan(base.platform, <<3, 14>>)) =>
    /\ ~applied.modern => OlderThan(base.platform, <<3, 15>>)
    /\ ~applied.runMode => ~base.managed \/ base.inherited # "never"
    /\ applied.compat = 0 => base.compat = 0
    /\ applied.compat = 10 => base.compat # 14
    /\ ~applied.inherited => base.inherited # "never"

=============================================================================
