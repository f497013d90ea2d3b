-------------------------- MODULE DependencyInstall --------------------------
(***************************************************************************)
(* Installing Python packages for plugins: DependencyManager of deps.py.   *)
(* All callers share one directory and one lock.  pip adds the metadata of *)
(* a new version beside that of the old one, so which version is installed *)
(* is decided by when the metadata was written.                            *)
(*                                                                         *)
(* pip is external: it moves one package with its metadata at a time, may  *)
(* choose any version the requirement admits, and may die in between.      *)
(***************************************************************************)
EXTENDS Naturals, FiniteSets, FiniteSetsExt

CONSTANTS Packages,
          Extra,      \* Extra[p]: packages that the extra of p requires
          Versions,   \* versions, as numbers above 0
          MaxInstalls \* bound: times at which pip moves files

ASSUME DepsAssumption ==
    /\ Versions \subseteq Nat \ {0} /\ IsFiniteSet(Versions) /\ MaxInstalls \in Nat
    /\ Extra \in [Packages -> SUBSET Packages]

VARIABLES global, \* global[p]: version in the site-packages of the image, 0: none
          code,   \* code[p]: version whose files lie in the target directory
          info,   \* info[p][v]: when the metadata of v was written, 0: not there
          clock,  \* the last such time
          job     \* the call of ensure that holds the lock

depsVars == <<global, code, info, clock, job>>

\* A plugin asks with or without an extra; the browser component is looked for
\* in the target only, and may be upgraded.
Requirement ==
    [pkg: Packages, range: (SUBSET Versions) \ {{}}, extra: BOOLEAN, target: {FALSE}, upgrade: {FALSE}]
    \cup [pkg: Packages, range: {Versions}, extra: {TRUE}, target: {TRUE}, upgrade: BOOLEAN]
NoJob == [at |-> "none"]
DepsTypeOK ==
    /\ global \in [Packages -> Versions \cup {0}] /\ code \in [Packages -> Versions \cup {0}]
    /\ info \in [Packages -> [Versions -> 0..MaxInstalls]] /\ clock \in 0..MaxInstalls
    /\ job = NoJob \/ (job.at = "pip" /\ job.req \in Requirement)

DepsInit ==
    /\ global \in [Packages -> Versions \cup {0}]
    /\ code = [p \in Packages |-> 0]
    /\ info = [p \in Packages |-> [v \in Versions |-> 0]]
    /\ clock = 0 /\ job = NoJob

-----------------------------------------------------------------------------
(* Which version is installed.                                             *)

Recorded(p) == {v \in Versions : info[p][v] # 0}
\* fault: the highest version counts.
Highest(p) == {Max(Recorded(p))}
\* _distribution in the target: the metadata written last.
Newest(p) == {v \in Recorded(p) : \A w \in Recorded(p) : info[p][w] <= info[p][v]}
\* Two that were written at the same time prove nothing.
Target(p) == IF Recorded(p) # {} /\ Cardinality(Newest(p)) = 1
             THEN CHOOSE v \in Newest(p) : TRUE ELSE 0
\* site-packages comes first on the path.
Sees(p, target) == IF ~target /\ global[p] # 0 THEN global[p] ELSE Target(p)
\* _satisfied: the root, and for an extra what the extra requires.
Satisfied(r) ==
    /\ Sees(r.pkg, r.target) \in r.range
    /\ r.extra => \A d \in Extra[r.pkg] : Sees(d, FALSE) # 0

-----------------------------------------------------------------------------
(* ensure.                                                                 *)

\* _extra_install_requirements: a root that only lacks an extra keeps its version.
Pinned(r) == IF r.extra /\ ~r.upgrade /\ Sees(r.pkg, r.target) \in r.range
             THEN {Sees(r.pkg, r.target)} ELSE r.range
\* What is missing is looked up under the lock; callers that wait for the lock,
\* and those that miss nothing, change nothing.
Install(r) ==
    /\ job = NoJob
    /\ r.upgrade \/ ~Satisfied(r)
    /\ job' = [at |-> "pip", req |-> r, before |-> info,
               root |-> Pinned(r), kept |-> Sees(r.pkg, r.target)]
    /\ UNCHANGED <<global, code, info, clock>>
\* pip moves one of the packages, each once.
Moved == {job.req.pkg} \cup (IF job.req.extra THEN Extra[job.req.pkg] ELSE {})
Offered(p) == IF p = job.req.pkg THEN job.root ELSE Versions
Moves ==
    /\ job.at = "pip" /\ clock < MaxInstalls
    /\ clock' = clock + 1
    /\ \E p \in Moved :
          /\ info[p] = job.before[p]
          /\ \E v \in Offered(p) :
                /\ code' = [code EXCEPT ![p] = v]
                /\ info' = [info EXCEPT ![p][v] = clock']
    /\ UNCHANGED <<global, job>>
\* _remove_stale_metadata: of a package pip replaced only the new record stays,
\* unless a directory cannot be removed.
Changed(p) == {v \in Recorded(p) : info[p][v] # job.before[p][v]}
Cleaned(p) ==
    IF Changed(p) = {} THEN info[p]
    ELSE [v \in Versions |-> IF v \in Changed(p) THEN info[p][v] ELSE 0]
\* pip ends well; what is still missing afterwards is an error of the caller.
Installed ==
    /\ job.at = "pip" /\ \A p \in Moved : Changed(p) # {}
    /\ \E stuck \in SUBSET Packages :
          info' = [p \in Packages |-> IF p \in stuck THEN info[p] ELSE Cleaned(p)]
    /\ job' = NoJob
    /\ UNCHANGED <<global, code, clock>>
\* pip fails, takes five minutes, or the caller is cancelled: pip is killed and
\* waited for before the lock is free.
StopsInstalling ==
    /\ job.at = "pip" /\ job' = NoJob
    /\ UNCHANGED <<global, code, info, clock>>
\* The data directory moves to another disk and all files get one time.
CopyData ==
    /\ job = NoJob /\ clock > 1
    /\ info' = [p \in Packages |-> [v \in Versions |-> IF info[p][v] = 0 THEN 0 ELSE 1]]
    /\ clock' = 1
    /\ UNCHANGED <<global, code, job>>

DepsNext ==
    \/ \E r \in Requirement : Install(r)
    \/ Moves \/ Installed \/ StopsInstalling \/ CopyData
DepsSpec == DepsInit /\ [][DepsNext]_depsVars

-----------------------------------------------------------------------------
(* Properties.                                                             *)

\* Whatever was installed, downgraded, interrupted or left uncleaned: the
\* version the manager reports is that of the files, or it reports none and
\* installs again.
VersionIsTrue == \A p \in Packages : Target(p) \in {0, code[p]}
\* Filling in an extra does not replace a root package that other plugins may
\* have imported by another version (deps.py:181).
RootIsKept ==
    job.at = "pip" /\ job.req.extra /\ ~job.req.upgrade /\ job.kept \in job.req.range
       => code'[job.req.pkg] \in {code[job.req.pkg], job.kept}
\* An installation changes no version behind the back of the plugins that run.
InstallsAreHonest == [][VersionIsTrue' /\ RootIsKept /\ DepsTypeOK']_depsVars
=============================================================================
