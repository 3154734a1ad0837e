---------------------------- MODULE ArtifactCache ----------------------------
(***************************************************************************)
(* How a process gets the reviewed model and its code: KaiRuntime's        *)
(* constructor (decision/runtime.py) downloads the artifact unless it is   *)
(* cached, verifies every byte and only then imports it                    *)
(* (decision/artifact.py).  Processes share the cache directory; each may  *)
(* crash anywhere and be started again, and a start that failed may be     *)
(* repeated in the same process, where sys.modules remembers the first.    *)
(*                                                                         *)
(* Left out: symbolic links, paths and sizes, which verify_artifact refuses*)
(* like a wrong digest, and what the payloads contain.                     *)
(***************************************************************************)
EXTENDS Naturals, FiniteSets

CONSTANTS Processes,
          Given,       \* those configured with this directory as artifact_dir
          Payloads,    \* the names in the manifest
          Manifest,    \* MANIFEST.json
          MaxFaults    \* bound of the model: crashes, outages, damages

ASSUME GivenAssumption  == Given \subseteq Processes
ASSUME FilesAssumption  == Manifest \notin Payloads
ASSUME FaultsAssumption == MaxFaults \in Nat

Files == Payloads \cup {Manifest}

VARIABLES
  disk,      \* disk[f]: "absent", "good" or "bad"
  litter,    \* other things below native/: bytecode, stray files
  network,   \* whether the hub can be reached
  proc,      \* proc[p]: where the start of p is
  todo,      \* todo[p]: the payloads that p has still to verify
  package,   \* package[p]: the namespace in p's sys.modules
  faults

cacheVars == <<disk, litter, network, proc, todo, package, faults>>
diskVars == <<disk, litter>>
envVars  == <<network, faults>>

CacheInit ==
  /\ disk = [f \in Files |-> "absent"] /\ litter = {}
  /\ network \in BOOLEAN
  /\ proc = [p \in Processes |-> "down"]
  /\ todo = [p \in Processes |-> {}]
  /\ package = [p \in Processes |-> "none"]
  /\ faults = 0

Goto(p, s) == proc' = [proc EXCEPT ![p] = s]

-----------------------------------------------------------------------------
(* KaiRuntime.__init__, step by step. *)

Start(p) ==
  /\ proc[p] \in {"down", "failed"}
  /\ Goto(p, IF p \in Given THEN "verifying" ELSE "looking")
  /\ todo' = [todo EXCEPT ![p] = Files]
  /\ UNCHANGED <<diskVars, package, envVars>>

(* A device or limits that the runtime does not support. *)
Misconfigured(p) ==
  /\ proc[p] \in {"down", "failed"}
  /\ Goto(p, "failed")
  /\ UNCHANGED <<diskVars, todo, package, envVars>>

ManifestGood == disk[Manifest] = "good"    \* mutant: trusts the manifest alone
Cached == disk[Manifest] = "good" /\ \A f \in Payloads : disk[f] # "absent"

(* The cache is used if the manifest is right and every file is there, ... *)
Look(p) ==
  /\ proc[p] = "looking"
  /\ Goto(p, IF Cached THEN "verifying" ELSE "fetching")
  /\ UNCHANGED <<diskVars, todo, package, envVars>>

(* ... or else snapshot_download brings what is missing: every file is     *)
(* moved into place when it is complete, in any order.  A file that        *)
(* differs is replaced or left alone.                                      *)
Fetch(p) ==
  /\ proc[p] = "fetching" /\ network
  /\ \E f \in Files : disk[f] # "good" /\ disk' = [disk EXCEPT ![f] = "good"]
  /\ UNCHANGED <<litter, proc, todo, package, envVars>>

Fetched(p) ==
  /\ proc[p] = "fetching"
  /\ \A f \in Files : disk[f] # "absent"
  /\ Goto(p, "verifying")
  /\ UNCHANGED <<diskVars, todo, package, envVars>>

(* Without the hub the download fails or settles for what is there. *)
Unreachable(p) ==
  /\ proc[p] = "fetching" /\ ~network
  /\ \E s \in {"failed", "verifying"} : Goto(p, s)
  /\ UNCHANGED <<diskVars, todo, package, envVars>>

(* verify_artifact: the manifest first, then what it lists, one by one. *)
Due(p) == IF Manifest \in todo[p] THEN {Manifest} ELSE todo[p]

Verify(p) ==
  /\ proc[p] = "verifying"
  /\ \E f \in Due(p) :
       IF disk[f] = "good" THEN todo' = [todo EXCEPT ![p] = @ \ {f}] /\ UNCHANGED proc
       ELSE Goto(p, "failed") /\ UNCHANGED todo
  /\ UNCHANGED <<diskVars, package, envVars>>

AnyLitter  == litter    \* mutant: bytecode is an unexpected file
Unexpected == litter \ {"bytecode"}

(* Nothing else may be there.  Then the package is executed, unless this   *)
(* process did that before.                                                *)
Verified(p) ==
  /\ proc[p] = "verifying" /\ todo[p] = {}
  /\ IF Unexpected # {} THEN Goto(p, "failed") /\ UNCHANGED package
     ELSE IF package[p] = "none"
       THEN Goto(p, "executing") /\ package' = [package EXCEPT ![p] = "partial"]
       ELSE Goto(p, "exporting") /\ UNCHANGED package
  /\ UNCHANGED <<diskVars, todo, envVars>>

Left      == "partial"    \* mutant: a failed package stays in sys.modules
Forgotten == "none"

(* Executing it leaves bytecode behind, where that can be written. *)
Execute(p) ==
  /\ proc[p] = "executing"
  /\ \/ Goto(p, "exporting") /\ package' = [package EXCEPT ![p] = "whole"]
     \/ Goto(p, "failed") /\ package' = [package EXCEPT ![p] = Forgotten]
  /\ litter' \in {litter, litter \cup {"bytecode"}}
  /\ UNCHANGED <<disk, todo, envVars>>

(* load_export reads the weights. *)
Export(p) ==
  /\ proc[p] = "exporting"
  /\ \E s \in {"loaded", "failed"} : Goto(p, s)
  /\ UNCHANGED <<diskVars, todo, package, envVars>>

-----------------------------------------------------------------------------
(* What happens to them. *)

Fault == faults < MaxFaults /\ faults' = faults + 1

Crash(p) ==
  /\ Fault /\ proc[p] # "down"
  /\ Goto(p, "down")
  /\ package' = [package EXCEPT ![p] = "none"]
  /\ UNCHANGED <<diskVars, todo, network>>

(* A process that has served ends; it may be started again. *)
Stop(p) ==
  /\ proc[p] = "loaded"
  /\ Goto(p, "down")
  /\ package' = [package EXCEPT ![p] = "none"]
  /\ UNCHANGED <<diskVars, todo, envVars>>

Outage ==
  /\ Fault /\ network' = FALSE
  /\ UNCHANGED <<diskVars, proc, todo, package>>

Repaired ==
  /\ ~network /\ network' = TRUE
  /\ UNCHANGED <<diskVars, proc, todo, package, faults>>

Reading == {"verifying", "executing", "exporting"}

(* Somebody truncates or removes a file, or leaves one; nobody does while  *)
(* a start reads them.                                                     *)
Damage ==
  /\ Fault /\ \A p \in Processes : proc[p] \notin Reading
  /\ \/ /\ \E f \in Files, s \in {"absent", "bad"} : disk' = [disk EXCEPT ![f] = s]
        /\ UNCHANGED litter
     \/ litter' = litter \cup {"stray"} /\ UNCHANGED disk
  /\ UNCHANGED <<network, proc, todo, package>>

Step(p) ==
  Look(p) \/ Fetch(p) \/ Fetched(p) \/ Unreachable(p) \/ Verify(p) \/ Verified(p)
  \/ Execute(p) \/ Export(p)

CacheNext ==
  \/ \E p \in Processes : Start(p) \/ Misconfigured(p) \/ Step(p) \/ Stop(p) \/ Crash(p)
  \/ Outage \/ Repaired \/ Damage

CacheSpec == CacheInit /\ [][CacheNext]_cacheVars

(* A start goes on until it has loaded or failed, and somebody repeats it. *)
FairSpec ==
  CacheSpec /\ \A p \in Processes : WF_cacheVars(Step(p)) /\ WF_cacheVars(Start(p))

-----------------------------------------------------------------------------
AllGood   == (\A f \in Files : disk[f] = "good") /\ "stray" \notin litter
Undamaged == (\A f \in Files : disk[f] # "bad") /\ "stray" \notin litter

(* Code runs and weights are read only from a directory that is complete   *)
(* and correct at that moment, whoever downloads into it beside; and a     *)
(* package that failed half-way is never taken for a loaded one by a later *)
(* start of the process (artifact.py:22, :58).                             *)
OnlyReviewed ==
  \A p \in Processes :
    /\ proc[p] \in {"executing", "exporting"} => AllGood
    /\ package[p] = "partial" <=> proc[p] = "executing"
    /\ proc[p] \in {"exporting", "loaded"} => package[p] = "whole"

(* "cached starts require no network" (artifact.py:72): once the directory *)
(* is complete no start turns to the hub, and none fails its verification, *)
(* also with the bytecode that earlier starts or other processes left.     *)
CachedStartsOffline ==
  [][AllGood => \A p \in Processes :
       /\ proc[p] = "looking" => proc'[p] # "fetching"
       /\ proc[p] = "verifying" => proc'[p] # "failed"]_cacheVars

(* However a download was interrupted, starts get through verification     *)
(* again once the hub can be reached for good; unless a damaged file is    *)
(* left alone, which the check of the cache does not see (artifact.py:71). *)
StartsRecover ==
  <>[](network /\ Undamaged) =>
    \A p \in Processes \ Given : []<>(proc[p] \in {"executing", "exporting", "loaded"})
=============================================================================
