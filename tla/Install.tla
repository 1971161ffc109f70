------------------------------ MODULE Install ------------------------------
(***************************************************************************)
(* What the commands put on the user's machine: the symlink `rewter` on    *)
(* the PATH (`install-cli`) and launchd's plist (`install-service`), both  *)
(* beside the user's own hands, rebuilds and upgrades of node.             *)
(***************************************************************************)
EXTENDS Integers

CONSTANTS Builds,   \* entry points the command may be run from
          Nodes,    \* versions of node, each at a path of its own
          MaxSteps  \* bound

InstallAssumption == MaxSteps \in Nat

VARIABLES link,     \* what is at <dir>/rewter: an entry point or something else
          runnable, \* entry points whose file is executable
          plist,    \* the plist, or what else is there
          installed, alias, \* versions of node there are, and what the stable path leads to
          node,     \* the version the command runs under
          answer,   \* what the last command said: [is, of]
          steps

vars == <<link, runnable, plist, installed, alias, node, answer, steps>>

Absent == [is |-> "absent"]
Foreign == [is |-> "foreign"]     \* a file, a link of another program, an edited plist
Ours(b) == [is |-> "link", to |-> b]
Versioned(b, n) == [is |-> "plist", cli |-> b, node |-> n]
Stable(b) == [is |-> "plist", cli |-> b, node |-> "alias"]
Quiet == [is |-> "nothing"]

Init ==
    /\ link = Absent /\ runnable = {} /\ plist = Absent
    /\ node \in Nodes /\ installed = {node} /\ alias \in {node, "none"}
    /\ answer = Quiet /\ steps = 0

Steps == steps < MaxSteps /\ steps' = steps + 1
Said(what, b) == answer' = [is |-> what, of |-> b]

----------------------------------------------------------------------------
(* Whose link it is, is asked before whether there is one; a link that is  *)
(* current is still made runnable.                                         *)
InstallCli(b, dryRun, force) ==
    /\ Steps /\ UNCHANGED <<plist, installed, alias, node>>
    /\ \/ /\ link = Ours(b) /\ Said(IF dryRun THEN "dry-run" ELSE "current", b)
          /\ runnable' = IF dryRun THEN runnable ELSE runnable \union {b}
          /\ UNCHANGED link
       \/ /\ link \notin {Absent, Ours(b)} /\ ~force /\ Said("exists", b)
          /\ UNCHANGED <<link, runnable>>
       \/ /\ link # Ours(b) /\ (link = Absent \/ force) /\ dryRun /\ Said("dry-run", b)
          /\ UNCHANGED <<link, runnable>>
       \/ /\ link # Ours(b) /\ (link = Absent \/ force) /\ ~dryRun
          /\ link' = Ours(b) /\ runnable' = runnable \union {b}
          /\ Said(IF link = Absent THEN "linked" ELSE "relinked", b)

(* slip: whatever is there is removed *)
UninstallCli_Anything(b) ==
    /\ Steps /\ link' = Absent /\ answer' = Quiet
    /\ UNCHANGED <<runnable, plist, installed, alias, node>>
UninstallCli(b) ==
    /\ Steps /\ link' = (IF link = Ours(b) THEN Absent ELSE link) /\ answer' = Quiet
    /\ UNCHANGED <<runnable, plist, installed, alias, node>>

(* The alias is taken when it leads to the node that runs.                 *)
Rendered(b) == IF alias = node THEN Stable(b) ELSE Versioned(b, node)

InstallService(b, dryRun, force) ==
    /\ Steps /\ UNCHANGED <<link, runnable, installed, alias, node>>
    /\ \/ dryRun /\ Said("dry-run", b) /\ UNCHANGED plist
       \/ ~dryRun /\ plist = Rendered(b) /\ Said("unchanged", b) /\ UNCHANGED plist
       \/ /\ ~dryRun /\ plist \notin {Absent, Rendered(b)} /\ ~force
          /\ Said("exists", b) /\ UNCHANGED plist
       \/ /\ ~dryRun /\ plist # Rendered(b) /\ (plist = Absent \/ force)
          /\ plist' = Rendered(b) /\ Said(IF plist = Absent THEN "written" ELSE "replaced", b)

UninstallService ==
    /\ Steps /\ plist' = Absent /\ answer' = Quiet
    /\ UNCHANGED <<link, runnable, installed, alias, node>>

----------------------------------------------------------------------------
(* The rest of the machine.                                                *)
UserPuts ==
    /\ Steps /\ answer' = Quiet
    /\ \/ link' = Foreign /\ UNCHANGED plist
       \/ plist' = Foreign /\ UNCHANGED link
    /\ UNCHANGED <<runnable, installed, alias, node>>

Rebuild(b) ==
    /\ Steps /\ runnable' = runnable \ {b} /\ answer' = Quiet
    /\ UNCHANGED <<link, plist, installed, alias, node>>

(* An upgrade puts the next node in the place of the last, its alias too.  *)
Upgrade(n) ==
    /\ Steps /\ n \notin installed /\ installed' = {n} /\ node' = n
    /\ alias' = (IF alias = "none" THEN "none" ELSE n) /\ answer' = Quiet
    /\ UNCHANGED <<link, runnable, plist>>

Next ==
    \/ \E b \in Builds, d, f \in BOOLEAN : InstallCli(b, d, f) \/ InstallService(b, d, f)
    \/ \E b \in Builds : UninstallCli(b) \/ Rebuild(b)
    \/ \E n \in Nodes : Upgrade(n)
    \/ UninstallService \/ UserPuts

Spec == Init /\ [][Next]_vars
----------------------------------------------------------------------------
(* The word of the install commands holds on the machine: what they call   *)
(* linked or current starts the build they were run from (linkcli.ts:89),  *)
(* and a plist written while a stable path led to the node in use starts a *)
(* node that is there, also after upgrades (launchd.ts:151).               *)
Startable ==
    /\ answer.is \in {"linked", "relinked", "current"}
          => link = Ours(answer.of) /\ answer.of \in runnable
    /\ plist.is = "plist" => plist.node \in installed \/ plist.node = "alias" \/ alias = "none"

(* What a person put there is not written over without --force, and        *)
(* `uninstall-cli` removes a link of its own only (linkcli.ts:158).        *)
HandsOff ==
    [][/\ link = Foreign /\ link' # link => answer'.is = "relinked"
       /\ plist = Foreign /\ plist' # plist => answer'.is \in {"replaced", "nothing"}]_vars
============================================================================
