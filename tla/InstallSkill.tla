----------------------------- MODULE InstallSkill -----------------------------
(***************************************************************************)
(* install-skill and uninstall-skill: src/cli/install-skill.ts and         *)
(* src/cli/uninstall-skill.ts on one file system, which several such       *)
(* commands and the user change at once.  A step is one system call or     *)
(* several that concern files nobody else knows of.  Each call may fail    *)
(* and each command may be killed.                                         *)
(***************************************************************************)
EXTENDS FiniteSets

CONSTANTS
  Installers,     (* runs of install-skill, each with a package of its own *)
  Forced,         (* those with --force                                    *)
  Uninstallers,   (* runs of uninstall-skill                               *)
  Body,           (* SKILL.md                                              *)
  References,     (* the bundled files of reference/                       *)
  Own,            (* files of the user's                                   *)
  Old,            (* the version that was installed before                 *)
  User,           (* what the user's files hold                            *)
  Absent,         (* no file                                               *)
  NoTree          (* no directory                                          *)

Bundled == References \cup {Body}
Names == Bundled \cup Own
Content == Installers \cup {Old, User}

ASSUME SkillAssumption ==
  /\ Body \notin References /\ Bundled \cap Own = {}
  /\ Installers \cap Uninstallers = {} /\ Forced \subseteq Installers
  /\ Absent \notin Content

(* A directory: its files, and whether it or its reference/ is a link that *)
(* leads outside.                                                          *)
Tree == [files : [Names -> Content \cup {Absent}], link : {"none", "root", "reference"}]

ASSUME NoTreeAssumption == NoTree \notin Tree

VARIABLES
  target,         (* .claude/skills/testrail-cli                           *)
  outside,        (* what a link leads to                                  *)
  stage,          (* how far each command is                               *)
  existing,       (* what an installer saw at the target                   *)
  staged, backup, (* `new' and `previous' in its workspace                 *)
  seen,           (* for NothingIsLost: the user's files it copied         *)
  listed,         (* the references an uninstaller has yet to remove       *)
  there           (* for NothingIsLost: what has come into the skill and   *)
                  (* has not been uninstalled, moved by the user, or       *)
                  (* replaced by an installer that had not seen it         *)

workspace == <<existing, staged, backup, seen>>
vars == <<target, outside, stage, workspace, listed, there>>

(* A workspace is there from "made" on; "kept" is a failure whose backup   *)
(* is preserved.                                                           *)
InstallStages ==
  {"start", "checked", "made", "copied", "staged", "retired", "rollback", "published", "failing",
   "installed", "failed", "kept", "killed"}

UninstallStages ==
  {"start", "found", "bodyless", "removing", "tidying", "uninstalled", "failed"}

TypeOK ==
  /\ target \in Tree \cup {NoTree}
  /\ outside \in {"intact", "written", "removed"}
  /\ stage \in [Installers \cup Uninstallers -> InstallStages \cup UninstallStages]
  /\ \A p \in Installers : stage[p] \in InstallStages
  /\ \A u \in Uninstallers : stage[u] \in UninstallStages
  /\ existing \in [Installers -> BOOLEAN]
  /\ staged \in [Installers -> Tree \cup {NoTree}] /\ backup \in [Installers -> Tree \cup {NoTree}]
  /\ seen \in [Installers -> SUBSET Own]
  /\ listed \in [Uninstallers -> SUBSET References]
  /\ there \subseteq Names

Holding(names, content) == [n \in Names |-> IF n \in names THEN content[n] ELSE Absent]

Plain(files) == [files |-> files, link |-> "none"]

Empty == Plain([n \in Names |-> Absent])

Present(tree) == IF tree = NoTree THEN {} ELSE {n \in Names : tree.files[n] # Absent}

Init ==
  /\ \E bundled \in {{}, References, Bundled}, own \in SUBSET Own :
       LET content == [n \in Names |-> IF n \in Own THEN User ELSE Old]
       IN  /\ target \in {Plain(Holding(bundled \cup own, content))} \cup
                           (IF bundled \cup own = {} THEN {NoTree} ELSE {})
           /\ there = bundled \cup own
  /\ outside = "intact"
  /\ stage = [c \in Installers \cup Uninstallers |-> "start"]
  /\ existing = [p \in Installers |-> FALSE]
  /\ staged = [p \in Installers |-> NoTree] /\ backup = [p \in Installers |-> NoTree]
  /\ seen = [p \in Installers |-> {}]
  /\ listed = [u \in Uninstallers |-> {}]

Goes(c, from, to) == stage[c] = from /\ stage' = [stage EXCEPT ![c] = to]
-------------------------------------------------------------------------------
(* runInstallSkill.                                                        *)

(* requireRealDirectory: a link is not written through.                    *)
Linked(tree) == tree.link = "root" \/ (tree.link = "reference" /\ References # {})

(* The destinations are real directories, and free or to be overwritten.   *)
Check(p) ==
  /\ Goes(p, "start", "checked")
  /\ target # NoTree => ~ Linked(target)
  /\ p \in Forced \/ Present(target) \cap Bundled = {}
  /\ UNCHANGED <<target, outside, workspace, listed, there>>

(* installDirectory: a workspace next to the target.                       *)
MakeWorkspace(p) ==
  /\ Goes(p, "checked", "made")
  /\ existing' = [existing EXCEPT ![p] = target # NoTree]
  /\ UNCHANGED <<target, outside, staged, backup, seen, listed, there>>

(* A mutated form: what has been copied is not looked at again.            *)
StagedUnchecked(tree) == TRUE

StagedIsReal(tree) == ~ Linked(tree)

(* cpSync, links as links, or an empty directory; then what was copied is  *)
(* looked at.  The copy is one step: a file that comes or goes under it is *)
(* copied or not, as if it had come or gone before or after.               *)
Copy(p) ==
  /\ Goes(p, "made", "copied")
  /\ existing[p] => target # NoTree /\ StagedIsReal(target)
  /\ staged' = [staged EXCEPT ![p] = IF existing[p] THEN target ELSE Empty]
  /\ seen' = [seen EXCEPT ![p] = IF existing[p] THEN Own \cap Present(target) ELSE {}]
  /\ UNCHANGED <<target, outside, existing, backup, listed, there>>

(* A mutated form: a package whose references cannot be listed has none.   *)
BundleUnlisted(p) == {Body}

(* listReferenceFiles, and the body: what p installs.                      *)
Bundle(p) == Bundled

(* installFile of each file of the package into the copy.                  *)
Stage(p) ==
  /\ Goes(p, "copied", "staged")
  /\ staged' = [staged EXCEPT ![p].files = [n \in Names |-> IF n \in Bundle(p) THEN p ELSE @[n]]]
  /\ outside' = IF Linked(staged[p]) THEN "written" ELSE outside
  /\ UNCHANGED <<target, existing, backup, seen, listed, there>>

(* The previous tree, or link, is renamed into the workspace.              *)
Retire(p) ==
  /\ Goes(p, "staged", "retired")
  /\ IF existing[p]
     THEN /\ target # NoTree
          /\ backup' = [backup EXCEPT ![p] = target]
          /\ target' = NoTree
     ELSE UNCHANGED <<backup, target>>
  /\ UNCHANGED <<outside, existing, staged, seen, listed, there>>

(* A directory can be renamed onto nothing or an empty directory.          *)
Vacant == target \in {NoTree, Empty}

(* What the user, or another installer, has put into the skill since the   *)
(* copy is in the backup only, which goes: nothing the code could notice.  *)
Unseen(p) == (Own \cap Present(backup[p])) \ seen[p]

Publish(p) ==
  /\ Goes(p, "retired", "published")
  /\ Vacant
  /\ target' = staged[p] /\ staged' = [staged EXCEPT ![p] = NoTree]
  /\ there' = (there \ Unseen(p)) \cup Bundled
  /\ UNCHANGED <<outside, existing, backup, seen, listed>>

(* A mutated form: who cannot publish gives up.                            *)
PublishFailsForGood(p) ==
  /\ Goes(p, "retired", "failed")
  /\ UNCHANGED <<target, outside, workspace, listed, there>>

PublishFails(p) ==
  /\ Goes(p, "retired", IF existing[p] THEN "rollback" ELSE "failing")
  /\ UNCHANGED <<target, outside, workspace, listed, there>>

(* The rollback; a link cannot be renamed onto a directory.                *)
RollBack(p) ==
  /\ Goes(p, "rollback", "failing")
  /\ Vacant
  /\ backup[p].link = "root" => target = NoTree
  /\ target' = backup[p] /\ backup' = [backup EXCEPT ![p] = NoTree]
  /\ UNCHANGED <<outside, existing, staged, seen, listed, there>>

(* A mutated form: the workspace goes, whatever is in it.                  *)
RollBackFailsCleanly(p) ==
  /\ Goes(p, "rollback", "failing")
  /\ UNCHANGED <<target, outside, workspace, listed, there>>

RollBackFails(p) ==
  /\ Goes(p, "rollback", "kept")
  /\ UNCHANGED <<target, outside, workspace, listed, there>>

(* Any other call fails: before there is a workspace, or after.            *)
Fails(p) ==
  /\ \/ \E s \in {"start", "checked"} : Goes(p, s, "failed")
     \/ \E s \in {"made", "copied", "staged"} : Goes(p, s, "failing")
  /\ UNCHANGED <<target, outside, workspace, listed, there>>

(* The workspace is removed, if it can be; the outcome stands.             *)
CleanUp(p) ==
  /\ Goes(p, "published", "installed") \/ Goes(p, "failing", "failed")
  /\ \/ /\ staged' = [staged EXCEPT ![p] = NoTree]
        /\ backup' = [backup EXCEPT ![p] = NoTree]
     \/ UNCHANGED <<staged, backup>>
  /\ UNCHANGED <<target, outside, existing, seen, listed, there>>

Killed(p) ==
  /\ stage[p] \notin {"installed", "failed", "kept", "killed"}
  /\ stage' = [stage EXCEPT ![p] = "killed"]
  /\ UNCHANGED <<target, outside, workspace, listed, there>>
-------------------------------------------------------------------------------
(* runUninstallSkill.                                                      *)

(* The body is there; behind a link it may be.                             *)
Find(u) ==
  /\ Goes(u, "start", "found")
  /\ target # NoTree /\ (target.link = "root" \/ Body \in Present(target))
  /\ UNCHANGED <<target, outside, workspace, listed, there>>

NotFound(u) ==
  /\ Goes(u, "start", "failed") \/ Goes(u, "found", "failed")
  /\ UNCHANGED <<target, outside, workspace, listed, there>>

(* unlinkSync, by path: of whatever tree is at the target now.             *)
Unlink(n) ==
  /\ target # NoTree
  /\ IF target.link = "root" \/ (target.link = "reference" /\ n # Body)
     THEN outside' = "removed" /\ UNCHANGED <<target, there>>
     ELSE /\ n \in Present(target)
          /\ target' = [target EXCEPT !.files[n] = Absent]
          /\ there' = there \ ({n} \cap Bundled)
          /\ UNCHANGED outside

RemoveBody(u) ==
  /\ Goes(u, "found", "bodyless")
  /\ Unlink(Body)
  /\ UNCHANGED <<workspace, listed>>

(* bundledReferenceNames.                                                  *)
Owned == References

(* reference/ is a real directory, behind a link of the root perhaps: what *)
(* of it the package bundles.                                              *)
List(u) ==
  /\ Goes(u, "bodyless", "removing")
  /\ target # NoTree /\ target.link # "reference"
  /\ \E behind \in SUBSET References :
       listed' = [listed EXCEPT ![u] =
         (IF target.link = "root" THEN behind ELSE Present(target)) \cap Owned]
  /\ UNCHANGED <<target, outside, workspace, there>>

RemoveReference(u) ==
  /\ stage[u] = "removing"
  /\ \E n \in listed[u] :
       /\ Unlink(n)
       /\ listed' = [listed EXCEPT ![u] = @ \ {n}]
  /\ UNCHANGED <<stage, workspace>>

(* Nothing to list, all removed, or an error, which is not reported.       *)
ReferencesDone(u) ==
  /\ Goes(u, "bodyless", "tidying") \/ Goes(u, "removing", "tidying")
  /\ listed' = [listed EXCEPT ![u] = {}]
  /\ UNCHANGED <<target, outside, workspace, there>>

(* The directory is removed if it is empty, and if it can be.              *)
Tidy(u) ==
  /\ Goes(u, "tidying", "uninstalled")
  /\ target' \in {target} \cup (IF target = Empty THEN {NoTree} ELSE {})
  /\ UNCHANGED <<outside, workspace, listed, there>>
-------------------------------------------------------------------------------
(* The user.                                                               *)

AddFile(n) ==
  /\ n \in Own \ there
  /\ target # NoTree => target.link = "none"
  /\ LET tree == IF target = NoTree THEN Empty ELSE target
     IN  target' = [tree EXCEPT !.files[n] = User]
  /\ there' = there \cup {n}
  /\ UNCHANGED <<outside, stage, workspace, listed>>

(* The skill, or its references, are moved elsewhere and linked to.        *)
Link(link) ==
  /\ target # NoTree /\ target.link = "none"
  /\ target' = [Empty EXCEPT !.link = link]
  /\ there' = {}
  /\ UNCHANGED <<outside, stage, workspace, listed>>

Step(p) ==
  \/ Check(p) \/ MakeWorkspace(p) \/ Copy(p) \/ Stage(p) \/ Retire(p) \/ Publish(p) \/ PublishFails(p)
  \/ RollBack(p) \/ RollBackFails(p) \/ Fails(p) \/ CleanUp(p)

Next ==
  \/ \E p \in Installers : Step(p) \/ Killed(p)
  \/ \E u \in Uninstallers :
       Find(u) \/ NotFound(u) \/ RemoveBody(u) \/ List(u) \/ RemoveReference(u) \/ ReferencesDone(u) \/ Tidy(u)
  \/ \E n \in Own : AddFile(n)
  \/ \E link \in {"root", "reference"} : Link(link)

Spec == Init /\ [][Next]_vars

(* A command that is not killed goes on.                                   *)
FairSpec == Spec /\ \A p \in Installers : WF_vars(Step(p))
-------------------------------------------------------------------------------
(* Whatever is killed or fails, and whoever else installs: a file that was *)
(* in the skill is still there, or in a workspace that has been left,      *)
(* unless an installer replaced it that had not seen it.                   *)
NothingIsLost ==
  \A n \in there :
    \E tree \in {target} \cup {staged[p] : p \in Installers} \cup {backup[p] : p \in Installers} :
      n \in Present(tree)

(* Unless somebody uninstalls it meanwhile, an installed body comes with   *)
(* all the references it points to, of the same package.                   *)
WholeOrNothing ==
  (\A u \in Uninstallers : stage[u] = "start") /\ Body \in Present(target) =>
    \A n \in References : target.files[n] = target.files[Body]

(* Nothing is written through a link, whenever the user puts it there.     *)
OutsideUnwritten == outside # "written"

(* The skill is absent only for a moment: who has moved it away publishes  *)
(* the new one or moves it back, or says where it is.                      *)
SkillComesBack ==
  \A p \in Installers :
    stage[p] = "retired" /\ existing[p] ~> target # NoTree \/ stage[p] \in {"kept", "killed"}
===============================================================================
