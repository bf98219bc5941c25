-------------------------- MODULE InstallSkillProofs --------------------------
(* Theorems about InstallSkill, for any packages and any number of commands  *)
(* and files.                                                                *)
EXTENDS InstallSkill, TLAPS

-----------------------------------------------------------------------------
(* The inductive invariant. *)

(* What an installer's workspace holds at each stage.  A backup is what was  *)
(* moved away, and a copy that may be published holds what was copied, the   *)
(* whole package on top of it.                                               *)
BackedUp(p) ==
  stage[p] \in {"start", "checked", "made", "copied", "staged"} \/ ~ existing[p] => backup[p] = NoTree

Copied(p) ==
  stage[p] \in {"copied", "staged", "retired"} =>
    /\ staged[p] \in Tree
    /\ ~ Linked(staged[p])
    /\ seen[p] \subseteq Present(staged[p])

Staged(p) ==
  stage[p] \in {"staged", "retired"} => \A n \in Bundled : staged[p].files[n] = p

Workspaces == \A p \in Installers : BackedUp(p) /\ Copied(p) /\ Staged(p)

(* A file is at the target, or in the backup of an installer that is not     *)
(* about to remove it.                                                       *)
Keeps(p) == stage[p] \notin {"published", "failing"}
Kept == \A n \in there : n \in Present(target) \/ \E p \in Installers : Keeps(p) /\ n \in Present(backup[p])

(* All of one package, at the target and wherever the target may come from.  *)
Whole(tree) == Body \in Present(tree) => \A n \in References : tree.files[n] = tree.files[Body]
Untouched == \A u \in Uninstallers : stage[u] = "start"
AllWhole == Untouched => Whole(target) /\ \A p \in Installers : Whole(backup[p])

IInv ==
  /\ TypeOK
  /\ Workspaces
  /\ Kept
  /\ OutsideUnwritten
  /\ AllWhole

(* What changes the files at the target beside the installers. *)
UninstallStep(u) ==
  Find(u) \/ NotFound(u) \/ RemoveBody(u) \/ List(u) \/ RemoveReference(u) \/ ReferencesDone(u) \/ Tidy(u)
UserStep == (\E n \in Own : AddFile(n)) \/ \E link \in {"root", "reference"} : Link(link)

-----------------------------------------------------------------------------
(* Trees. *)

LEMMA EmptyTree == Empty \in Tree /\ Empty.link = "none" /\ Present(Empty) = {}
<1>1. Empty = [files |-> [n \in Names |-> Absent], link |-> "none"]
  BY DEF Empty, Plain
<1>2. Empty \in Tree
  BY <1>1 DEF Tree
<1>3. Empty # NoTree
  BY <1>2, NoTreeAssumption
<1> QED
  BY <1>1, <1>2, <1>3 DEF Present

LEMMA NothingPresent == Present(NoTree) = {}
  BY DEF Present

LEMMA PresentIn ==
  ASSUME NEW tree \in Tree PROVE Present(tree) = {n \in Names : tree.files[n] # Absent}
  BY NoTreeAssumption DEF Present

LEMMA VacantHolds == Vacant => Present(target) = {}
  BY EmptyTree, NothingPresent DEF Vacant

LEMMA BundledNames == Bundled \subseteq Names /\ Body \in Bundled /\ References \subseteq Bundled
  BY DEF Bundled, Names

LEMMA AbsentIsNone == \A p \in Installers : p # Absent
  BY SkillAssumption DEF Content

LEMMA VacantWhole == \A tree : Present(tree) = {} => Whole(tree)
  BY DEF Whole
-----------------------------------------------------------------------------
(* A step of one command leaves the others as they are.                      *)

LEMMA OthersStay ==
  ASSUME TypeOK, NEW p \in Installers, Step(p) \/ Killed(p), NEW q \in Installers, q # p
  PROVE  /\ stage'[q] = stage[q] /\ existing'[q] = existing[q]
         /\ staged'[q] = staged[q] /\ backup'[q] = backup[q] /\ seen'[q] = seen[q]
  BY DEF TypeOK, Step, Check, MakeWorkspace, Copy, Stage, Retire, Publish, PublishFails, RollBack,
     RollBackFails, Fails, CleanUp, Killed, Goes, workspace

LEMMA UninstallersStay ==
  ASSUME TypeOK, NEW p \in Installers, Step(p) \/ Killed(p)
  PROVE  \A u \in Uninstallers : stage'[u] = stage[u]
<1>1. p \notin Uninstallers
  BY SkillAssumption
<1> QED
  BY <1>1 DEF TypeOK, Step, Check, MakeWorkspace, Copy, Stage, Retire, Publish, PublishFails, RollBack,
     RollBackFails, Fails, CleanUp, Killed, Goes

LEMMA InstallersStay ==
  ASSUME TypeOK, (\E u \in Uninstallers : UninstallStep(u)) \/ UserStep
  PROVE  UNCHANGED workspace /\ \A p \in Installers : stage'[p] = stage[p]
<1>1. CASE UserStep
  BY <1>1 DEF UserStep, AddFile, Link, workspace
<1>2. CASE \E u \in Uninstallers : UninstallStep(u)
  <2>1. PICK u \in Uninstallers : UninstallStep(u)
    BY <1>2
  <2>2. u \notin Installers
    BY SkillAssumption
  <2> QED
    BY <2>1, <2>2 DEF TypeOK, UninstallStep, Find, NotFound, RemoveBody, List, RemoveReference,
       ReferencesDone, Tidy, Goes, workspace
<1> QED
  BY <1>1, <1>2

(* An uninstaller that takes a step is not at the start afterwards.          *)
LEMMA Uninstalled ==
  ASSUME TypeOK, NEW u \in Uninstallers, UninstallStep(u) PROVE stage'[u] # "start"
  BY DEF TypeOK, UninstallStep, Find, NotFound, RemoveBody, List, RemoveReference, ReferencesDone, Tidy, Goes

LEMMA NextIs ==
  Next => \/ \E p \in Installers : Step(p) \/ Killed(p)
          \/ \E u \in Uninstallers : UninstallStep(u)
          \/ UserStep
  BY DEF Next, UninstallStep, UserStep
-----------------------------------------------------------------------------
(* Type correctness. *)

LEMMA InitTypes == Init => TypeOK
<1> SUFFICES ASSUME Init PROVE TypeOK
  OBVIOUS
<1>1. target \in Tree \cup {NoTree} /\ there \subseteq Names
  <2>1. PICK bundled \in {{}, References, Bundled}, own \in SUBSET Own :
          LET content == [n \in Names |-> IF n \in Own THEN User ELSE Old]
          IN  /\ target \in {Plain(Holding(bundled \cup own, content))} \cup
                              (IF bundled \cup own = {} THEN {NoTree} ELSE {})
              /\ there = bundled \cup own
    BY DEF Init
  <2> DEFINE content == [n \in Names |-> IF n \in Own THEN User ELSE Old]
  <2>2. content \in [Names -> Content]
    BY DEF Content
  <2>3. Plain(Holding(bundled \cup own, content)) \in Tree
    BY <2>2 DEF Plain, Holding, Tree
  <2>4. bundled \cup own \subseteq Names
    BY DEF Names, Bundled
  <2> QED
    BY <2>1, <2>3, <2>4
<1> QED
  BY <1>1 DEF Init, TypeOK, InstallStages, UninstallStages

(* What every step of an installer keeps: it is enough to look at it.        *)
LEMMA InstallerTypes ==
  ASSUME TypeOK, NEW p \in Installers, Step(p) \/ Killed(p),
         target' \in Tree \cup {NoTree}, outside' \in {"intact", "written", "removed"},
         stage'[p] \in InstallStages, existing'[p] \in BOOLEAN,
         staged'[p] \in Tree \cup {NoTree}, backup'[p] \in Tree \cup {NoTree}, seen'[p] \subseteq Own,
         there' \subseteq Names
  PROVE  TypeOK'
<1>1. \A u \in Uninstallers : stage'[u] = stage[u]
  BY UninstallersStay
<1>2. \A q \in Installers \ {p} : stage'[q] = stage[q]
  BY OthersStay
<1>3. /\ stage' = [stage EXCEPT ![p] = stage'[p]] /\ existing' = [existing EXCEPT ![p] = existing'[p]]
      /\ staged' = [staged EXCEPT ![p] = staged'[p]] /\ backup' = [backup EXCEPT ![p] = backup'[p]]
      /\ seen' = [seen EXCEPT ![p] = seen'[p]] /\ listed' = listed
  BY DEF TypeOK, Step, Check, MakeWorkspace, Copy, Stage, Retire, Publish, PublishFails, RollBack,
     RollBackFails, Fails, CleanUp, Killed, Goes, workspace
<1>4. stage' \in [Installers \cup Uninstallers -> InstallStages \cup UninstallStages]
  BY <1>3 DEF TypeOK
<1>5. existing' \in [Installers -> BOOLEAN] /\ seen' \in [Installers -> SUBSET Own]
  BY <1>3 DEF TypeOK
<1>6. staged' \in [Installers -> Tree \cup {NoTree}] /\ backup' \in [Installers -> Tree \cup {NoTree}]
  BY <1>3 DEF TypeOK
<1> QED
  BY <1>1, <1>2, <1>3, <1>4, <1>5, <1>6 DEF TypeOK

(* Writing the package into a copy.                                          *)
LEMMA StagedTree ==
  ASSUME TypeOK, NEW p \in Installers, staged[p] \in Tree, Stage(p)
  PROVE  /\ staged'[p] \in Tree /\ staged'[p].link = staged[p].link
         /\ \A n \in Names : staged'[p].files[n] = IF n \in Bundled THEN p ELSE staged[p].files[n]
<1>1. staged'[p] = [staged[p] EXCEPT !.files = [n \in Names |-> IF n \in Bundled THEN p ELSE @[n]]]
  BY DEF Stage, TypeOK, Bundle
<1>2. p \in Content
  BY DEF Content
<1> QED
  BY <1>1, <1>2 DEF Tree

LEMMA StepTypes ==
  ASSUME TypeOK, Workspaces, NEW p \in Installers, Step(p) \/ Killed(p) PROVE TypeOK'
<1> USE DEF InstallStages
<1>1. CASE Check(p)
  BY <1>1, InstallerTypes DEF TypeOK, Check, Goes, workspace
<1>2. CASE MakeWorkspace(p)
  BY <1>2, InstallerTypes DEF TypeOK, MakeWorkspace, Goes
<1>3. CASE Copy(p)
  BY <1>3, InstallerTypes, EmptyTree DEF TypeOK, Copy, Goes
<1>4. CASE Stage(p)
  <2>1. staged[p] \in Tree
    BY <1>4 DEF Workspaces, Copied, Stage, Goes
  <2>2. staged'[p] \in Tree
    BY <1>4, <2>1, StagedTree
  <2> QED
    BY <1>4, <2>2, InstallerTypes DEF TypeOK, Stage, Goes
<1>5. CASE Retire(p)
  BY <1>5, InstallerTypes DEF TypeOK, Retire, Goes
<1>6. CASE Publish(p)
  <2>1. there' \subseteq Names
    BY <1>6, BundledNames DEF TypeOK, Publish
  <2> QED
    BY <1>6, <2>1, InstallerTypes DEF TypeOK, Publish, Goes
<1>7. CASE PublishFails(p)
  BY <1>7, InstallerTypes DEF TypeOK, PublishFails, Goes, workspace
<1>8. CASE RollBack(p)
  BY <1>8, InstallerTypes DEF TypeOK, RollBack, Goes
<1>9. CASE RollBackFails(p)
  BY <1>9, InstallerTypes DEF TypeOK, RollBackFails, Goes, workspace
<1>10. CASE Fails(p)
  BY <1>10, InstallerTypes DEF TypeOK, Fails, Goes, workspace
<1>11. CASE CleanUp(p)
  BY <1>11, InstallerTypes DEF TypeOK, CleanUp, Goes
<1>12. CASE Killed(p)
  BY <1>12, InstallerTypes DEF TypeOK, Killed, workspace
<1> QED
  BY <1>1, <1>2, <1>3, <1>4, <1>5, <1>6, <1>7, <1>8, <1>9, <1>10, <1>11, <1>12 DEF Step

(* Taking a file away, at the target or behind a link.                       *)
LEMMA UnlinkTypes ==
  ASSUME TypeOK, NEW n \in Bundled, Unlink(n)
  PROVE  /\ target' \in Tree \cup {NoTree} /\ outside' \in {"intact", "written", "removed"}
         /\ there' \subseteq Names
         /\ outside' = "written" => outside = "written"
         /\ \A m \in there' : m \in there /\ (m \in Present(target) => m \in Present(target'))
<1>1. target \in Tree
  BY DEF Unlink, TypeOK
<1>2. CASE target.link = "root" \/ (target.link = "reference" /\ n # Body)
  BY <1>2 DEF Unlink, TypeOK
<1>3. CASE ~ (target.link = "root" \/ (target.link = "reference" /\ n # Body))
  <2>1. target' = [target EXCEPT !.files[n] = Absent] /\ there' = there \ {n} /\ outside' = outside
    BY <1>3 DEF Unlink
  <2>2. n \in Names
    BY BundledNames
  <2>3. target' \in Tree /\ \A m \in Names : target'.files[m] = IF m = n THEN Absent ELSE target.files[m]
    BY <1>1, <2>1, <2>2 DEF Tree
  <2>4. Present(target) = {m \in Names : target.files[m] # Absent}
    BY <1>1, PresentIn
  <2>5. Present(target') = {m \in Names : target'.files[m] # Absent}
    BY <2>3, PresentIn
  <2> QED
    BY <1>1, <2>1, <2>3, <2>4, <2>5 DEF TypeOK
<1> QED
  BY <1>2, <1>3

LEMMA UninstallTypes ==
  ASSUME TypeOK, NEW u \in Uninstallers, UninstallStep(u) PROVE TypeOK'
<1>1. UNCHANGED workspace /\ \A p \in Installers : stage'[p] = stage[p]
  BY InstallersStay
<1>2. /\ stage' \in [Installers \cup Uninstallers -> InstallStages \cup UninstallStages]
      /\ \A v \in Uninstallers : stage'[v] \in UninstallStages
  BY DEF TypeOK, UninstallStep, Find, NotFound, RemoveBody, List, RemoveReference, ReferencesDone,
     Tidy, Goes, UninstallStages
<1>3. listed' \in [Uninstallers -> SUBSET References]
  BY DEF TypeOK, UninstallStep, Find, NotFound, RemoveBody, List, RemoveReference, ReferencesDone,
     Tidy, Owned
<1>4. target' \in Tree \cup {NoTree} /\ outside' \in {"intact", "written", "removed"} /\ there' \subseteq Names
  <2>1. CASE RemoveBody(u)
    BY <2>1, UnlinkTypes, BundledNames DEF RemoveBody
  <2>2. CASE RemoveReference(u)
    <3>1. PICK n \in listed[u] : Unlink(n)
      BY <2>2 DEF RemoveReference
    <3>2. n \in Bundled
      BY BundledNames DEF TypeOK
    <3> QED
      BY <3>1, <3>2, UnlinkTypes
  <2>3. CASE Tidy(u)
    BY <2>3 DEF Tidy, TypeOK
  <2>4. CASE Find(u) \/ NotFound(u) \/ List(u) \/ ReferencesDone(u)
    BY <2>4 DEF Find, NotFound, List, ReferencesDone, TypeOK
  <2> QED
    BY <2>1, <2>2, <2>3, <2>4 DEF UninstallStep
<1> QED
  BY <1>1, <1>2, <1>3, <1>4 DEF TypeOK, workspace

LEMMA AddedFile ==
  ASSUME TypeOK, NEW n \in Own, AddFile(n)
  PROVE  /\ target' \in Tree
         /\ Present(target') \subseteq Names
         /\ n \in Names /\ n \in Present(target') /\ Present(target) \subseteq Present(target')
         /\ \A m \in Bundled : target'.files[m] = (IF target = NoTree THEN Empty ELSE target).files[m]
<1> DEFINE tree == IF target = NoTree THEN Empty ELSE target
<1>1. tree \in Tree /\ Present(tree) = Present(target)
  BY EmptyTree, NothingPresent DEF TypeOK
<1>2. n \in Names /\ n \notin Bundled /\ User \in Content
  BY SkillAssumption DEF Names, Content
<1>3. target' = [tree EXCEPT !.files[n] = User]
  BY DEF AddFile
<1>4. target' \in Tree /\ \A m \in Names : target'.files[m] = IF m = n THEN User ELSE tree.files[m]
  BY <1>1, <1>2, <1>3 DEF Tree
<1>5. User # Absent
  BY <1>2, SkillAssumption
<1>6. Present(tree) = {m \in Names : tree.files[m] # Absent}
  BY <1>1, PresentIn
<1>7. Present(target') = {m \in Names : target'.files[m] # Absent}
  BY <1>4, PresentIn
<1> QED
  BY <1>1, <1>2, <1>4, <1>5, <1>6, <1>7, BundledNames

LEMMA LinkedTree ==
  ASSUME NEW link \in {"root", "reference"}, Link(link)
  PROVE  target' \in Tree /\ Present(target') = {}
<1>1. target' = [Empty EXCEPT !.link = link]
  BY DEF Link
<1>2. target' \in Tree /\ target'.files = Empty.files
  BY <1>1, EmptyTree DEF Tree
<1> QED
  BY <1>2, EmptyTree, PresentIn

LEMMA UserTypes == ASSUME TypeOK, UserStep PROVE TypeOK'
<1>1. CASE \E n \in Own : AddFile(n)
  BY <1>1, AddedFile DEF AddFile, TypeOK, workspace
<1>2. CASE \E link \in {"root", "reference"} : Link(link)
  BY <1>2, LinkedTree DEF Link, TypeOK, workspace
<1> QED
  BY <1>1, <1>2 DEF UserStep
-----------------------------------------------------------------------------
(* What the workspaces hold. *)

LEMMA StepWorkspaces ==
  ASSUME TypeOK, Workspaces, NEW p \in Installers, Step(p) \/ Killed(p) PROVE Workspaces'
<1>1. ASSUME NEW q \in Installers, q # p PROVE BackedUp(q)' /\ Copied(q)' /\ Staged(q)'
  BY <1>1, OthersStay DEF Workspaces, BackedUp, Copied, Staged
<1>2. BackedUp(p)'
  BY DEF TypeOK, Workspaces, BackedUp, Step, Check, MakeWorkspace, Copy, Stage, Retire, Publish,
     PublishFails, RollBack, RollBackFails, Fails, CleanUp, Killed, Goes, workspace
<1>3. Copied(p)' /\ Staged(p)'
  <2>1. CASE Copy(p)
    <3>1. CASE existing[p]
      <4>1. target \in Tree /\ staged'[p] = target /\ ~ Linked(target) /\ seen'[p] = Own \cap Present(target)
        BY <2>1, <3>1 DEF Copy, StagedIsReal, TypeOK
      <4> QED
        BY <2>1, <4>1 DEF Copied, Staged, Copy, Goes, TypeOK
    <3>2. CASE ~ existing[p]
      <4>1. staged'[p] = Empty /\ seen'[p] = {}
        BY <2>1, <3>2 DEF Copy, TypeOK
      <4>2. ~ Linked(Empty)
        BY EmptyTree DEF Linked
      <4> QED
        BY <2>1, <4>1, <4>2, EmptyTree DEF Copied, Staged, Copy, Goes, TypeOK
    <3> QED
      BY <3>1, <3>2
  <2>2. CASE Stage(p)
    <3>1. staged[p] \in Tree /\ ~ Linked(staged[p]) /\ seen[p] \subseteq Present(staged[p])
      BY <2>2 DEF Workspaces, Copied, Stage, Goes
    <3>2. /\ staged'[p] \in Tree /\ staged'[p].link = staged[p].link
          /\ \A n \in Names : staged'[p].files[n] = IF n \in Bundled THEN p ELSE staged[p].files[n]
      BY <2>2, <3>1, StagedTree
    <3>3. Present(staged[p]) \subseteq Present(staged'[p])
      BY <3>1, <3>2, PresentIn, AbsentIsNone
    <3>4. ~ Linked(staged'[p])
      BY <3>1, <3>2 DEF Linked
    <3>5. seen' = seen
      BY <2>2 DEF Stage
    <3> QED
      BY <3>1, <3>2, <3>3, <3>4, <3>5, BundledNames DEF Copied, Staged
  <2>3. CASE Retire(p)
    BY <2>3 DEF Workspaces, Copied, Staged, Retire, Goes
  <2>4. CASE ~ (Copy(p) \/ Stage(p) \/ Retire(p))
    <3>1. stage'[p] \notin {"copied", "staged", "retired"}
      BY <2>4 DEF TypeOK, Step, Check, MakeWorkspace, Publish, PublishFails, RollBack, RollBackFails,
         Fails, CleanUp, Killed, Goes
    <3> QED
      BY <3>1 DEF Copied, Staged
  <2> QED
    BY <2>1, <2>2, <2>3, <2>4
<1> QED
  BY <1>1, <1>2, <1>3 DEF Workspaces
-----------------------------------------------------------------------------
(* Nothing is lost. *)

(* A file in a backup stays there, unless the installer publishes or rolls   *)
(* back; then the file is at the target, or nobody is promised it.           *)
LEMMA BackupStays ==
  ASSUME TypeOK, Workspaces, NEW p \in Installers, Step(p) \/ Killed(p),
         NEW n \in there' \cap there, NEW q \in Installers, Keeps(q), n \in Present(backup[q])
  PROVE  n \in Present(target') \/ (Keeps(q)' /\ n \in Present(backup'[q]))
<1>1. CASE q # p
  BY <1>1, OthersStay DEF Keeps
<1>2. CASE q = p
  <2>1. stage[p] \notin {"start", "checked", "made", "copied", "staged"} /\ existing[p]
    BY <1>2, NothingPresent DEF Workspaces, BackedUp
  <2>2. CASE Publish(p)
    <3>1. target' = staged[p] /\ staged[p] \in Tree /\ n \in Names
      BY <2>2 DEF Publish, Goes, Workspaces, Copied, TypeOK
    <3>2. CASE n \in Bundled
      <4>1. staged[p].files[n] = p
        BY <2>2, <3>2 DEF Publish, Goes, Workspaces, Staged
      <4> QED
        BY <3>1, <4>1, PresentIn, AbsentIsNone
    <3>3. CASE n \notin Bundled
      <4>1. n \in Own /\ n \notin Unseen(p)
        BY <2>2, <3>1, <3>3 DEF Publish, Names
      <4>2. n \in seen[p]
        BY <1>2, <4>1 DEF Unseen
      <4> QED
        BY <2>2, <3>1, <4>2 DEF Publish, Goes, Workspaces, Copied
    <3> QED
      BY <3>2, <3>3
  <2>3. CASE PublishFails(p)
    BY <1>2, <2>1, <2>3 DEF PublishFails, Goes, Keeps, TypeOK, workspace
  <2>4. CASE RollBack(p)
    BY <1>2, <2>4 DEF RollBack
  <2>5. CASE RollBackFails(p)
    BY <1>2, <2>5 DEF RollBackFails, Goes, Keeps, TypeOK, workspace
  <2>6. CASE Killed(p)
    BY <1>2, <2>6 DEF Killed, Keeps, TypeOK, workspace
  <2>7. CASE Check(p) \/ MakeWorkspace(p) \/ Copy(p) \/ Stage(p) \/ Retire(p) \/ Fails(p)
    BY <2>1, <2>7 DEF Check, MakeWorkspace, Copy, Stage, Retire, Fails, Goes
  <2>8. CASE CleanUp(p)
    BY <1>2, <2>8 DEF CleanUp, Goes, Keeps
  <2> QED
    BY <2>2, <2>3, <2>4, <2>5, <2>6, <2>7, <2>8 DEF Step
<1> QED
  BY <1>1, <1>2

(* A file at the target stays there, or goes into a backup.                  *)
LEMMA TargetStays ==
  ASSUME TypeOK, Workspaces, NEW p \in Installers, Step(p) \/ Killed(p), NEW n \in Present(target)
  PROVE  n \in Present(target') \/ (Keeps(p)' /\ n \in Present(backup'[p]))
<1>1. CASE Retire(p)
  BY <1>1 DEF Retire, Goes, Keeps, TypeOK
<1>2. CASE Publish(p) \/ RollBack(p)
  BY <1>2, VacantHolds DEF Publish, RollBack
<1>3. CASE ~ (Retire(p) \/ Publish(p) \/ RollBack(p))
  BY <1>3 DEF Step, Check, MakeWorkspace, Copy, Stage, PublishFails, RollBackFails, Fails, CleanUp, Killed
<1> QED
  BY <1>1, <1>2, <1>3

LEMMA StepKept ==
  ASSUME TypeOK, Workspaces, Kept, NEW p \in Installers, Step(p) \/ Killed(p) PROVE Kept'
<1> SUFFICES ASSUME NEW n \in there'
             PROVE  n \in Present(target') \/ \E q \in Installers : Keeps(q)' /\ n \in Present(backup'[q])
  BY DEF Kept
<1>1. CASE n \in there
  BY <1>1, TargetStays, BackupStays DEF Kept
<1>2. CASE n \notin there
  <2>1. Publish(p) /\ n \in Bundled
    BY <1>2 DEF Step, Check, MakeWorkspace, Copy, Stage, Retire, Publish, PublishFails, RollBack,
       RollBackFails, Fails, CleanUp, Killed
  <2>2. target' = staged[p] /\ staged[p] \in Tree /\ staged[p].files[n] = p
    BY <2>1 DEF Publish, Goes, Workspaces, Copied, Staged
  <2> QED
    BY <2>1, <2>2, PresentIn, AbsentIsNone, BundledNames
<1> QED
  BY <1>1, <1>2

LEMMA UninstallKept ==
  ASSUME TypeOK, Kept, NEW u \in Uninstallers, UninstallStep(u) PROVE Kept'
<1>1. UNCHANGED workspace /\ \A q \in Installers : stage'[q] = stage[q]
  BY InstallersStay
<1>2. \A n \in there' : n \in there /\ (n \in Present(target) => n \in Present(target'))
  <2>1. CASE RemoveBody(u)
    BY <2>1, UnlinkTypes, BundledNames DEF RemoveBody
  <2>2. CASE RemoveReference(u)
    <3>1. PICK n \in listed[u] : Unlink(n)
      BY <2>2 DEF RemoveReference
    <3>2. n \in Bundled
      BY BundledNames DEF TypeOK
    <3> QED
      BY <3>1, <3>2, UnlinkTypes
  <2>3. CASE Tidy(u)
    BY <2>3, EmptyTree DEF Tidy
  <2>4. CASE Find(u) \/ NotFound(u) \/ List(u) \/ ReferencesDone(u)
    BY <2>4 DEF Find, NotFound, List, ReferencesDone
  <2> QED
    BY <2>1, <2>2, <2>3, <2>4 DEF UninstallStep
<1> QED
  BY <1>1, <1>2 DEF Kept, Keeps, workspace

LEMMA UserKept == ASSUME TypeOK, Kept, UserStep PROVE Kept'
<1>1. UNCHANGED workspace /\ \A q \in Installers : stage'[q] = stage[q]
  BY InstallersStay
<1>2. CASE \E n \in Own : AddFile(n)
  <2>1. PICK n \in Own : AddFile(n)
    BY <1>2
  <2>2. n \in Present(target') /\ Present(target) \subseteq Present(target')
    BY <2>1, AddedFile
  <2>3. there' = there \cup {n}
    BY <2>1 DEF AddFile
  <2> QED
    BY <1>1, <2>2, <2>3 DEF Kept, Keeps, workspace
<1>3. CASE \E link \in {"root", "reference"} : Link(link)
  BY <1>3 DEF Link, Kept
<1> QED
  BY <1>2, <1>3 DEF UserStep
-----------------------------------------------------------------------------
(* Nothing is written through a link. *)

LEMMA NextOutside == ASSUME TypeOK, Workspaces, OutsideUnwritten, Next PROVE OutsideUnwritten'
<1>1. CASE \E p \in Installers : Step(p) \/ Killed(p)
  <2>1. PICK p \in Installers : Step(p) \/ Killed(p)
    BY <1>1
  <2>2. CASE Stage(p)
    <3>1. ~ Linked(staged[p])
      BY <2>2 DEF Stage, Goes, Workspaces, Copied
    <3> QED
      BY <2>2, <3>1 DEF Stage, OutsideUnwritten
  <2>3. CASE ~ Stage(p)
    BY <2>1, <2>3 DEF Step, Check, MakeWorkspace, Copy, Retire, Publish, PublishFails, RollBack,
       RollBackFails, Fails, CleanUp, Killed, OutsideUnwritten
  <2> QED
    BY <2>2, <2>3
<1>2. CASE \E u \in Uninstallers : UninstallStep(u)
  BY <1>2 DEF UninstallStep, Find, NotFound, RemoveBody, List, RemoveReference, ReferencesDone, Tidy,
     Unlink, OutsideUnwritten
<1>3. CASE UserStep
  BY <1>3 DEF UserStep, AddFile, Link, OutsideUnwritten
<1> QED
  BY <1>1, <1>2, <1>3, NextIs
-----------------------------------------------------------------------------
(* Whole, or nothing. *)

LEMMA StepWhole ==
  ASSUME TypeOK, Workspaces, AllWhole, NEW p \in Installers, Step(p) \/ Killed(p) PROVE AllWhole'
<1> SUFFICES ASSUME Untouched' PROVE Whole(target') /\ \A q \in Installers : Whole(backup'[q])
  BY DEF AllWhole
<1>1. Untouched
  BY UninstallersStay DEF Untouched
<1>2. Whole(target) /\ \A q \in Installers : Whole(backup[q])
  BY <1>1 DEF AllWhole
<1>3. \A q \in Installers \ {p} : backup'[q] = backup[q]
  BY OthersStay
<1>4. Whole(NoTree)
  BY NothingPresent, VacantWhole
<1>5. Whole(target')
  <2>1. CASE Publish(p)
    <3>1. target' = staged[p] /\ \A n \in Bundled : staged[p].files[n] = p
      BY <2>1 DEF Publish, Goes, Workspaces, Staged
    <3> QED
      BY <3>1, BundledNames DEF Whole
  <2>2. CASE ~ Publish(p)
    <3>1. target' \in {target, NoTree, backup[p]}
      BY <2>2 DEF Step, Check, MakeWorkspace, Copy, Stage, Retire, PublishFails, RollBack,
         RollBackFails, Fails, CleanUp, Killed
    <3> QED
      BY <1>2, <1>4, <3>1
  <2> QED
    BY <2>1, <2>2
<1>6. Whole(backup'[p])
  <2>1. backup'[p] \in {backup[p], target, NoTree}
    BY DEF TypeOK, Step, Check, MakeWorkspace, Copy, Stage, Retire, Publish, PublishFails, RollBack,
       RollBackFails, Fails, CleanUp, Killed, workspace
  <2> QED
    BY <1>2, <1>4, <2>1
<1> QED
  BY <1>2, <1>3, <1>5, <1>6

LEMMA UserWhole == ASSUME TypeOK, AllWhole, UserStep PROVE AllWhole'
<1> SUFFICES ASSUME Untouched' PROVE Whole(target') /\ \A q \in Installers : Whole(backup'[q])
  BY DEF AllWhole
<1>1. UNCHANGED <<workspace, stage>>
  BY DEF UserStep, AddFile, Link
<1>2. Whole(target) /\ \A q \in Installers : Whole(backup'[q])
  BY <1>1 DEF AllWhole, Untouched, workspace
<1>3. CASE \E n \in Own : AddFile(n)
  <2>1. PICK n \in Own : AddFile(n)
    BY <1>3
  <2> DEFINE tree == IF target = NoTree THEN Empty ELSE target
  <2>2. Whole(tree) /\ tree \in Tree
    BY <1>2, EmptyTree, VacantWhole DEF TypeOK
  <2>3. target' \in Tree /\ \A m \in Bundled : target'.files[m] = tree.files[m]
    BY <2>1, AddedFile
  <2>4. /\ Present(tree) = {m \in Names : tree.files[m] # Absent}
        /\ Present(target') = {m \in Names : target'.files[m] # Absent}
    BY <2>2, <2>3, PresentIn
  <2>5. Body \in Present(target') => Body \in Present(tree)
    BY <2>3, <2>4, BundledNames
  <2> QED
    BY <1>2, <2>2, <2>3, <2>5, BundledNames DEF Whole
<1>4. CASE \E link \in {"root", "reference"} : Link(link)
  BY <1>2, <1>4, LinkedTree, VacantWhole
<1> QED
  BY <1>3, <1>4 DEF UserStep
-----------------------------------------------------------------------------
(* The theorems. *)

LEMMA InitIInv == Init => IInv
<1> SUFFICES ASSUME Init PROVE IInv
  OBVIOUS
<1>1. TypeOK
  BY InitTypes
<1>2. Workspaces /\ OutsideUnwritten
  BY DEF Init, Workspaces, BackedUp, Copied, Staged, OutsideUnwritten
<1>3. PICK bundled \in {{}, References, Bundled}, own \in SUBSET Own :
        LET content == [n \in Names |-> IF n \in Own THEN User ELSE Old]
        IN  /\ target \in {Plain(Holding(bundled \cup own, content))} \cup
                            (IF bundled \cup own = {} THEN {NoTree} ELSE {})
            /\ there = bundled \cup own
  BY DEF Init
<1> DEFINE files == [n \in Names |-> IF n \in bundled \cup own THEN IF n \in Own THEN User ELSE Old ELSE Absent]
<1>4. target = [files |-> files, link |-> "none"] \/ (target = NoTree /\ there = {})
  BY <1>3 DEF Plain, Holding
<1>5. [files |-> files, link |-> "none"] # NoTree
  <2>1. files \in [Names -> Content \cup {Absent}]
    BY DEF Content
  <2> QED
    BY <2>1, NoTreeAssumption DEF Tree
<1>6. CASE target = NoTree /\ there = {}
  <2>1. Kept
    BY <1>6 DEF Kept
  <2>2. Whole(target) /\ \A p \in Installers : Whole(backup[p])
    BY <1>6, NothingPresent, VacantWhole DEF Init
  <2> QED
    BY <1>1, <1>2, <2>1, <2>2 DEF IInv, AllWhole
<1>7. CASE target = [files |-> files, link |-> "none"] /\ target # NoTree
  <2>1. User # Absent /\ Old # Absent
    BY SkillAssumption DEF Content
  <2>2. there \subseteq Names /\ there = bundled \cup own
    BY <1>1, <1>3 DEF TypeOK
  <2>3. Present(target) = {n \in Names : files[n] # Absent}
    BY <1>7 DEF Present
  <2>4. Kept
    BY <2>1, <2>2, <2>3 DEF Kept
  <2>5. Whole(target)
    <3>1. CASE Body \in bundled
      <4>1. References \subseteq bundled
        BY <1>3, <3>1, SkillAssumption DEF Bundled
      <4>2. \A n \in Bundled : n \notin Own /\ n \in Names
        BY SkillAssumption DEF Names
      <4>3. \A n \in References \cup {Body} : files[n] = Old
        BY <3>1, <4>1, <4>2 DEF Bundled
      <4> QED
        BY <1>7, <4>3 DEF Whole
    <3>2. CASE Body \notin bundled
      <4>1. Body \notin own
        BY SkillAssumption DEF Bundled
      <4> QED
        BY <2>3, <3>2, <4>1 DEF Whole
    <3> QED
      BY <3>1, <3>2
  <2>6. \A p \in Installers : Whole(backup[p])
    BY NothingPresent, VacantWhole DEF Init
  <2> QED
    BY <1>1, <1>2, <2>4, <2>5, <2>6 DEF IInv, AllWhole
<1> QED
  BY <1>4, <1>5, <1>6, <1>7

LEMMA NextIInv == IInv /\ [Next]_vars => IInv'
<1> SUFFICES ASSUME IInv, [Next]_vars PROVE IInv'
  OBVIOUS
<1> USE DEF IInv
<1>1. CASE \E p \in Installers : Step(p) \/ Killed(p)
  <2>1. PICK p \in Installers : Step(p) \/ Killed(p)
    BY <1>1
  <2>2. Next
    BY <2>1 DEF Next
  <2> QED
    BY <2>1, <2>2, StepTypes, StepWorkspaces, StepKept, NextOutside, StepWhole
<1>2. CASE \E u \in Uninstallers : UninstallStep(u)
  <2>1. PICK u \in Uninstallers : UninstallStep(u)
    BY <1>2
  <2>2. Next
    BY <2>1 DEF Next, UninstallStep
  <2>3. Workspaces'
    BY <2>1, InstallersStay DEF Workspaces, BackedUp, Copied, Staged, workspace
  <2>4. AllWhole'
    BY <2>1, Uninstalled DEF AllWhole, Untouched
  <2> QED
    BY <2>1, <2>2, <2>3, <2>4, UninstallTypes, UninstallKept, NextOutside
<1>3. CASE UserStep
  <2>1. Next
    BY <1>3 DEF Next, UserStep
  <2>2. Workspaces'
    BY <1>3, InstallersStay DEF Workspaces, BackedUp, Copied, Staged, workspace
  <2> QED
    BY <1>3, <2>1, <2>2, UserTypes, UserKept, NextOutside, UserWhole
<1>4. CASE UNCHANGED vars
  BY <1>4 DEF vars, workspace, TypeOK, Workspaces, BackedUp, Copied, Staged, Kept, Keeps,
     OutsideUnwritten, AllWhole, Untouched
<1> QED
  BY <1>1, <1>2, <1>3, <1>4, NextIs

(* Where every file of the skill is, at each point of every command.        *)
THEOREM Invariant == Spec => []IInv
BY InitIInv, NextIInv, PTL DEF Spec

(* Every state has the form the model says.                                  *)
THEOREM TypeCorrect == Spec => []TypeOK
<1>1. IInv => TypeOK
  BY DEF IInv
<1> QED
  BY Invariant, <1>1, PTL

(* Whatever fails or is killed, and however many install, uninstall and      *)
(* write at once: a file of the skill that nobody uninstalled or moved, and  *)
(* that whoever replaced the skill had seen, is there or in a workspace.     *)
THEOREM NothingLost == Spec => []NothingIsLost
<1>1. IInv => NothingIsLost
  BY DEF IInv, Kept, NothingIsLost
<1> QED
  BY Invariant, <1>1, PTL

(* What an installer puts in place is one package, however the installers    *)
(* interleave and fail.                                                      *)
THEOREM OnlyWhole == Spec => []WholeOrNothing
<1>1. IInv => WholeOrNothing
  BY DEF IInv, AllWhole, Untouched, Whole, WholeOrNothing
<1> QED
  BY Invariant, <1>1, PTL

(* No installer writes a file of the package behind a link.                  *)
THEOREM NeverOutside == Spec => []OutsideUnwritten
<1>1. IInv => OutsideUnwritten
  BY DEF IInv
<1> QED
  BY Invariant, <1>1, PTL
===============================================================================
