---------------------------- MODULE CliFilesProofs ----------------------------
(* Theorems about CliFiles, for any number of changes by other programs.     *)
EXTENDS CliFiles, FiniteSetTheorems, TLAPS

-----------------------------------------------------------------------------
(* The inductive invariant. *)

(* There is a file left to be made: so many are in use.                      *)
Used == {f \in Files : file[f].kind # "unused"}
One(held) == IF held = Nowhere THEN 0 ELSE 1
Room == Cardinality(Used) <= 2 + changes + One(fd) + One(out)

(* The reserved file is the program's own, has its name in the staging       *)
(* directory at most, and holds the record and nothing else, until an answer *)
(* is saved there or a write fails.                                          *)
Reserved ==
  /\ at \in {"prepare", "open"} => fd = Nowhere /\ entry["staged"] = Nowhere
  /\ entry["staged"] \in {Nowhere, fd}
  /\ fd # Nowhere =>
       /\ file[fd].kind = "regular" /\ file[fd].ours
       /\ written => "record" \in file[fd].holds
       /\ out # fd /\ ~ told => file[fd].holds = IF written THEN {"record"} ELSE {}

(* A record is written for a failure only, and before the file is finished.  *)
Recorded ==
  /\ written => code = 1 /\ at \in {"finish", "ended"}
  /\ at \in {"record", "finish", "remove"} => fd # Nowhere
  /\ at = "record" => code = 1

(* Before the answer there is no file for it; then it is a regular file the  *)
(* program made or may replace.                                              *)
BeforeAnswer ==
  {"prepare", "open", "opened", "publish", "published", "unstage", "unstage published", "protect", "verify",
   "undo", "undo unlink", "refused", "work", "request", "open out", "create out"}
Target ==
  /\ at \in BeforeAnswer => out = Nowhere
  /\ at \in {"open out", "validate", "truncate"} => config.force
  /\ at \in {"validate", "truncate", "write", "report"} => out # Nowhere
  /\ out \in Files => file[out].kind = "regular" /\ (file[out].ours \/ config.force)
  /\ at \in {"truncate", "write", "report"} =>
       /\ out \in Files
       /\ file[out].ours \/ out \in wasOut
       /\ "out" \in calm => lstat("out") = out

(* The answer is whole from the report on, until a record is written.        *)
Saved ==
  /\ at = "report" => file[out].holds = {"data"}
  /\ code = 0 =>
       /\ at \in {"finish", "remove", "ended"}
       /\ out \in Files
       /\ file[out].holds = {"data"}
       /\ "out" \in calm /\ out # fd => lstat("out") = out
  /\ at \in BeforeAnswer \cup {"validate", "truncate", "write", "report", "failed"} => code = -1

(* What is removed by its name still has it, if nobody touched it since.     *)
Removable ==
  /\ at = "undo unlink" /\ "diagnostic" \in calm => entry["diagnostic"] = fd
  /\ at = "remove" => ~ written
  /\ at = "remove" /\ calm # {} => "diagnostic" \in calm /\ entry["diagnostic"] = fd

(* Every file --out has named was noted.                                     *)
OutNoted == lstat("out") \in wasOut \cup {Nowhere}

IInv ==
  /\ TypeOK
  /\ Room
  /\ Reserved
  /\ Recorded
  /\ Target
  /\ Saved
  /\ Removable
  /\ OutNoted
  /\ DiagnosticIsKeptOrTold

-----------------------------------------------------------------------------
(* Names, files and how many are in use. *)

LEMMA NameFacts ==
  /\ {"diagnostic", "out", "other", "staged"} \subseteq Names
  /\ Resolve("diagnostic") = "diagnostic" /\ Resolve("staged") = "staged"
  /\ Resolve("out") \in {"out", "diagnostic"}
  /\ Elsewhere \subseteq {"diagnostic", "out", "other"}
BY DEF Names, Resolve, Elsewhere

LEMMA FileFacts ==
  /\ Nowhere \notin Files \cup {Pointed}
  /\ Pointed \notin Files
  /\ IsFiniteSet(Files) /\ Cardinality(Files) = MaxChanges + 4
<1>1. MaxChanges + 4 \in Nat /\ MaxChanges \in Nat
  BY MaxChangesAssumption
<1>2. IsFiniteSet(Files) /\ Cardinality(Files) = MaxChanges + 4
  BY <1>1, FS_Interval DEF Files
<1> QED
  BY <1>1, <1>2 DEF Files, Nowhere, Pointed

LEMMA UsedIsFinite ==
  /\ IsFiniteSet(Used) /\ Cardinality(Used) \in Nat
  /\ IsFiniteSet(Used') /\ Cardinality(Used') \in Nat
<1>1. Used \subseteq Files /\ Used' \subseteq Files
  BY DEF Used
<1> QED
  BY <1>1, FileFacts, FS_Subset, FS_CardinalityType

(* As long as less is in use than there is, a file can be made.              *)
LEMMA FreshFile ==
  ASSUME TypeOK, Room, fd = Nowhere \/ out = Nowhere \/ changes < MaxChanges
  PROVE  Fresh \in Files /\ file[Fresh].kind = "unused"
<1>1. Cardinality(Used) < MaxChanges + 4
  BY MaxChangesAssumption, UsedIsFinite DEF Room, One, TypeOK
<1>2. Used # Files
  BY <1>1, FileFacts, UsedIsFinite, MaxChangesAssumption
<1>3. Spare # {}
  BY <1>2 DEF Used, Spare
<1> QED
  BY <1>3 DEF Spare, Fresh

(* A file is made of one that was not in use.                                *)
LEMMA MakeFile ==
  ASSUME TypeOK, NEW f \in Files, file[f].kind = "unused", NEW made,
         made \in [kind: {"regular", "symlink"}, mode: {"private", "other"},
                   holds: SUBSET {"theirs", "record", "data", "cut"}, ours: BOOLEAN],
         file' = [file EXCEPT ![f] = made]
  PROVE  /\ Cardinality(Used') = Cardinality(Used) + 1
         /\ file' \in [Files \cup {Pointed} ->
                        [kind: {"unused", "regular", "symlink"}, mode: {"private", "other"},
                         holds: SUBSET {"theirs", "record", "data", "cut"}, ours: BOOLEAN]]
         /\ file'[f] = made
         /\ \A g \in (Files \cup {Pointed}) \ {f} : file'[g] = file[g]
<1>1. file'[f] = made /\ \A g \in (Files \cup {Pointed}) \ {f} : file'[g] = file[g]
  BY DEF TypeOK
<1>2. Used' = Used \cup {f} /\ f \notin Used
  BY <1>1 DEF Used
<1>3. Cardinality(Used') = Cardinality(Used) + 1
  BY <1>2, UsedIsFinite, FS_AddElement
<1> QED
  BY <1>1, <1>3 DEF TypeOK

LEMMA SameUse ==
  ASSUME \A f \in Files : file'[f].kind = file[f].kind PROVE Used' = Used
BY DEF Used

(* What a file holds is replaced.                                            *)
LEMMA PutFile ==
  ASSUME TypeOK, NEW f \in Files, NEW holds \in SUBSET {"theirs", "record", "data", "cut"}, Put(f, holds)
  PROVE  /\ Used' = Used
         /\ file' \in [Files \cup {Pointed} ->
                        [kind: {"unused", "regular", "symlink"}, mode: {"private", "other"},
                         holds: SUBSET {"theirs", "record", "data", "cut"}, ours: BOOLEAN]]
         /\ \A g \in Files \cup {Pointed} :
              /\ file'[g].kind = file[g].kind /\ file'[g].ours = file[g].ours
              /\ file'[g].holds = IF g = f THEN holds ELSE file[g].holds
<1>1. file' = [file EXCEPT ![f].holds = holds]
  BY DEF Put
<1>2. \A g \in Files \cup {Pointed} :
        /\ file'[g].kind = file[g].kind /\ file'[g].ours = file[g].ours /\ file'[g].mode = file[g].mode
        /\ file'[g].holds = IF g = f THEN holds ELSE file[g].holds
  BY <1>1 DEF TypeOK
<1>3. file' \in [Files \cup {Pointed} ->
                  [kind: {"unused", "regular", "symlink"}, mode: {"private", "other"},
                   holds: SUBSET {"theirs", "record", "data", "cut"}, ours: BOOLEAN]]
  BY <1>1 DEF TypeOK
<1> QED
  BY <1>2, <1>3, SameUse

(* Its permissions are changed.                                              *)
LEMMA ChangeMode ==
  ASSUME TypeOK, NEW f \in Files, NEW mode \in {"private", "other"},
         file' = [file EXCEPT ![f].mode = mode]
  PROVE  /\ Used' = Used
         /\ file' \in [Files \cup {Pointed} ->
                        [kind: {"unused", "regular", "symlink"}, mode: {"private", "other"},
                         holds: SUBSET {"theirs", "record", "data", "cut"}, ours: BOOLEAN]]
         /\ \A g \in Files \cup {Pointed} :
              /\ file'[g].kind = file[g].kind /\ file'[g].ours = file[g].ours
              /\ file'[g].holds = file[g].holds
<1>1. \A g \in Files \cup {Pointed} :
        /\ file'[g].kind = file[g].kind /\ file'[g].ours = file[g].ours
        /\ file'[g].holds = file[g].holds
  BY DEF TypeOK
<1>2. file' \in [Files \cup {Pointed} ->
                  [kind: {"unused", "regular", "symlink"}, mode: {"private", "other"},
                   holds: SUBSET {"theirs", "record", "data", "cut"}, ours: BOOLEAN]]
  BY DEF TypeOK
<1> QED
  BY <1>1, <1>2, SameUse

(* A name is given to a file, or taken from one.                             *)
LEMMA NameFile ==
  ASSUME TypeOK, NEW name \in Names, NEW f \in Files \cup {Nowhere}, entry' = [entry EXCEPT ![name] = f]
  PROVE  /\ entry' \in [Names -> Files \cup {Nowhere}]
         /\ entry'[name] = f
         /\ \A other \in Names \ {name} : entry'[other] = entry[other]
BY DEF TypeOK
-----------------------------------------------------------------------------
(* The steps that change no file and no name. *)

Quiet ==
  \/ canonicalDestination \/ CheckPublished \/ CheckOpened \/ Verify \/ Undo \/ Refused
  \/ resolveOut \/ Answer \/ Interrupt \/ Validate \/ Report \/ BeforeRecord \/ Finish

(* All of the invariant that only the program counter, what was said and     *)
(* what was checked can disturb.                                             *)
Control == Reserved /\ Recorded /\ Target /\ Saved /\ Removable /\ DiagnosticIsKeptOrTold

LEMMA QuietKeeps ==
  ASSUME IInv, UNCHANGED <<entry, file, fd, out, written, changes, config>>, wasOut \subseteq wasOut',
         code' \in {-1, 0, 1, 130}, calm' \subseteq {"diagnostic", "out"}, told' \in BOOLEAN, Control'
  PROVE  IInv'
<1>1. TypeOK' /\ OutNoted'
  BY DEF IInv, TypeOK, OutNoted, lstat, Resolve
<1>2. Room'
  BY DEF IInv, Room, Used, One
<1> QED
  BY <1>1, <1>2 DEF IInv, Control

LEMMA CanonicalDestinationKeeps == ASSUME IInv, canonicalDestination PROVE IInv'
<1>1. UNCHANGED <<entry, file, fd, out, written, changes, config, wasOut>>
  BY DEF canonicalDestination, Kept
<1>2. code' \in {-1, 0, 1, 130} /\ calm' \subseteq {"diagnostic", "out"} /\ told' \in BOOLEAN
  BY DEF canonicalDestination, IInv, TypeOK
<1>3. at' \in {"refused", "open"}
  BY DEF canonicalDestination, Refuse
<1>4. at = "prepare" /\ told' = told /\ code' = code
  BY DEF canonicalDestination
<1>5. Reserved'
  BY <1>1, <1>3, <1>4 DEF IInv, Reserved
<1>6. Recorded'
  BY <1>1, <1>3, <1>4 DEF IInv, Recorded
<1>7. Target'
  BY <1>1, <1>3 DEF canonicalDestination, IInv, Target, BeforeAnswer, lstat, Resolve
<1>8. Saved'
  BY <1>1, <1>3 DEF canonicalDestination, IInv, Target, Saved, BeforeAnswer, lstat, Resolve
<1>9. Removable'
  BY <1>1 DEF canonicalDestination, Refuse, IInv, Removable, lstat, Resolve
<1>10. DiagnosticIsKeptOrTold'
  BY <1>1 DEF canonicalDestination, Refuse, IInv, Recorded, Reserved, DiagnosticIsKeptOrTold,
     sameFile, isPrivate, nlink, lstat, Resolve
<1> QED
  BY <1>1, <1>2, <1>5, <1>6, <1>7, <1>8, <1>9, <1>10, QuietKeeps DEF Control

LEMMA CheckPublishedKeeps == ASSUME IInv, CheckPublished PROVE IInv'
<1>1. UNCHANGED <<entry, file, fd, out, written, changes, config, wasOut>>
  BY DEF CheckPublished, Kept
<1>2. code' \in {-1, 0, 1, 130} /\ calm' \subseteq {"diagnostic", "out"} /\ told' \in BOOLEAN
  BY DEF CheckPublished, IInv, TypeOK
<1>3. at' \in {"unstage published", "unstage"}
  BY DEF CheckPublished, sameFile
<1>4. at = "published" /\ told' = told /\ code' = code
  BY DEF CheckPublished
<1>5. Reserved'
  BY <1>1, <1>3, <1>4 DEF IInv, Reserved
<1>6. Recorded'
  BY <1>1, <1>3, <1>4 DEF IInv, Recorded
<1>7. Target'
  BY <1>1, <1>3 DEF CheckPublished, IInv, Target, BeforeAnswer, lstat, Resolve
<1>8. Saved'
  BY <1>1, <1>3 DEF CheckPublished, IInv, Target, Saved, BeforeAnswer, lstat, Resolve
<1>9. Removable'
  BY <1>1 DEF CheckPublished, IInv, Removable, sameFile, lstat, Resolve
<1>10. DiagnosticIsKeptOrTold'
  BY <1>1 DEF CheckPublished, IInv, Recorded, Reserved, DiagnosticIsKeptOrTold, sameFile,
     isPrivate, nlink, lstat, Resolve
<1> QED
  BY <1>1, <1>2, <1>5, <1>6, <1>7, <1>8, <1>9, <1>10, QuietKeeps DEF Control

LEMMA CheckOpenedKeeps == ASSUME IInv, CheckOpened PROVE IInv'
<1>1. UNCHANGED <<entry, file, fd, out, written, changes, config, wasOut>>
  BY DEF CheckOpened, Kept
<1>2. code' \in {-1, 0, 1, 130} /\ calm' \subseteq {"diagnostic", "out"} /\ told' \in BOOLEAN
  BY DEF CheckOpened, IInv, TypeOK
<1>3. at' \in {"protect", "undo"}
  BY DEF CheckOpened, WithdrawThenRefuse, sameFile
<1>4. at = "opened" /\ told' = told /\ code' = code
  BY DEF CheckOpened
<1>5. Reserved'
  BY <1>1, <1>3, <1>4 DEF IInv, Reserved
<1>6. Recorded'
  BY <1>1, <1>3, <1>4 DEF IInv, Recorded
<1>7. Target'
  BY <1>1, <1>3 DEF CheckOpened, IInv, Target, BeforeAnswer, lstat, Resolve
<1>8. Saved'
  BY <1>1, <1>3 DEF CheckOpened, IInv, Target, Saved, BeforeAnswer, lstat, Resolve
<1>9. Removable'
  BY <1>1 DEF CheckOpened, WithdrawThenRefuse, IInv, Removable, sameFile, lstat, Resolve
<1>10. DiagnosticIsKeptOrTold'
  BY <1>1 DEF CheckOpened, WithdrawThenRefuse, IInv, Recorded, Reserved, DiagnosticIsKeptOrTold,
     sameFile, isPrivate, nlink, lstat, Resolve
<1> QED
  BY <1>1, <1>2, <1>5, <1>6, <1>7, <1>8, <1>9, <1>10, QuietKeeps DEF Control

LEMMA VerifyKeeps == ASSUME IInv, Verify PROVE IInv'
<1>1. UNCHANGED <<entry, file, fd, out, written, changes, config, wasOut>>
  BY DEF Verify, Kept
<1>2. code' \in {-1, 0, 1, 130} /\ calm' \subseteq {"diagnostic", "out"} /\ told' \in BOOLEAN
  BY DEF Verify, IInv, TypeOK
<1>3. at' \in {"work", "undo"}
  BY DEF Verify, WithdrawThenRefuse, sameFile, isPrivate
<1>4. at = "verify" /\ told' = told /\ code' = code
  BY DEF Verify
<1>5. Reserved'
  BY <1>1, <1>3, <1>4 DEF IInv, Reserved
<1>6. Recorded'
  BY <1>1, <1>3, <1>4 DEF IInv, Recorded
<1>7. Target'
  BY <1>1, <1>3 DEF Verify, IInv, Target, BeforeAnswer, lstat, Resolve
<1>8. Saved'
  BY <1>1, <1>3 DEF Verify, IInv, Target, Saved, BeforeAnswer, lstat, Resolve
<1>9. Removable'
  BY <1>1 DEF Verify, WithdrawThenRefuse, IInv, Removable, sameFile, lstat, Resolve
<1>10. DiagnosticIsKeptOrTold'
  BY <1>1 DEF Verify, WithdrawThenRefuse, IInv, Recorded, Reserved, DiagnosticIsKeptOrTold,
     sameFile, isPrivate, nlink, lstat, Resolve
<1> QED
  BY <1>1, <1>2, <1>5, <1>6, <1>7, <1>8, <1>9, <1>10, QuietKeeps DEF Control

LEMMA UndoKeeps == ASSUME IInv, Undo PROVE IInv'
<1>1. UNCHANGED <<entry, file, fd, out, written, changes, config, wasOut>>
  BY DEF Undo, Kept
<1>2. code' \in {-1, 0, 1, 130} /\ calm' \subseteq {"diagnostic", "out"} /\ told' \in BOOLEAN
  BY DEF Undo, IInv, TypeOK, Check
<1>3. at' \in {"undo unlink", "refused"}
  BY DEF Undo, Refuse, sameFile
<1>4. at = "undo" /\ told' = told /\ code' = code
  BY DEF Undo
<1>5. Reserved'
  BY <1>1, <1>3, <1>4 DEF IInv, Reserved
<1>6. Recorded'
  BY <1>1, <1>3, <1>4 DEF IInv, Recorded
<1>7. Target'
  BY <1>1, <1>3 DEF Undo, Check, IInv, Target, BeforeAnswer, lstat, Resolve
<1>8. Saved'
  BY <1>1, <1>3 DEF Undo, Check, IInv, Target, Saved, BeforeAnswer, lstat, Resolve
<1>9. Removable'
  BY <1>1 DEF Undo, Refuse, Check, IInv, Removable, sameFile, lstat, Resolve
<1>10. DiagnosticIsKeptOrTold'
  BY <1>1 DEF Undo, Refuse, Check, IInv, Recorded, Reserved, DiagnosticIsKeptOrTold, sameFile,
     isPrivate, nlink, lstat, Resolve
<1> QED
  BY <1>1, <1>2, <1>5, <1>6, <1>7, <1>8, <1>9, <1>10, QuietKeeps DEF Control

LEMMA RefusedKeeps == ASSUME IInv, Refused PROVE IInv'
<1>1. UNCHANGED <<entry, file, fd, out, written, changes, config, wasOut>>
  BY DEF Refused, Kept
<1>2. code' \in {-1, 0, 1, 130} /\ calm' \subseteq {"diagnostic", "out"} /\ told' \in BOOLEAN
  BY DEF Refused, IInv, TypeOK
<1>3. at' \in {"ended"}
  BY DEF Refused
<1>4. at = "refused" /\ told' /\ code' = 1
  BY DEF Refused
<1>5. Reserved'
  BY <1>1, <1>3, <1>4 DEF IInv, Reserved
<1>6. Recorded'
  BY <1>1, <1>3, <1>4 DEF IInv, Recorded
<1>7. Target'
  BY <1>1, <1>3 DEF Refused, IInv, Target, BeforeAnswer, lstat, Resolve
<1>8. Saved'
  BY <1>1, <1>3 DEF Refused, IInv, Target, Saved, BeforeAnswer, lstat, Resolve
<1>9. Removable'
  BY <1>1 DEF Refused, IInv, Removable, lstat, Resolve
<1>10. DiagnosticIsKeptOrTold'
  BY <1>1 DEF Refused, IInv, Recorded, Reserved, DiagnosticIsKeptOrTold, sameFile, isPrivate,
     nlink, lstat, Resolve
<1> QED
  BY <1>1, <1>2, <1>5, <1>6, <1>7, <1>8, <1>9, <1>10, QuietKeeps DEF Control

LEMMA ResolveOutKeeps == ASSUME IInv, resolveOut PROVE IInv'
<1>1. UNCHANGED <<entry, file, fd, out, written, changes, config, wasOut>>
  BY DEF resolveOut, Kept
<1>2. code' \in {-1, 0, 1, 130} /\ calm' \subseteq {"diagnostic", "out"} /\ told' \in BOOLEAN
  BY DEF resolveOut, IInv, TypeOK
<1>3. at' \in {"request", "failed"}
  BY DEF resolveOut, Fail
<1>4. at = "work" /\ told' = told /\ code' = code
  BY DEF resolveOut, Fail
<1>5. Reserved'
  BY <1>1, <1>3, <1>4 DEF IInv, Reserved
<1>6. Recorded'
  BY <1>1, <1>3, <1>4 DEF IInv, Recorded
<1>7. Target'
  BY <1>1, <1>3 DEF resolveOut, Fail, IInv, Target, BeforeAnswer, lstat, Resolve
<1>8. Saved'
  BY <1>1, <1>3 DEF resolveOut, Fail, IInv, Target, Saved, BeforeAnswer, lstat, Resolve
<1>9. Removable'
  BY <1>1 DEF resolveOut, Fail, IInv, Removable, lstat, Resolve
<1>10. DiagnosticIsKeptOrTold'
  BY <1>1 DEF resolveOut, Fail, IInv, Recorded, Reserved, DiagnosticIsKeptOrTold, sameFile,
     isPrivate, nlink, lstat, Resolve
<1> QED
  BY <1>1, <1>2, <1>5, <1>6, <1>7, <1>8, <1>9, <1>10, QuietKeeps DEF Control

LEMMA AnswerKeeps == ASSUME IInv, Answer PROVE IInv'
<1>1. UNCHANGED <<entry, file, fd, out, written, changes, config, wasOut>>
  BY DEF Answer, Kept
<1>2. code' \in {-1, 0, 1, 130} /\ calm' \subseteq {"diagnostic", "out"} /\ told' \in BOOLEAN
  BY DEF Answer, IInv, TypeOK
<1>3. at' \in {"open out", "create out", "failed"}
  BY DEF Answer
<1>4. at = "request" /\ told' = told /\ code' = code
  BY DEF Answer
<1>5. Reserved'
  BY <1>1, <1>3, <1>4 DEF IInv, Reserved
<1>6. Recorded'
  BY <1>1, <1>3, <1>4 DEF IInv, Recorded
<1>7. Target'
  BY <1>1, <1>3 DEF Answer, IInv, Target, BeforeAnswer, lstat, Resolve
<1>8. Saved'
  BY <1>1, <1>3 DEF Answer, IInv, Target, Saved, BeforeAnswer, lstat, Resolve
<1>9. Removable'
  BY <1>1 DEF Answer, IInv, Removable, lstat, Resolve
<1>10. DiagnosticIsKeptOrTold'
  BY <1>1 DEF Answer, IInv, Recorded, Reserved, DiagnosticIsKeptOrTold, sameFile, isPrivate, nlink,
     lstat, Resolve
<1> QED
  BY <1>1, <1>2, <1>5, <1>6, <1>7, <1>8, <1>9, <1>10, QuietKeeps DEF Control

LEMMA InterruptKeeps == ASSUME IInv, Interrupt PROVE IInv'
<1>1. UNCHANGED <<entry, file, fd, out, written, changes, config, wasOut>>
  BY DEF Interrupt, Kept
<1>2. code' \in {-1, 0, 1, 130} /\ calm' \subseteq {"diagnostic", "out"} /\ told' \in BOOLEAN
  BY DEF Interrupt, IInv, TypeOK
<1>3. at' \in {"ended", "finish"}
  BY DEF Interrupt
<1>4. at = "request" /\ told' = told /\ code' = 130
  BY DEF Interrupt
<1>5. Reserved'
  BY <1>1, <1>3, <1>4 DEF IInv, Reserved
<1>6. Recorded'
  BY <1>1, <1>3, <1>4 DEF Interrupt, IInv, Recorded
<1>7. Target'
  BY <1>1, <1>3 DEF Interrupt, IInv, Target, BeforeAnswer, lstat, Resolve
<1>8. Saved'
  BY <1>1, <1>3 DEF Interrupt, IInv, Target, Saved, BeforeAnswer, lstat, Resolve
<1>9. Removable'
  BY <1>1 DEF Interrupt, IInv, Removable, lstat, Resolve
<1>10. DiagnosticIsKeptOrTold'
  BY <1>1 DEF Interrupt, IInv, Recorded, Reserved, DiagnosticIsKeptOrTold, sameFile, isPrivate,
     nlink, lstat, Resolve
<1> QED
  BY <1>1, <1>2, <1>5, <1>6, <1>7, <1>8, <1>9, <1>10, QuietKeeps DEF Control

LEMMA ValidateKeeps == ASSUME IInv, Validate PROVE IInv'
<1>1. UNCHANGED <<entry, file, fd, out, written, changes, config, wasOut>>
  BY DEF Validate, Kept
<1>2. code' \in {-1, 0, 1, 130} /\ calm' \subseteq {"diagnostic", "out"} /\ told' \in BOOLEAN
  BY DEF Validate, IInv, TypeOK, Check
<1>3. at' \in {"truncate", "failed"}
  BY DEF Validate, Fail
<1>4. at = "validate" /\ told' = told /\ code' = code
  BY DEF Validate, Fail
<1>5. Reserved'
  BY <1>1, <1>3, <1>4 DEF IInv, Reserved
<1>6. Recorded'
  BY <1>1, <1>3, <1>4 DEF IInv, Recorded
<1>7. Target'
  <2>1. at' = "truncate" => lstat("out") = out /\ lstat("out") \in wasOut /\ out \in Files
    <3>1. lstat("out") \in Files \cup {Nowhere}
      BY NameFacts DEF IInv, TypeOK, lstat
    <3>2. at' = "truncate" => lstat("out") = out
      BY DEF Validate, Fail
    <3> QED
      BY <1>4, <3>1, <3>2 DEF IInv, Target, OutNoted
  <2> QED
    BY <1>1, <1>3, <1>4, <2>1 DEF IInv, Target, BeforeAnswer, lstat, Resolve
<1>8. Saved'
  BY <1>1, <1>3 DEF Validate, Fail, Check, IInv, Target, Saved, BeforeAnswer, lstat, Resolve
<1>9. Removable'
  BY <1>1 DEF Validate, Fail, Check, IInv, Removable, lstat, Resolve
<1>10. DiagnosticIsKeptOrTold'
  BY <1>1 DEF Validate, Fail, Check, IInv, Recorded, Reserved, DiagnosticIsKeptOrTold, sameFile,
     isPrivate, nlink, lstat, Resolve
<1> QED
  BY <1>1, <1>2, <1>5, <1>6, <1>7, <1>8, <1>9, <1>10, QuietKeeps DEF Control

LEMMA ReportKeeps == ASSUME IInv, Report PROVE IInv'
<1>1. UNCHANGED <<entry, file, fd, out, written, changes, config, wasOut>>
  BY DEF Report, Kept
<1>2. code' \in {-1, 0, 1, 130} /\ calm' \subseteq {"diagnostic", "out"} /\ told' \in BOOLEAN
  BY DEF Report, IInv, TypeOK
<1>3. at' \in {"failed", "ended", "finish"}
  BY DEF Report, Fail
<1>4. at = "report" /\ told' = told /\ (at' # "failed" => code' = 0)
  BY DEF Report, Fail
<1>5. Reserved'
  BY <1>1, <1>3, <1>4 DEF IInv, Reserved
<1>6. Recorded'
  BY <1>1, <1>3, <1>4 DEF Report, Fail, IInv, Recorded
<1>7. Target'
  BY <1>1, <1>3 DEF Report, Fail, IInv, Target, BeforeAnswer, lstat, Resolve
<1>8. Saved'
  BY <1>1, <1>3 DEF Report, Fail, IInv, Target, Saved, BeforeAnswer, lstat, Resolve
<1>9. Removable'
  BY <1>1 DEF Report, Fail, IInv, Removable, lstat, Resolve
<1>10. DiagnosticIsKeptOrTold'
  BY <1>1 DEF Report, Fail, IInv, Recorded, Reserved, DiagnosticIsKeptOrTold, sameFile, isPrivate,
     nlink, lstat, Resolve
<1> QED
  BY <1>1, <1>2, <1>5, <1>6, <1>7, <1>8, <1>9, <1>10, QuietKeeps DEF Control

LEMMA BeforeRecordKeeps == ASSUME IInv, BeforeRecord PROVE IInv'
<1>1. UNCHANGED <<entry, file, fd, out, written, changes, config, wasOut>>
  BY DEF BeforeRecord, Kept
<1>2. code' \in {-1, 0, 1, 130} /\ calm' \subseteq {"diagnostic", "out"} /\ told' \in BOOLEAN
  BY DEF BeforeRecord, IInv, TypeOK
<1>3. at' \in {"ended", "record", "finish"}
  BY DEF BeforeRecord, sameFile, isPrivate
<1>4. at = "failed" /\ (told => told') /\ code' = 1
  BY DEF BeforeRecord
<1>5. Reserved'
  BY <1>1, <1>3, <1>4 DEF IInv, Reserved
<1>6. Recorded'
  BY <1>1, <1>3, <1>4 DEF BeforeRecord, IInv, Recorded
<1>7. Target'
  BY <1>1, <1>3 DEF BeforeRecord, IInv, Target, BeforeAnswer, lstat, Resolve
<1>8. Saved'
  <2>1. code' = 1
    BY <1>4
  <2>2. at' # "report" /\ at' \notin BeforeAnswer \cup {"validate", "truncate", "write", "report",
     "failed"}
    BY <1>3 DEF BeforeAnswer
  <2> QED
    BY <2>1, <2>2 DEF Saved, lstat, Resolve
<1>9. Removable'
  BY <1>1 DEF BeforeRecord, IInv, Removable, sameFile, lstat, Resolve
<1>10. DiagnosticIsKeptOrTold'
  BY <1>1 DEF BeforeRecord, IInv, Recorded, Reserved, DiagnosticIsKeptOrTold, sameFile, isPrivate,
     nlink, lstat, Resolve
<1> QED
  BY <1>1, <1>2, <1>5, <1>6, <1>7, <1>8, <1>9, <1>10, QuietKeeps DEF Control

LEMMA FinishKeeps == ASSUME IInv, Finish PROVE IInv'
<1>1. UNCHANGED <<entry, file, fd, out, written, changes, config, wasOut>>
  BY DEF Finish, Kept
<1>2. code' \in {-1, 0, 1, 130} /\ calm' \subseteq {"diagnostic", "out"} /\ told' \in BOOLEAN
  BY DEF Finish, IInv, TypeOK, Check
<1>3. at' \in {"remove", "ended"}
  BY DEF Finish, sameFile, isPrivate
<1>4. at = "finish" /\ (told => told') /\ code' = code
  BY DEF Finish
<1>5. Reserved'
  BY <1>1, <1>3, <1>4 DEF IInv, Reserved
<1>6. Recorded'
  BY <1>1, <1>3, <1>4 DEF Finish, IInv, Recorded
<1>7. Target'
  BY <1>1, <1>3 DEF Finish, Check, IInv, Target, BeforeAnswer, lstat, Resolve
<1>8. Saved'
  BY <1>1, <1>3 DEF Finish, Check, IInv, Target, Saved, BeforeAnswer, lstat, Resolve
<1>9. Removable'
  BY <1>1 DEF Finish, Check, IInv, Removable, sameFile, lstat, Resolve
<1>10. DiagnosticIsKeptOrTold'
  BY <1>1 DEF Finish, Check, IInv, Recorded, Reserved, DiagnosticIsKeptOrTold, sameFile, isPrivate,
     nlink, lstat, Resolve
<1> QED
  BY <1>1, <1>2, <1>5, <1>6, <1>7, <1>8, <1>9, <1>10, QuietKeeps DEF Control

-----------------------------------------------------------------------------
(* The steps that make a file. *)

LEMMA Creates ==
  ASSUME IInv, NEW name \in Names, NEW mode \in {"private", "other"}, Create(name, Fresh, mode),
         UNCHANGED <<config, changes>>,
         (fd = Nowhere /\ fd' = Fresh /\ out' = out) \/ (out = Nowhere /\ out' = Fresh /\ fd' = fd)
  PROVE  /\ Room'
         /\ Fresh \in Files /\ Fresh \notin {fd, out}
         /\ file' \in [Files \cup {Pointed} ->
                        [kind: {"unused", "regular", "symlink"}, mode: {"private", "other"},
                         holds: SUBSET {"theirs", "record", "data", "cut"}, ours: BOOLEAN]]
         /\ file'[Fresh].kind = "regular" /\ file'[Fresh].ours /\ file'[Fresh].holds = {}
         /\ \A g \in (Files \cup {Pointed}) \ {Fresh} : file'[g] = file[g]
         /\ entry' \in [Names -> Files \cup {Nowhere}]
         /\ entry'[Resolve(name)] = Fresh
         /\ \A other \in Names \ {Resolve(name)} : entry'[other] = entry[other]
<1> DEFINE f == Fresh
           made == Made(mode)
<1>1. f \in Files /\ file[f].kind = "unused"
  BY FreshFile DEF IInv
<1>2. /\ made.kind = "regular" /\ made.ours /\ made.holds = {}
      /\ made \in [kind: {"regular", "symlink"}, mode: {"private", "other"},
                   holds: SUBSET {"theirs", "record", "data", "cut"}, ours: BOOLEAN]
  BY DEF Made
<1>3. file' = [file EXCEPT ![f] = made] /\ entry' = [entry EXCEPT ![Resolve(name)] = f]
  BY DEF Create
<1>4. Resolve(name) \in Names /\ TypeOK
  BY DEF Resolve, Names, IInv
<1> HIDE DEF f, made
<1>5. /\ Cardinality(Used') = Cardinality(Used) + 1
      /\ file' \in [Files \cup {Pointed} ->
                     [kind: {"unused", "regular", "symlink"}, mode: {"private", "other"},
                      holds: SUBSET {"theirs", "record", "data", "cut"}, ours: BOOLEAN]]
      /\ file'[f] = made
      /\ \A g \in (Files \cup {Pointed}) \ {f} : file'[g] = file[g]
  BY <1>1, <1>2, <1>3, <1>4, MakeFile
<1>6. /\ entry' \in [Names -> Files \cup {Nowhere}]
      /\ entry'[Resolve(name)] = f
      /\ \A other \in Names \ {Resolve(name)} : entry'[other] = entry[other]
  BY <1>1, <1>3, <1>4, NameFile
<1>7. f # fd /\ f # out
  BY <1>1, FileFacts DEF IInv, Reserved, Target
<1>8. Room'
  <2>1. f # Nowhere /\ One(f) = 1 /\ One(Nowhere) = 0
    BY <1>1, FileFacts DEF One
  <2>2. One(fd') + One(out') = One(fd) + One(out) + 1
    BY <2>1 DEF f, One
  <2>3. One(fd) \in Nat /\ One(out) \in Nat /\ changes \in Nat /\ One(fd') \in Nat /\ One(out') \in Nat
    BY <1>4, MaxChangesAssumption DEF One, TypeOK
  <2> QED
    BY <1>5, <2>2, <2>3, UsedIsFinite DEF IInv, Room
<1> QED
  BY <1>1, <1>2, <1>5, <1>6, <1>7, <1>8 DEF f

LEMMA OpenExclusivelyKeeps == ASSUME IInv, OpenExclusively PROVE IInv'
<1>1. /\ at = "open" /\ UNCHANGED <<out, written, told, code, calm, config, changes>>
      /\ wasOut' = wasOut \cup {entry'[Resolve("out")]}
  BY DEF OpenExclusively, Noted, Kept
<1>2. /\ fd = Nowhere /\ entry["staged"] = Nowhere /\ out = Nowhere
      /\ code = -1 /\ ~ written
  BY <1>1 DEF IInv, Reserved, Target, Saved, Recorded, BeforeAnswer
<1>3. CASE at' = "refused" /\ UNCHANGED <<entry, file, fd>>
  <2>1. Reserved' /\ Recorded' /\ Removable' /\ DiagnosticIsKeptOrTold'
    BY <1>1, <1>2, <1>3 DEF IInv, Reserved, Recorded, Removable, DiagnosticIsKeptOrTold
  <2>2. Target' /\ Saved'
    <3>1. Target'
      BY <1>1, <1>2, <1>3, FileFacts DEF Target, BeforeAnswer, lstat, Resolve
    <3>2. Saved'
      <4>1. code' = -1 /\ at' # "report"
        BY <1>1, <1>2, <1>3
      <4> QED
        BY <4>1 DEF Saved, lstat, Resolve
    <3> QED
      BY <3>1, <3>2
  <2>3. code' \in {-1, 0, 1, 130} /\ calm' \subseteq {"diagnostic", "out"} /\ told' \in BOOLEAN
    BY <1>1 DEF IInv, TypeOK
  <2> QED
    BY <1>1, <1>3, <2>1, <2>2, <2>3, QuietKeeps DEF Control
<1>4. CASE /\ \E mode \in {"private", "other"} : Create("diagnostic", Fresh, mode)
           /\ fd' = Fresh /\ at' = "opened"
  <2>1. PICK mode \in {"private", "other"} : Create("diagnostic", Fresh, mode)
    BY <1>4
  <2> DEFINE f == Fresh
  <2>2. /\ Room'
        /\ f \in Files
        /\ file' \in [Files \cup {Pointed} ->
                       [kind: {"unused", "regular", "symlink"}, mode: {"private", "other"},
                        holds: SUBSET {"theirs", "record", "data", "cut"}, ours: BOOLEAN]]
        /\ file'[f].kind = "regular" /\ file'[f].ours /\ file'[f].holds = {}
        /\ entry' \in [Names -> Files \cup {Nowhere}]
        /\ \A other \in Names \ {"diagnostic"} : entry'[other] = entry[other]
    <3>1. Resolve("diagnostic") = "diagnostic" /\ "diagnostic" \in Names
      BY NameFacts
    <3>2. UNCHANGED <<config, changes>> /\ fd = Nowhere /\ fd' = Fresh /\ out' = out
      BY <1>1, <1>2, <1>4
    <3> QED
      BY <2>1, <3>1, <3>2, Creates
  <2>3. fd' = f /\ at' = "opened"
    BY <1>4
  <2> HIDE DEF f
  <2>4. TypeOK'
    BY <1>1, <2>2, <2>3 DEF IInv, TypeOK
  <2>5. Reserved'
    BY <1>1, <1>2, <2>2, <2>3, NameFacts DEF Reserved
  <2>6. Recorded' /\ Removable' /\ DiagnosticIsKeptOrTold'
    BY <1>2, <1>1, <2>3 DEF Recorded, Removable, DiagnosticIsKeptOrTold
  <2>7. Target' /\ Saved'
    <3>1. Target'
      BY <1>1, <1>2, <2>3, FileFacts DEF Target, BeforeAnswer, lstat, Resolve
    <3>2. Saved'
      <4>1. code' = -1 /\ at' # "report"
        BY <1>1, <1>2, <2>3
      <4> QED
        BY <4>1 DEF Saved, lstat, Resolve
    <3> QED
      BY <3>1, <3>2
  <2>8. OutNoted'
    BY <1>1 DEF OutNoted, lstat, Resolve
  <2> QED
    BY <2>2, <2>4, <2>5, <2>6, <2>7, <2>8 DEF IInv
<1> QED
  BY <1>3, <1>4 DEF OpenExclusively, Refuse

LEMMA StageFileKeeps == ASSUME IInv, StageFile PROVE IInv'
<1>1. at = "open" /\ UNCHANGED <<out, written, told, code, calm, wasOut, config, changes>>
  BY DEF StageFile, Kept
<1>2. /\ fd = Nowhere /\ entry["staged"] = Nowhere /\ out = Nowhere
      /\ code = -1 /\ ~ written
  BY <1>1 DEF IInv, Reserved, Target, Saved, Recorded, BeforeAnswer
<1>3. CASE at' = "refused" /\ UNCHANGED <<entry, file, fd>>
  <2>1. Reserved' /\ Recorded' /\ Removable' /\ DiagnosticIsKeptOrTold'
    BY <1>1, <1>2, <1>3 DEF IInv, Reserved, Recorded, Removable, DiagnosticIsKeptOrTold
  <2>2. Target' /\ Saved'
    <3>1. Target'
      BY <1>1, <1>2, <1>3, FileFacts DEF Target, BeforeAnswer, lstat, Resolve
    <3>2. Saved'
      <4>1. code' = -1 /\ at' # "report"
        BY <1>1, <1>2, <1>3
      <4> QED
        BY <4>1 DEF Saved, lstat, Resolve
    <3> QED
      BY <3>1, <3>2
  <2>3. code' \in {-1, 0, 1, 130} /\ calm' \subseteq {"diagnostic", "out"} /\ told' \in BOOLEAN
    BY <1>1 DEF IInv, TypeOK
  <2> QED
    BY <1>1, <1>3, <2>1, <2>2, <2>3, QuietKeeps DEF Control
<1>4. CASE Create("staged", Fresh, "private") /\ fd' = Fresh /\ at' \in {"publish", "unstage"}
  <2> DEFINE f == Fresh
  <2>1. /\ Room'
        /\ f \in Files
        /\ file' \in [Files \cup {Pointed} ->
                       [kind: {"unused", "regular", "symlink"}, mode: {"private", "other"},
                        holds: SUBSET {"theirs", "record", "data", "cut"}, ours: BOOLEAN]]
        /\ file'[f].kind = "regular" /\ file'[f].ours /\ file'[f].holds = {}
        /\ entry' \in [Names -> Files \cup {Nowhere}]
        /\ entry'["staged"] = f
        /\ \A other \in Names \ {"staged"} : entry'[other] = entry[other]
    <3>1. Resolve("staged") = "staged" /\ "staged" \in Names
      BY NameFacts
    <3>2. UNCHANGED <<config, changes>> /\ fd = Nowhere /\ fd' = Fresh /\ out' = out
      BY <1>1, <1>2, <1>4
    <3> QED
      BY <1>4, <3>1, <3>2, Creates
  <2>2. fd' = f /\ at' \in {"publish", "unstage"}
    BY <1>4
  <2> HIDE DEF f
  <2>3. TypeOK'
    BY <1>1, <2>1, <2>2 DEF IInv, TypeOK
  <2>4. Reserved'
    BY <1>1, <1>2, <2>1, <2>2 DEF Reserved
  <2>5. Recorded' /\ Removable' /\ DiagnosticIsKeptOrTold'
    BY <1>2, <1>1, <2>2 DEF Recorded, Removable, DiagnosticIsKeptOrTold
  <2>6. Target' /\ Saved'
    <3>1. Target'
      BY <1>1, <1>2, <2>2, FileFacts DEF Target, BeforeAnswer, lstat, Resolve
    <3>2. Saved'
      <4>1. code' = -1 /\ at' # "report"
        BY <1>1, <1>2, <2>2
      <4> QED
        BY <4>1 DEF Saved, lstat, Resolve
    <3> QED
      BY <3>1, <3>2
  <2>7. OutNoted'
    BY <1>1, <2>1, NameFacts DEF IInv, OutNoted, lstat, Resolve
  <2> QED
    BY <2>1, <2>3, <2>4, <2>5, <2>6, <2>7 DEF IInv
<1> QED
  BY <1>3, <1>4 DEF StageFile, Refuse

LEMMA CreateOutKeeps == ASSUME IInv, CreateOut PROVE IInv'
<1>1. /\ at = "create out" /\ UNCHANGED <<fd, written, told, code, config, changes>>
      /\ wasOut' = wasOut \cup {entry'[Resolve("out")]}
  BY DEF CreateOut, Noted, Kept
<1>2. out = Nowhere /\ code = -1 /\ ~ written
  BY <1>1 DEF IInv, Target, Saved, Recorded, BeforeAnswer
<1>3. CASE at' = "failed" /\ UNCHANGED <<entry, file, out, calm>>
  <2>1. Reserved' /\ Recorded' /\ Removable' /\ DiagnosticIsKeptOrTold'
    BY <1>1, <1>2, <1>3 DEF IInv, Reserved, Recorded, Removable, DiagnosticIsKeptOrTold
  <2>2. Target' /\ Saved'
    <3>1. Target'
      BY <1>1, <1>2, <1>3, FileFacts DEF Target, BeforeAnswer, lstat, Resolve
    <3>2. Saved'
      <4>1. code' = -1 /\ at' # "report"
        BY <1>1, <1>2, <1>3
      <4> QED
        BY <4>1 DEF Saved, lstat, Resolve
    <3> QED
      BY <3>1, <3>2
  <2>3. code' \in {-1, 0, 1, 130} /\ calm' \subseteq {"diagnostic", "out"} /\ told' \in BOOLEAN
    BY <1>1, <1>3 DEF IInv, TypeOK
  <2> QED
    BY <1>1, <1>3, <2>1, <2>2, <2>3, QuietKeeps DEF Control
<1>4. CASE /\ lstat("out") = Nowhere
           /\ Create("out", Fresh, "other") /\ out' = Fresh
           /\ at' = IF config.force THEN "validate" ELSE "write"
           /\ Check("out")
  <2> DEFINE f == Fresh
  <2>1. /\ Room'
        /\ f \in Files /\ f \notin {fd, out}
        /\ file' \in [Files \cup {Pointed} ->
                       [kind: {"unused", "regular", "symlink"}, mode: {"private", "other"},
                        holds: SUBSET {"theirs", "record", "data", "cut"}, ours: BOOLEAN]]
        /\ file'[f].kind = "regular" /\ file'[f].ours /\ file'[f].holds = {}
        /\ \A g \in (Files \cup {Pointed}) \ {f} : file'[g] = file[g]
        /\ entry' \in [Names -> Files \cup {Nowhere}]
        /\ entry'[Resolve("out")] = f
        /\ \A other \in Names \ {Resolve("out")} : entry'[other] = entry[other]
    BY <1>1, <1>2, <1>4, Creates, NameFacts
  <2>2. out' = f /\ calm' = calm \cup {"out"}
    BY <1>4 DEF Check
  <2>3. at' \in {"validate", "write"} /\ (at' = "validate" => config.force)
    BY <1>4
  <2> HIDE DEF f
  <2>4. TypeOK'
    BY <1>1, <2>1, <2>2 DEF IInv, TypeOK
  <2>5. Reserved'
    <3>1. entry'["staged"] = entry["staged"]
      BY <2>1, NameFacts
    <3>2. fd # Nowhere => fd \in Files /\ file'[fd] = file[fd]
      BY <2>1 DEF IInv, TypeOK
    <3>3. out # fd \/ fd = Nowhere
      BY <1>2
    <3> QED
      BY <1>1, <2>3, <3>1, <3>2, <3>3 DEF IInv, Reserved
  <2>6. Recorded' /\ Removable' /\ DiagnosticIsKeptOrTold'
    BY <1>1, <1>2, <2>3 DEF Recorded, Removable, DiagnosticIsKeptOrTold
  <2>7. Target'
    BY <1>1, <2>1, <2>2, <2>3, FileFacts DEF Target, BeforeAnswer, lstat, Resolve
  <2>8. Saved'
    <3>1. code' = -1 /\ at' # "report"
      BY <1>1, <1>2, <2>3
    <3> QED
      BY <3>1 DEF Saved, lstat, Resolve
  <2>9. OutNoted'
    BY <1>1 DEF OutNoted, lstat, Resolve
  <2> QED
    BY <2>1, <2>4, <2>5, <2>6, <2>7, <2>8, <2>9 DEF IInv
<1> QED
  BY <1>3, <1>4 DEF CreateOut, Fail
-----------------------------------------------------------------------------
(* The steps that change what a name is. *)

LEMMA SameRoom == ASSUME IInv, Used' = Used, UNCHANGED <<fd, out, changes>> PROVE Room'
BY DEF IInv, Room, One

LEMMA PublishKeeps == ASSUME IInv, Publish PROVE IInv'
<1>1. /\ at = "publish" /\ UNCHANGED <<file, fd, out, written, told, code, calm, config, changes>>
      /\ wasOut' = wasOut \cup {entry'[Resolve("out")]}
      /\ at' \in {"unstage", "published"}
  BY DEF Publish, Noted, Kept
<1>2. entry' \in [Names -> Files \cup {Nowhere}] /\ entry'["staged"] = entry["staged"]
  <2>1. CASE UNCHANGED entry
    BY <2>1 DEF IInv, TypeOK
  <2>2. CASE entry' = [entry EXCEPT !["diagnostic"] = fd]
    BY <2>2, NameFacts DEF IInv, TypeOK
  <2> QED
    BY <2>1, <2>2 DEF Publish
<1>3. TypeOK'
  BY <1>1, <1>2 DEF IInv, TypeOK
<1>4. Room'
  <2>1. Used' = Used
    BY <1>1 DEF Used
  <2> QED
    BY <1>1, <2>1, SameRoom
<1>5. Reserved'
  BY <1>1, <1>2 DEF IInv, Reserved
<1>6. Recorded' /\ Removable' /\ DiagnosticIsKeptOrTold'
  BY <1>1 DEF IInv, Recorded, Removable, DiagnosticIsKeptOrTold
<1>7. Target'
  BY <1>1, FileFacts DEF IInv, Target, BeforeAnswer
<1>8. Saved'
  <2>1. code' = -1 /\ at' # "report"
    BY <1>1 DEF IInv, Saved, BeforeAnswer
  <2> QED
    BY <2>1 DEF Saved, lstat, Resolve
<1>9. OutNoted'
  BY <1>1 DEF OutNoted, lstat, Resolve
<1> QED
  BY <1>3, <1>4, <1>5, <1>6, <1>7, <1>8, <1>9 DEF IInv

LEMMA UnstageKeeps == ASSUME IInv, Unstage PROVE IInv'
<1>1. /\ at \in {"unstage", "unstage published"}
      /\ UNCHANGED <<file, fd, out, written, told, code, calm, wasOut, config, changes>>
      /\ at' \in {"opened", "undo"}
  BY DEF Unstage, WithdrawThenRefuse, Kept
<1>2. entry' = [entry EXCEPT !["staged"] = Nowhere]
  BY NameFacts DEF Unstage, Unlink
<1>3. /\ entry' \in [Names -> Files \cup {Nowhere}]
      /\ entry'["staged"] = Nowhere
      /\ \A other \in Names \ {"staged"} : entry'[other] = entry[other]
  BY <1>2, NameFacts DEF IInv, TypeOK
<1>4. TypeOK'
  BY <1>1, <1>3 DEF IInv, TypeOK
<1>5. Room'
  <2>1. Used' = Used
    BY <1>1 DEF Used
  <2> QED
    BY <1>1, <2>1, SameRoom
<1>6. Reserved'
  BY <1>1, <1>3 DEF IInv, Reserved
<1>7. Recorded' /\ Removable' /\ DiagnosticIsKeptOrTold'
  BY <1>1 DEF IInv, Recorded, Removable, DiagnosticIsKeptOrTold
<1>8. Target'
  BY <1>1, FileFacts DEF IInv, Target, BeforeAnswer
<1>9. Saved'
  <2>1. code' = -1 /\ at' # "report"
    BY <1>1 DEF IInv, Saved, BeforeAnswer
  <2> QED
    BY <2>1 DEF Saved, lstat, Resolve
<1>10. OutNoted'
  BY <1>1, <1>3, NameFacts DEF IInv, OutNoted, lstat, Resolve
<1> QED
  BY <1>4, <1>5, <1>6, <1>7, <1>8, <1>9, <1>10 DEF IInv

(* A name that is removed is no file's.                                      *)
LEMMA Unlinks ==
  ASSUME IInv, Unlink("diagnostic") \/ UNCHANGED entry
  PROVE  /\ entry' \in [Names -> Files \cup {Nowhere}]
         /\ entry'["diagnostic"] \in {Nowhere, entry["diagnostic"]}
         /\ \A other \in Names \ {"diagnostic"} : entry'[other] = entry[other]
<1>1. CASE UNCHANGED entry
  BY <1>1 DEF IInv, TypeOK
<1>2. CASE entry' = [entry EXCEPT !["diagnostic"] = Nowhere]
  BY <1>2, NameFacts DEF IInv, TypeOK
<1> QED
  BY <1>1, <1>2, NameFacts DEF Unlink

LEMMA UndoUnlinkKeeps == ASSUME IInv, UndoUnlink PROVE IInv'
<1>1. /\ at = "undo unlink" /\ at' = "refused"
      /\ UNCHANGED <<file, fd, out, written, told, code, calm, wasOut, config, changes>>
  BY DEF UndoUnlink, Refuse, Kept
<1>2. /\ entry' \in [Names -> Files \cup {Nowhere}]
      /\ entry'["diagnostic"] \in {Nowhere, entry["diagnostic"]}
      /\ \A other \in Names \ {"diagnostic"} : entry'[other] = entry[other]
  BY Unlinks DEF UndoUnlink
<1>3. TypeOK'
  BY <1>1, <1>2 DEF IInv, TypeOK
<1>4. Room'
  <2>1. Used' = Used
    BY <1>1 DEF Used
  <2> QED
    BY <1>1, <2>1, SameRoom
<1>5. Reserved'
  BY <1>1, <1>2, NameFacts DEF IInv, Reserved
<1>6. Recorded' /\ Removable' /\ DiagnosticIsKeptOrTold'
  BY <1>1 DEF IInv, Recorded, Removable, DiagnosticIsKeptOrTold
<1>7. Target'
  BY <1>1, FileFacts DEF IInv, Target, BeforeAnswer
<1>8. Saved'
  <2>1. code' = -1 /\ at' # "report"
    BY <1>1 DEF IInv, Saved, BeforeAnswer
  <2> QED
    BY <2>1 DEF Saved, lstat, Resolve
<1>9. OutNoted'
  BY <1>1, <1>2, NameFacts DEF IInv, OutNoted, lstat, Resolve
<1> QED
  BY <1>3, <1>4, <1>5, <1>6, <1>7, <1>8, <1>9 DEF IInv

LEMMA RemoveKeeps == ASSUME IInv, Remove PROVE IInv'
<1>1. /\ at = "remove" /\ at' = "ended"
      /\ UNCHANGED <<file, fd, out, written, code, calm, wasOut, config, changes>>
  BY DEF Remove, Kept
<1>2. /\ entry' \in [Names -> Files \cup {Nowhere}]
      /\ entry'["diagnostic"] \in {Nowhere, entry["diagnostic"]}
      /\ \A other \in Names \ {"diagnostic"} : entry'[other] = entry[other]
  BY Unlinks DEF Remove
<1>3. told' \in BOOLEAN /\ (told => told') /\ (entry'["diagnostic"] = Nowhere \/ told')
  <2>1. CASE Unlink("diagnostic") /\ UNCHANGED told
    BY <2>1, NameFacts DEF Unlink, IInv, TypeOK
  <2>2. CASE told' = TRUE
    BY <2>2
  <2> QED
    BY <2>1, <2>2 DEF Remove
<1>4. ~ written /\ fd # Nowhere
  BY <1>1 DEF IInv, Removable, Recorded
<1>5. TypeOK'
  BY <1>1, <1>2, <1>3 DEF IInv, TypeOK
<1>6. Room'
  <2>1. Used' = Used
    BY <1>1 DEF Used
  <2> QED
    BY <1>1, <2>1, SameRoom
<1>7. Reserved'
  BY <1>1, <1>2, <1>3, NameFacts DEF IInv, Reserved
<1>8. Recorded' /\ Removable'
  BY <1>1 DEF IInv, Recorded, Removable
<1>9. DiagnosticIsKeptOrTold'
  BY <1>1, <1>3, <1>4 DEF DiagnosticIsKeptOrTold, sameFile, lstat, Resolve
<1>10. Target'
  BY <1>1, FileFacts DEF IInv, Target, BeforeAnswer
<1>11. Saved'
  <2>1. ASSUME code = 0, "out" \in calm, out # fd PROVE entry'[Resolve("out")] = out
    <3>1. lstat("out") = out
      BY <2>1 DEF IInv, Saved
    <3>2. entry["diagnostic"] = fd
      BY <1>1, <2>1 DEF IInv, Removable
    <3>3. Resolve("out") = "out"
      BY <2>1, <3>1, <3>2, NameFacts DEF lstat
    <3> QED
      BY <1>2, <3>1, <3>3, NameFacts DEF lstat
  <2>2. at' # "report" /\ at' \notin BeforeAnswer \cup {"validate", "truncate", "write", "report", "failed"}
    BY <1>1 DEF BeforeAnswer
  <2>3. code = 0 => out \in Files /\ file[out].holds = {"data"}
    BY DEF IInv, Saved
  <2> QED
    BY <1>1, <2>1, <2>2, <2>3 DEF Saved, lstat, Resolve
<1>12. OutNoted'
  BY <1>1, <1>2, NameFacts DEF IInv, OutNoted, lstat, Resolve
<1> QED
  BY <1>5, <1>6, <1>7, <1>8, <1>9, <1>10, <1>11, <1>12 DEF IInv
-----------------------------------------------------------------------------
(* The steps that change a file. *)

LEMMA ProtectKeeps == ASSUME IInv, Protect PROVE IInv'
<1>1. /\ at = "protect" /\ at' \in {"undo", "verify"}
      /\ UNCHANGED <<entry, fd, out, written, told, code, calm, wasOut, config, changes>>
  BY DEF Protect, WithdrawThenRefuse, Kept
<1>2. /\ Used' = Used
      /\ file' \in [Files \cup {Pointed} ->
                     [kind: {"unused", "regular", "symlink"}, mode: {"private", "other"},
                      holds: SUBSET {"theirs", "record", "data", "cut"}, ours: BOOLEAN]]
      /\ \A g \in Files \cup {Pointed} :
           /\ file'[g].kind = file[g].kind /\ file'[g].ours = file[g].ours
           /\ file'[g].holds = file[g].holds
  <2>1. CASE UNCHANGED file
    BY <2>1 DEF IInv, TypeOK, Used
  <2>2. CASE file' = [file EXCEPT ![fd].mode = "private"] /\ fd \in Files
    BY <2>2, ChangeMode DEF IInv
  <2>3. CASE file' = [file EXCEPT ![fd].mode = "private"] /\ fd \notin Files
    <3>1. fd = Nowhere
      BY <2>3 DEF IInv, TypeOK
    <3>2. file' = file
      BY <2>3, <3>1, FileFacts DEF IInv, TypeOK
    <3> QED
      BY <3>2 DEF IInv, TypeOK, Used
  <2> QED
    BY <2>1, <2>2, <2>3 DEF Protect
<1>3. fd \in Files \/ fd = Nowhere
  BY DEF IInv, TypeOK
<1>4. TypeOK'
  BY <1>1, <1>2 DEF IInv, TypeOK
<1>5. Room'
  BY <1>1, <1>2, SameRoom
<1>6. Reserved'
  BY <1>1, <1>2, <1>3 DEF IInv, Reserved
<1>7. Recorded' /\ Removable' /\ DiagnosticIsKeptOrTold'
  BY <1>1 DEF IInv, Recorded, Removable, DiagnosticIsKeptOrTold
<1>8. Target'
  BY <1>1, FileFacts DEF IInv, Target, BeforeAnswer
<1>9. Saved'
  <2>1. code' = -1 /\ at' # "report"
    BY <1>1 DEF IInv, Saved, BeforeAnswer
  <2> QED
    BY <2>1 DEF Saved, lstat, Resolve
<1>10. OutNoted'
  BY <1>1 DEF IInv, OutNoted, lstat, Resolve
<1> QED
  BY <1>4, <1>5, <1>6, <1>7, <1>8, <1>9, <1>10 DEF IInv

LEMMA OpenOutKeeps == ASSUME IInv, OpenOut PROVE IInv'
<1>1. /\ at = "open out"
      /\ UNCHANGED <<entry, file, fd, written, told, code, calm, wasOut, config, changes>>
  BY DEF OpenOut, Kept
<1>2. /\ out = Nowhere /\ code = -1 /\ ~ written /\ config.force
      /\ lstat("out") \in Files \cup {Nowhere}
  <2>1. out = Nowhere /\ config.force
    BY <1>1 DEF IInv, Target, BeforeAnswer
  <2>2. code = -1
    BY <1>1 DEF IInv, Saved, BeforeAnswer
  <2>3. ~ written
    BY <1>1 DEF IInv, Recorded
  <2>4. lstat("out") \in Files \cup {Nowhere}
    BY NameFacts DEF IInv, TypeOK, lstat
  <2> QED
    BY <2>1, <2>2, <2>3, <2>4
<1>3. \/ at' \in {"create out", "failed"} /\ out' = Nowhere
      \/ at' = "validate" /\ out' \in Files /\ file[out'].kind = "regular"
      \/ at' = "validate" /\ out' = Pointed
  BY <1>2 DEF OpenOut, isFile, Fail
<1>4. out' \in Files \cup {Nowhere, Pointed}
  BY <1>3
<1>5. TypeOK'
  BY <1>1, <1>4 DEF IInv, TypeOK
<1>6. Room'
  <2>1. Used' = Used /\ One(fd') = One(fd) /\ changes' = changes
    BY <1>1 DEF Used, One
  <2>2. One(out) = 0 /\ One(out') \in {0, 1} /\ One(fd) \in {0, 1} /\ changes \in Nat
    BY <1>2, MaxChangesAssumption DEF One, IInv, TypeOK
  <2> QED
    BY <2>1, <2>2, UsedIsFinite DEF IInv, Room
<1>7. Reserved'
  <2>1. fd # Nowhere => fd \in Files /\ (out # fd)
    BY <1>2 DEF IInv, TypeOK
  <2> QED
    BY <1>1, <1>3, <2>1 DEF IInv, Reserved
<1>8. Recorded' /\ Removable' /\ DiagnosticIsKeptOrTold'
  BY <1>1, <1>3 DEF IInv, Recorded, Removable, DiagnosticIsKeptOrTold
<1>9. Target'
  BY <1>1, <1>2, <1>3, FileFacts DEF Target, BeforeAnswer
<1>10. Saved'
  <2>1. code' = -1 /\ at' # "report"
    BY <1>1, <1>2, <1>3
  <2> QED
    BY <2>1 DEF Saved, lstat, Resolve
<1>11. OutNoted'
  BY <1>1 DEF IInv, OutNoted, lstat, Resolve
<1> QED
  BY <1>5, <1>6, <1>7, <1>8, <1>9, <1>10, <1>11 DEF IInv

(* What the answer is written to is a file, and the program's or given up.   *)
LEMMA TruncateKeeps == ASSUME IInv, Truncate PROVE IInv'
<1>1. /\ at = "truncate" /\ at' = "write" /\ Put(out, {})
      /\ UNCHANGED <<entry, fd, out, written, told, code, calm, wasOut, config, changes>>
  BY DEF Truncate, Kept
<1>2. out \in Files /\ code = -1 /\ ~ written
  BY <1>1 DEF IInv, Target, Saved, Recorded
<1>3. /\ Used' = Used
      /\ file' \in [Files \cup {Pointed} ->
                     [kind: {"unused", "regular", "symlink"}, mode: {"private", "other"},
                      holds: SUBSET {"theirs", "record", "data", "cut"}, ours: BOOLEAN]]
      /\ \A g \in Files \cup {Pointed} :
           /\ file'[g].kind = file[g].kind /\ file'[g].ours = file[g].ours
           /\ file'[g].holds = IF g = out THEN {} ELSE file[g].holds
  BY <1>1, <1>2, PutFile DEF IInv
<1>4. TypeOK'
  BY <1>1, <1>3 DEF IInv, TypeOK
<1>5. Room'
  BY <1>1, <1>3, SameRoom
<1>6. Reserved'
  <2>1. fd \in Files \/ fd = Nowhere
    BY DEF IInv, TypeOK
  <2> QED
    BY <1>1, <1>2, <1>3, <2>1 DEF IInv, Reserved
<1>7. Recorded' /\ Removable' /\ DiagnosticIsKeptOrTold'
  BY <1>1 DEF IInv, Recorded, Removable, DiagnosticIsKeptOrTold
<1>8. Target'
  BY <1>1, <1>2, <1>3 DEF IInv, Target, BeforeAnswer, lstat, Resolve
<1>9. Saved'
  <2>1. code' = -1 /\ at' # "report"
    BY <1>1, <1>2
  <2> QED
    BY <2>1 DEF Saved, lstat, Resolve
<1>10. OutNoted'
  BY <1>1 DEF IInv, OutNoted, lstat, Resolve
<1> QED
  BY <1>4, <1>5, <1>6, <1>7, <1>8, <1>9, <1>10 DEF IInv

LEMMA WriteKeeps == ASSUME IInv, Write PROVE IInv'
<1>1. at = "write" /\ UNCHANGED <<entry, fd, out, written, told, code, calm, wasOut, config, changes>>
  BY DEF Write, Kept
<1>2. out \in Files /\ code = -1 /\ ~ written
  BY <1>1 DEF IInv, Target, Saved, Recorded
<1>3. PICK holds \in {{"data"}, {"cut"}} :
        Put(out, holds) /\ ((at' = "report" /\ holds = {"data"}) \/ at' = "failed")
  BY DEF Write, Fail
<1>4. /\ Used' = Used
      /\ file' \in [Files \cup {Pointed} ->
                     [kind: {"unused", "regular", "symlink"}, mode: {"private", "other"},
                      holds: SUBSET {"theirs", "record", "data", "cut"}, ours: BOOLEAN]]
      /\ \A g \in Files \cup {Pointed} :
           /\ file'[g].kind = file[g].kind /\ file'[g].ours = file[g].ours
           /\ file'[g].holds = IF g = out THEN holds ELSE file[g].holds
  BY <1>2, <1>3, PutFile DEF IInv
<1>5. TypeOK'
  BY <1>1, <1>4 DEF IInv, TypeOK
<1>6. Room'
  BY <1>1, <1>4, SameRoom
<1>7. Reserved'
  <2>1. fd \in Files \/ fd = Nowhere
    BY DEF IInv, TypeOK
  <2> QED
    BY <1>1, <1>2, <1>3, <1>4, <2>1 DEF IInv, Reserved
<1>8. Recorded' /\ Removable' /\ DiagnosticIsKeptOrTold'
  BY <1>1, <1>3 DEF IInv, Recorded, Removable, DiagnosticIsKeptOrTold
<1>9. Target'
  BY <1>1, <1>2, <1>3, <1>4 DEF IInv, Target, BeforeAnswer, lstat, Resolve
<1>10. Saved'
  <2>1. code' = -1 /\ (at' = "report" => file'[out'].holds = {"data"})
    BY <1>1, <1>2, <1>3, <1>4
  <2> QED
    BY <2>1 DEF Saved, lstat, Resolve
<1>11. OutNoted'
  BY <1>1 DEF IInv, OutNoted, lstat, Resolve
<1> QED
  BY <1>5, <1>6, <1>7, <1>8, <1>9, <1>10, <1>11 DEF IInv

LEMMA WriteRecordKeeps == ASSUME IInv, WriteRecord PROVE IInv'
<1>1. at = "record" /\ at' = "finish" /\ UNCHANGED <<entry, fd, out, code, calm, wasOut, config, changes>>
  BY DEF WriteRecord, Kept
<1>2. ~ written /\ fd \in Files /\ fd # Nowhere
  BY <1>1 DEF IInv, Recorded, TypeOK
<1>3. PICK holds \in SUBSET {"theirs", "record", "data", "cut"} :
        /\ Put(fd, holds)
        /\ \/ holds = file[fd].holds \cup {"record"} /\ written' = TRUE /\ told' = told
           \/ told' = TRUE /\ written' = written
  <2>1. file[fd].holds \cup {"record"} \in SUBSET {"theirs", "record", "data", "cut"}
    BY <1>2 DEF IInv, TypeOK
  <2> QED
    BY <2>1 DEF WriteRecord
<1>4. /\ Used' = Used
      /\ file' \in [Files \cup {Pointed} ->
                     [kind: {"unused", "regular", "symlink"}, mode: {"private", "other"},
                      holds: SUBSET {"theirs", "record", "data", "cut"}, ours: BOOLEAN]]
      /\ \A g \in Files \cup {Pointed} :
           /\ file'[g].kind = file[g].kind /\ file'[g].ours = file[g].ours
           /\ file'[g].holds = IF g = fd THEN holds ELSE file[g].holds
  BY <1>2, <1>3, PutFile DEF IInv
<1>5. TypeOK'
  BY <1>1, <1>3, <1>4 DEF IInv, TypeOK
<1>6. Room'
  BY <1>1, <1>4, SameRoom
<1>7. code = 1
  BY <1>1 DEF IInv, Recorded
<1>8. Reserved'
  BY <1>1, <1>2, <1>3, <1>4 DEF IInv, Reserved
<1>9. Recorded' /\ Removable' /\ DiagnosticIsKeptOrTold'
  BY <1>1, <1>2, <1>7 DEF IInv, Recorded, Removable, DiagnosticIsKeptOrTold
<1>10. Target'
  BY <1>1, <1>4 DEF IInv, Target, BeforeAnswer
<1>11. Saved'
  <2>1. code' = 1
    BY <1>1, <1>7
  <2>2. at' # "report" /\ at' \notin BeforeAnswer \cup {"validate", "truncate", "write", "report", "failed"}
    BY <1>1 DEF BeforeAnswer
  <2> QED
    BY <2>1, <2>2 DEF Saved, lstat, Resolve
<1>12. OutNoted'
  BY <1>1 DEF IInv, OutNoted, lstat, Resolve
<1> QED
  BY <1>5, <1>6, <1>8, <1>9, <1>10, <1>11, <1>12 DEF IInv
-----------------------------------------------------------------------------
(* Other programs. *)

(* They touch no file the program holds but its permissions, and not the     *)
(* name in the staging directory.                                            *)
LEMMA OthersStep ==
  ASSUME IInv, Changed, TypeOK', Cardinality(Used') <= Cardinality(Used) + 1,
         entry'["staged"] = entry["staged"],
         \A g \in Files : file[g].kind # "unused" =>
            /\ file'[g].kind = file[g].kind /\ file'[g].ours = file[g].ours
            /\ file'[g].holds = file[g].holds
  PROVE  IInv'
<1>1. /\ at # "ended" /\ changes' = changes + 1 /\ calm' = {}
      /\ UNCHANGED <<config, at, fd, out, written, told, code>>
      /\ wasOut' = wasOut \cup {entry'[Resolve("out")]}
  BY DEF Changed, Noted
<1>2. Room'
  <2>1. One(fd') = One(fd) /\ One(out') = One(out) /\ One(fd) \in Nat /\ One(out) \in Nat
    BY <1>1 DEF One
  <2>2. changes \in Nat
    BY MaxChangesAssumption DEF IInv, TypeOK
  <2> QED
    BY <1>1, <2>1, <2>2, UsedIsFinite DEF IInv, Room
<1>3. /\ fd \in Files \/ fd = Nowhere
      /\ out \in Files => file[out].kind = "regular"
      /\ fd # Nowhere => file[fd].kind = "regular"
  BY DEF IInv, TypeOK, Reserved, Target
<1>4. Reserved'
  BY <1>1, <1>3 DEF IInv, Reserved
<1>5. Recorded' /\ Removable' /\ DiagnosticIsKeptOrTold'
  BY <1>1 DEF IInv, Recorded, Removable, DiagnosticIsKeptOrTold
<1>6. Target'
  BY <1>1, <1>3 DEF IInv, Target, BeforeAnswer, lstat, Resolve
<1>7. Saved'
  <2>1. at = "report" => out \in Files
    BY DEF IInv, Target
  <2> QED
    BY <1>1, <1>3, <2>1 DEF IInv, Saved, lstat, Resolve
<1>8. OutNoted'
  BY <1>1 DEF OutNoted, lstat, Resolve
<1> QED
  BY <1>2, <1>4, <1>5, <1>6, <1>7, <1>8 DEF IInv

LEMMA PlantKeeps == ASSUME IInv, Plant PROVE IInv'
<1>1. PICK name \in Elsewhere \ {"other"}, kind \in {"regular", "symlink"} :
        /\ file' = [file EXCEPT ![Fresh] = Theirs(kind)]
        /\ entry' = [entry EXCEPT ![name] = Fresh]
  BY DEF Plant
<1> DEFINE f == Fresh
           made == Theirs(kind)
<1>2. Changed
  BY DEF Plant
<1>3. f \in Files /\ file[f].kind = "unused"
  BY <1>2, FreshFile DEF IInv, Changed
<1>4. made \in [kind: {"regular", "symlink"}, mode: {"private", "other"},
                holds: SUBSET {"theirs", "record", "data", "cut"}, ours: BOOLEAN]
  BY DEF Theirs
<1>5. file' = [file EXCEPT ![f] = made] /\ entry' = [entry EXCEPT ![name] = f]
  BY <1>1
<1> HIDE DEF f, made
<1>6. /\ Cardinality(Used') = Cardinality(Used) + 1
      /\ file' \in [Files \cup {Pointed} ->
                     [kind: {"unused", "regular", "symlink"}, mode: {"private", "other"},
                      holds: SUBSET {"theirs", "record", "data", "cut"}, ours: BOOLEAN]]
      /\ \A g \in (Files \cup {Pointed}) \ {f} : file'[g] = file[g]
  BY <1>3, <1>4, <1>5, MakeFile DEF IInv
<1>7. name \in Names /\ name # "staged"
  BY NameFacts
<1>8. entry' \in [Names -> Files \cup {Nowhere}] /\ entry'["staged"] = entry["staged"]
  BY <1>3, <1>5, <1>7, NameFacts DEF IInv, TypeOK
<1>9. TypeOK'
  BY <1>2, <1>6, <1>8, MaxChangesAssumption DEF Changed, IInv, TypeOK
<1>10. Cardinality(Used') <= Cardinality(Used) + 1
  BY <1>6, UsedIsFinite
<1>11. \A g \in Files : file[g].kind # "unused" => file'[g] = file[g]
  BY <1>3, <1>6
<1> QED
  BY <1>2, <1>8, <1>9, <1>10, <1>11, OthersStep

LEMMA RemoveEntryKeeps == ASSUME IInv, RemoveEntry PROVE IInv'
<1>1. PICK name \in Elsewhere : Unlink(name)
  BY DEF RemoveEntry
<1>2. Changed /\ UNCHANGED file
  BY DEF RemoveEntry
<1>3. Resolve(name) \in Names /\ Resolve(name) # "staged"
  BY NameFacts DEF Resolve
<1>4. entry' \in [Names -> Files \cup {Nowhere}] /\ entry'["staged"] = entry["staged"]
  BY <1>1, <1>3, NameFacts DEF Unlink, IInv, TypeOK
<1>5. TypeOK'
  BY <1>2, <1>4, MaxChangesAssumption DEF Changed, IInv, TypeOK
<1>6. Used' = Used
  BY <1>2 DEF Used
<1> QED
  BY <1>2, <1>4, <1>5, <1>6, UsedIsFinite, OthersStep

LEMMA HardLinkKeeps == ASSUME IInv, HardLink PROVE IInv'
<1>1. PICK from \in Elsewhere, to \in Elsewhere : entry' = [entry EXCEPT ![to] = entry[from]]
  BY DEF HardLink
<1>2. Changed /\ UNCHANGED file
  BY DEF HardLink
<1>3. {from, to} \subseteq Names /\ to # "staged"
  BY NameFacts
<1>4. entry' \in [Names -> Files \cup {Nowhere}] /\ entry'["staged"] = entry["staged"]
  BY <1>1, <1>3, NameFacts DEF IInv, TypeOK
<1>5. TypeOK'
  BY <1>2, <1>4, MaxChangesAssumption DEF Changed, IInv, TypeOK
<1>6. Used' = Used
  BY <1>2 DEF Used
<1> QED
  BY <1>2, <1>4, <1>5, <1>6, UsedIsFinite, OthersStep

LEMMA ShareKeeps == ASSUME IInv, Share PROVE IInv'
<1>1. PICK name \in Elsewhere :
        entry[name] # Nowhere /\ file' = [file EXCEPT ![entry[name]].mode = "other"]
  BY DEF Share
<1>2. Changed /\ UNCHANGED entry
  BY DEF Share
<1>3. entry[name] \in Files
  BY <1>1, NameFacts DEF IInv, TypeOK
<1>4. /\ Used' = Used
      /\ file' \in [Files \cup {Pointed} ->
                     [kind: {"unused", "regular", "symlink"}, mode: {"private", "other"},
                      holds: SUBSET {"theirs", "record", "data", "cut"}, ours: BOOLEAN]]
      /\ \A g \in Files \cup {Pointed} :
           /\ file'[g].kind = file[g].kind /\ file'[g].ours = file[g].ours
           /\ file'[g].holds = file[g].holds
  BY <1>1, <1>3, ChangeMode DEF IInv
<1>5. TypeOK'
  BY <1>2, <1>4, MaxChangesAssumption DEF Changed, IInv, TypeOK
<1> QED
  BY <1>2, <1>4, <1>5, UsedIsFinite, OthersStep
-----------------------------------------------------------------------------
(* The theorems. *)

LEMMA InitIInv == Init => IInv
<1> SUFFICES ASSUME Init PROVE IInv
  OBVIOUS
<1>1. PICK d \in {"none", "symlink"}, o \in {"none", "regular", "symlink"} :
        /\ entry = [name \in Names |-> CASE name = "diagnostic" -> IF d = "none" THEN Nowhere ELSE 1
                                         [] name = "out" -> IF o = "none" THEN Nowhere ELSE 2
                                         [] OTHER -> Nowhere]
        /\ file = [f \in Files \cup {Pointed} |->
                     CASE f = 1 /\ d # "none" -> Theirs(d)
                       [] f = 2 /\ o # "none" -> Theirs(o)
                       [] f = Pointed -> Theirs("regular")
                       [] OTHER -> Unused]
  BY DEF Init, Initially
<1>2. 1 \in Files /\ 2 \in Files /\ Nowhere \notin Files
  BY MaxChangesAssumption DEF Files, Nowhere
<1>3. entry \in [Names -> Files \cup {Nowhere}] /\ entry["staged"] = Nowhere
  BY <1>1, <1>2, NameFacts
<1>4. file \in [Files \cup {Pointed} ->
                 [kind: {"unused", "regular", "symlink"}, mode: {"private", "other"},
                  holds: SUBSET {"theirs", "record", "data", "cut"}, ours: BOOLEAN]]
  <2>1. \A kind \in {"regular", "symlink"} :
          Theirs(kind) \in [kind: {"unused", "regular", "symlink"}, mode: {"private", "other"},
                            holds: SUBSET {"theirs", "record", "data", "cut"}, ours: BOOLEAN]
    BY DEF Theirs
  <2>2. Unused \in [kind: {"unused", "regular", "symlink"}, mode: {"private", "other"},
                    holds: SUBSET {"theirs", "record", "data", "cut"}, ours: BOOLEAN]
    BY DEF Unused
  <2> QED
    BY <1>1, <2>1, <2>2
<1>5. Cardinality(Used) <= 2
  <2>1. \A f \in Files : f \notin {1, 2} => file[f].kind = "unused"
    BY <1>1, FileFacts DEF Unused
  <2>2. Used \subseteq {1, 2}
    BY <2>1 DEF Used
  <2>3. IsFiniteSet({1, 2}) /\ Cardinality({1, 2}) = 2
    <3>1. IsFiniteSet({1}) /\ Cardinality({1}) = 1
      BY FS_Singleton
    <3>2. Cardinality({1} \cup {2}) = Cardinality({1}) + 1 /\ IsFiniteSet({1} \cup {2})
      BY <3>1, FS_AddElement
    <3>3. {1} \cup {2} = {1, 2}
      OBVIOUS
    <3> QED
      BY <3>1, <3>2, <3>3
  <2>4. Cardinality(Used) <= Cardinality({1, 2})
    BY <2>2, <2>3, FS_Subset, Zenon
  <2> QED
    BY <2>3, <2>4, Zenon
<1>6. /\ at \in {"prepare", "work"} /\ fd = Nowhere /\ out = Nowhere /\ ~ written /\ told = FALSE
      /\ written = FALSE /\ code = -1 /\ changes = 0 /\ calm = {} /\ lstat("out") \in wasOut
  BY DEF Init
<1>7. TypeOK
  <2>1. fd \in Files \cup {Nowhere} /\ out \in Files \cup {Nowhere, Pointed} /\ calm \subseteq {"diagnostic", "out"}
    BY <1>6
  <2>2. written \in BOOLEAN /\ told \in BOOLEAN /\ code \in {-1, 0, 1, 130}
    BY DEF Init
  <2>3. changes \in 0 .. MaxChanges
    BY <1>6, MaxChangesAssumption
  <2> QED
    BY <1>3, <1>4, <2>1, <2>2, <2>3 DEF TypeOK
<1>8. Room
  BY <1>5, <1>6, UsedIsFinite DEF Room, One
<1>9. Reserved /\ Recorded /\ Removable /\ DiagnosticIsKeptOrTold /\ OutNoted
  BY <1>3, <1>6 DEF Reserved, Recorded, Removable, DiagnosticIsKeptOrTold, OutNoted
<1>10. Target
  BY <1>2, <1>6 DEF Target, BeforeAnswer
<1>11. Saved
  BY <1>6 DEF Saved
<1> QED
  BY <1>7, <1>8, <1>9, <1>10, <1>11 DEF IInv

LEMMA StutterKeeps == ASSUME IInv, UNCHANGED vars PROVE IInv'
<1>1. UNCHANGED <<entry, file, fd, out, written, changes, config>> /\ wasOut' = wasOut
  BY DEF vars
<1>2. code' \in {-1, 0, 1, 130} /\ calm' \subseteq {"diagnostic", "out"} /\ told' \in BOOLEAN
  BY DEF vars, IInv, TypeOK
<1>3. Reserved' /\ Recorded' /\ Target' /\ Removable'
  <2>1. Reserved' /\ Recorded'
    BY DEF vars, IInv, Reserved, Recorded
  <2>2. Target'
    BY DEF vars, IInv, Target, lstat, Resolve
  <2>3. Removable'
    BY DEF vars, IInv, Removable
  <2> QED
    BY <2>1, <2>2, <2>3
<1>4. Saved' /\ DiagnosticIsKeptOrTold'
  BY DEF vars, IInv, Saved, DiagnosticIsKeptOrTold, sameFile, isPrivate, nlink, lstat, Resolve
<1> QED
  BY <1>1, <1>2, <1>3, <1>4, QuietKeeps DEF Control

LEMMA NextIInv == IInv /\ [Next]_vars => IInv'
<1> SUFFICES ASSUME IInv, [Next]_vars PROVE IInv'
  OBVIOUS
<1>1. CASE Program
  BY <1>1, CanonicalDestinationKeeps, OpenExclusivelyKeeps, StageFileKeeps, PublishKeeps, CheckPublishedKeeps,
     UnstageKeeps, CheckOpenedKeeps, ProtectKeeps, VerifyKeeps, UndoKeeps, UndoUnlinkKeeps, RefusedKeeps,
     ResolveOutKeeps, AnswerKeeps, InterruptKeeps, OpenOutKeeps, CreateOutKeeps, ValidateKeeps,
     TruncateKeeps, WriteKeeps, ReportKeeps, BeforeRecordKeeps, WriteRecordKeeps, FinishKeeps, RemoveKeeps
     DEF Program
<1>2. CASE Others
  BY <1>2, PlantKeeps, RemoveEntryKeeps, HardLinkKeeps, ShareKeeps DEF Others
<1>3. CASE UNCHANGED vars
  BY <1>3, StutterKeeps
<1> QED
  BY <1>1, <1>2, <1>3 DEF Next, Done

(* Who holds what, at each point of the program and for any changes.         *)
THEOREM Invariant == Spec => []IInv
BY InitIInv, NextIInv, PTL DEF Spec

(* Names are files, files are what a file may be, and there is always one    *)
(* left to be made.                                                          *)
THEOREM TypeCorrect == Spec => []TypeOK
<1>1. IInv => TypeOK
  BY DEF IInv
<1> QED
  BY Invariant, <1>1, PTL

(* A download that succeeds has saved all of it, however the directory       *)
(* changes under it.                                                         *)
THEOREM Whole == Spec => []SavedIsWhole
<1>1. IInv => SavedIsWhole
  <2> SUFFICES ASSUME IInv, code = 0
               PROVE  /\ out # Nowhere /\ file[out].holds = {"data"}
                      /\ file[out].ours \/ config.force
                      /\ "out" \in calm /\ out # fd => sameFile("out", out)
    BY DEF SavedIsWhole
  <2> QED
    BY FileFacts DEF IInv, Saved, Target, sameFile
<1> QED
  BY Invariant, <1>1, PTL

(* The reserved file is kept with its record, or gone, or the user was told. *)
THEOREM KeptOrTold == Spec => []DiagnosticIsKeptOrTold
<1>1. IInv => DiagnosticIsKeptOrTold
  BY DEF IInv
<1> QED
  BY Invariant, <1>1, PTL
-----------------------------------------------------------------------------
(* The files of others. *)

(* A file that keeps its names keeps its links.                              *)
LEMMA LinksKept ==
  ASSUME NEW f, \A name \in Names : entry[name] = f => entry'[name] = f
  PROVE  ~ nlink(f)' < nlink(f)
<1> DEFINE before == {name \in Names : entry[name] = f}
           after == {name \in Names : entry'[name] = f}
<1>1. IsFiniteSet(Names)
  <2>1. Names = {"diagnostic"} \cup {"out"} \cup {"other"} \cup {"staged"}
    BY DEF Names
  <2> QED
    BY <2>1, FS_Singleton, FS_Union
<1>2. before \subseteq after /\ after \subseteq Names
  OBVIOUS
<1>3. IsFiniteSet(after) /\ IsFiniteSet(before)
  BY <1>1, <1>2, FS_Subset
<1>4. Cardinality(before) <= Cardinality(after) /\ Cardinality(before) \in Nat /\ Cardinality(after) \in Nat
  BY <1>2, <1>3, FS_Subset, FS_CardinalityType
<1>5. ~ (Cardinality(after) < Cardinality(before))
  BY <1>4
<1> QED
  BY <1>5 DEF nlink

(* A step of the program that takes a name from a file that is not its own   *)
(* takes it where the reserved file was, and somebody else was there since.  *)
LEMMA ProgramLinks ==
  ASSUME IInv, Program, "diagnostic" \in calm, NEW f \in Foreign, NEW name \in Names, entry[name] = f
  PROVE  entry'[name] = f
<1>1. f # fd /\ f # Nowhere
  BY FileFacts DEF IInv, Reserved, Foreign
<1>2. name # "staged"
  BY <1>1 DEF IInv, Reserved
<1>3. CASE OpenExclusively
  <2>1. UNCHANGED entry \/ (entry["diagnostic"] = Nowhere /\ entry' = [entry EXCEPT !["diagnostic"] = Fresh])
    BY <1>3, NameFacts DEF OpenExclusively, Create, lstat
  <2> QED
    BY <1>1, <2>1 DEF IInv, TypeOK
<1>4. CASE StageFile
  <2>1. UNCHANGED entry \/ entry' = [entry EXCEPT !["staged"] = Fresh]
    BY <1>4, NameFacts DEF StageFile, Create
  <2> QED
    BY <1>2, <2>1 DEF IInv, TypeOK
<1>5. CASE Publish
  <2>1. UNCHANGED entry \/ (entry["diagnostic"] = Nowhere /\ entry' = [entry EXCEPT !["diagnostic"] = fd])
    BY <1>5, NameFacts DEF Publish, lstat
  <2> QED
    BY <1>1, <2>1 DEF IInv, TypeOK
<1>6. CASE Unstage
  <2>1. entry' = [entry EXCEPT !["staged"] = Nowhere]
    BY <1>6, NameFacts DEF Unstage, Unlink
  <2> QED
    BY <1>2, <2>1 DEF IInv, TypeOK
<1>7. CASE CreateOut
  <2>1. \/ UNCHANGED entry
        \/ entry[Resolve("out")] = Nowhere /\ entry' = [entry EXCEPT ![Resolve("out")] = Fresh]
    BY <1>7 DEF CreateOut, Create, lstat
  <2> QED
    BY <1>1, <2>1 DEF IInv, TypeOK
<1>8. CASE UndoUnlink \/ Remove
  <2>1. entry["diagnostic"] = fd
    BY <1>8 DEF UndoUnlink, Remove, IInv, Removable
  <2>2. name # "diagnostic"
    BY <1>1, <2>1
  <2> QED
    BY <1>8, <2>2, Unlinks DEF UndoUnlink, Remove
<1>9. CASE Quiet \/ OpenOut \/ Protect \/ Truncate \/ Write \/ WriteRecord
  <2>1. UNCHANGED entry
    BY <1>9 DEF Quiet, canonicalDestination, CheckPublished, CheckOpened, Verify, Undo, Refused, resolveOut,
       Answer, Interrupt, Validate, Report, BeforeRecord, Finish, OpenOut, Protect, Truncate, Write, WriteRecord
  <2> QED
    BY <2>1
<1> QED
  BY <1>3, <1>4, <1>5, <1>6, <1>7, <1>8, <1>9 DEF Program, Quiet

(* What is in a file of others changes where --force lets it, and --out      *)
(* named it.                                                                 *)
LEMMA NextHolds ==
  ASSUME IInv, Next, NEW f \in Foreign, file'[f].holds # file[f].holds
  PROVE  config.force /\ f \in wasOut /\ f # Pointed
<1>1. f \in Files \cup {Pointed} /\ file[f].kind # "unused" /\ ~ file[f].ours
  BY DEF Foreign
<1>2. ASSUME Create("diagnostic", Fresh, "other") \/ Create("diagnostic", Fresh, "private")
             \/ Create("staged", Fresh, "private") \/ Create("out", Fresh, "other"),
             fd = Nowhere \/ out = Nowhere
      PROVE  FALSE
  <2>1. Fresh # f
    BY <1>1, <1>2, FreshFile DEF IInv
  <2>2. \E made : file' = [file EXCEPT ![Fresh] = made]
    BY <1>2 DEF Create
  <2>3. file'[f] = file[f]
    BY <1>1, <2>1, <2>2 DEF IInv, TypeOK
  <2> QED
    BY <2>3
<1>3. CASE OpenExclusively \/ StageFile
  <2>1. fd = Nowhere
    BY <1>3 DEF OpenExclusively, StageFile, IInv, Reserved
  <2> QED
    BY <1>2, <1>3, <2>1 DEF OpenExclusively, StageFile
<1>4. CASE CreateOut
  <2>1. out = Nowhere
    BY <1>4 DEF CreateOut, IInv, Target, BeforeAnswer
  <2> QED
    BY <1>2, <1>4, <2>1 DEF CreateOut
<1>5. CASE Truncate \/ Write
  <2>1. out \in Files /\ (file[out].ours \/ config.force) /\ (file[out].ours \/ out \in wasOut)
    BY <1>5 DEF Truncate, Write, IInv, Target
  <2>2. PICK holds \in {{}, {"data"}, {"cut"}} : Put(out, holds)
    BY <1>5 DEF Truncate, Write
  <2>3. f = out
    BY <1>1, <2>1, <2>2, PutFile DEF IInv
  <2> QED
    BY <1>1, <2>1, <2>3, FileFacts
<1>6. CASE WriteRecord
  <2>1. fd \in Files /\ file[fd].ours
    BY <1>6 DEF WriteRecord, IInv, Recorded, Reserved, TypeOK
  <2>2. PICK holds \in SUBSET {"theirs", "record", "data", "cut"} : Put(fd, holds)
    <3>1. file[fd].holds \cup {"record"} \in SUBSET {"theirs", "record", "data", "cut"}
      BY <2>1 DEF IInv, TypeOK
    <3> QED
      BY <1>6, <3>1 DEF WriteRecord
  <2>3. f = fd
    BY <1>1, <2>1, <2>2, PutFile DEF IInv
  <2> QED
    BY <1>1, <2>1, <2>3
<1>7. CASE Protect
  <2>1. file' = file \/ file' = [file EXCEPT ![fd].mode = "private"]
    BY <1>7 DEF Protect
  <2> QED
    BY <1>1, <2>1 DEF IInv, TypeOK
<1>8. CASE Plant
  <2>1. Fresh # f
    BY <1>1, <1>8, FreshFile DEF Plant, Changed, IInv
  <2>2. \E made : file' = [file EXCEPT ![Fresh] = made]
    BY <1>8 DEF Plant
  <2> QED
    BY <1>1, <2>1, <2>2 DEF IInv, TypeOK
<1>9. CASE Share
  <2>1. \E name \in Elsewhere : file' = [file EXCEPT ![entry[name]].mode = "other"]
    BY <1>9 DEF Share
  <2> QED
    BY <1>1, <2>1 DEF IInv, TypeOK
<1>10. CASE Quiet \/ OpenOut \/ Publish \/ Unstage \/ UndoUnlink \/ Remove \/ RemoveEntry \/ HardLink \/ Done
  <2>1. UNCHANGED file
    BY <1>10 DEF Quiet, canonicalDestination, CheckPublished, CheckOpened, Verify, Undo, Refused, resolveOut,
       Answer, Interrupt, Validate, Report, BeforeRecord, Finish, OpenOut, Publish, Unstage, UndoUnlink,
       Remove, RemoveEntry, HardLink, Done, vars
  <2> QED
    BY <2>1
<1> QED
  BY <1>3, <1>4, <1>5, <1>6, <1>7, <1>8, <1>9, <1>10 DEF Next, Program, Others, Quiet

(* Whatever others do to the directory, what they made is neither written    *)
(* to nor removed, but where --force and --out say so, or where it took the  *)
(* place of the reserved file in the instant before that was removed.        *)
THEOREM TheirsAreKept == Spec => OthersKeepTheirs
<1> DEFINE Kept1(f) ==
      /\ file'[f].holds # file[f].holds => config.force /\ f \in wasOut /\ f # Pointed
      /\ changes' = changes /\ nlink(f)' < nlink(f) => "diagnostic" \notin calm
<1>1. ASSUME IInv, Next, NEW f \in Foreign PROVE Kept1(f)
  <2>1. file'[f].holds # file[f].holds => config.force /\ f \in wasOut /\ f # Pointed
    BY <1>1, NextHolds
  <2>2. ASSUME changes' = changes, "diagnostic" \in calm PROVE ~ nlink(f)' < nlink(f)
    <3>1. \A name \in Names : entry[name] = f => entry'[name] = f
      <4>1. ~ Changed
        BY <1>1, <2>2, MaxChangesAssumption DEF Changed, IInv, TypeOK
      <4>2. CASE Program
        BY <1>1, <2>2, <4>2, ProgramLinks
      <4>3. CASE Done
        BY <4>3 DEF Done, vars
      <4> QED
        BY <1>1, <4>1, <4>2, <4>3 DEF Next, Others, Plant, RemoveEntry, HardLink, Share
    <3> QED
      BY <3>1, LinksKept
  <2> QED
    BY <2>1, <2>2
<1>2. ASSUME UNCHANGED vars, NEW f \in Foreign PROVE Kept1(f)
  <2>1. UNCHANGED <<file, entry>>
    BY <1>2 DEF vars
  <2>2. ~ nlink(f)' < nlink(f)
    BY <2>1, LinksKept
  <2> QED
    BY <2>1, <2>2
<1>3. IInv /\ [Next]_vars => [\A f \in Foreign : Kept1(f)]_vars
  BY <1>1, <1>2
<1> QED
  BY Invariant, <1>3, PTL DEF Spec, OthersKeepTheirs
===============================================================================
