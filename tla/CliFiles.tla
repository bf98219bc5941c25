-------------------------------- MODULE CliFiles -------------------------------
(* A download that is given --out and --diagnostic-file: the file reserved   *)
(* for the record of a failure, the file the answer is saved to, and other   *)
(* programs that rename, remove, link and share files in those directories   *)
(* between any two system calls.  CliRun.tla has the rest of the command.    *)
(* One step is one system call that changes something; a check that reads    *)
(* the descriptor and the path is one step too.                              *)
EXTENDS Integers, FiniteSets

CONSTANT MaxChanges \* changes made by other programs

ASSUME MaxChangesAssumption == MaxChanges \in Nat

Names == {"diagnostic", "out", "other", "staged"}
Files == 1 .. MaxChanges + 4 \* two to begin with, two made here
Nowhere == 0                \* no file
Pointed == MaxChanges + 5   \* the file every symbolic link points to

VARIABLES config,  \* platform, whether the paths are one, --force
          entry,   \* which file a name is
          file,    \* the files: kind, permissions, what they hold, whose they are
          at,      \* the next system call
          fd,      \* the file held for the record
          out,     \* the file held for the answer
          written, \* whether the record was written
          told,    \* whether the user heard that something is wrong with that file
          code,    \* the exit code, once it is decided
          changes, \* changes of other programs
          wasOut,  \* every file that has been the one --out names
          calm     \* which of the two files was not touched since its check

vars == <<config, entry, file, at, fd, out, written, told, code, changes, wasOut, calm>>

(* Two spellings of a path may be one path, or one name of a file system     *)
(* that folds case.                                                          *)
Resolve(name) == IF name = "out" /\ config.alias # "none" THEN "diagnostic" ELSE name
lstat(name) == entry[Resolve(name)]
nlink(f) == Cardinality({name \in Names : entry[name] = f})
sameFile(name, f) == lstat(name) = f
isPrivate(f) == file[f].mode = "private" /\ nlink(f) = 1

Unused == [kind |-> "unused", mode |-> "other", holds |-> {}, ours |-> FALSE]
Made(mode) == [kind |-> "regular", mode |-> mode, holds |-> {}, ours |-> TRUE]
Theirs(kind) == [kind |-> kind, mode |-> "other", holds |-> {"theirs"}, ours |-> FALSE]
isFile(f) == file[f].kind = "regular"

Spare == {f \in Files : file[f].kind = "unused"}
Fresh == CHOOSE f \in Spare : TRUE

Initially ==
  { [entry |-> [name \in Names |-> CASE name = "diagnostic" -> IF d = "none" THEN Nowhere ELSE 1
                                     [] name = "out" -> IF o = "none" THEN Nowhere ELSE 2
                                     [] OTHER -> Nowhere],
     file |-> [f \in Files \cup {Pointed} |->
                 CASE f = 1 /\ d # "none" -> Theirs(d)
                   [] f = 2 /\ o # "none" -> Theirs(o)
                   [] f = Pointed -> Theirs("regular")
                   [] OTHER -> Unused]]
      : d \in {"none", "symlink"}, o \in {"none", "regular", "symlink"} }

Init ==
  /\ config \in [platform: {"linux", "darwin", "win32"}, alias: {"none", "path", "folded"},
                 force: BOOLEAN]
  /\ \E fs \in Initially : entry = fs.entry /\ file = fs.file
  /\ at = IF config.platform = "win32" THEN "work" ELSE "prepare"
  /\ fd = Nowhere /\ out = Nowhere
  /\ written = FALSE /\ told = FALSE
  /\ code = -1
  /\ changes = 0
  /\ wasOut = {lstat("out")}
  /\ calm = {}

TypeOK ==
  /\ entry \in [Names -> Files \cup {Nowhere}]
  /\ file \in [Files \cup {Pointed} ->
                 [kind: {"unused", "regular", "symlink"}, mode: {"private", "other"},
                  holds: SUBSET {"theirs", "record", "data", "cut"}, ours: BOOLEAN]]
  /\ fd \in Files \cup {Nowhere}
  /\ out \in Files \cup {Nowhere, Pointed}
  /\ written \in BOOLEAN /\ told \in BOOLEAN
  /\ code \in {-1, 0, 1, 130}
  /\ changes \in 0 .. MaxChanges
  /\ calm \subseteq {"diagnostic", "out"}

(* What a step of the program leaves alone. *)
Kept == <<config, changes>>
Noted == wasOut' = wasOut \cup {entry'[Resolve("out")]}

Create(name, f, mode) ==
  /\ file' = [file EXCEPT ![f] = Made(mode)]
  /\ entry' = [entry EXCEPT ![Resolve(name)] = f]
Unlink(name) == entry' = [entry EXCEPT ![Resolve(name)] = Nowhere]
Put(f, holds) == file' = [file EXCEPT ![f].holds = holds]
Check(name) == calm' = calm \cup {name}

-----------------------------------------------------------------------------
(* Reservation.  Whatever is wrong, the command is refused, nothing is sent  *)
(* and the file is withdrawn if the path still is that file.                 *)

Refuse == at' = "refused"
WithdrawThenRefuse == at' = "undo"

(* A path that is no path, or that is the path given to --out. *)
canonicalDestination ==
  /\ at = "prepare"
  /\ Refuse \/ (config.alias # "path" /\ at' = "open")
  /\ UNCHANGED <<entry, file, fd, out, written, told, code, wasOut, calm>> /\ UNCHANGED Kept

(* O_EXCL refuses whatever stands at the path. *)
OpenExclusively ==
  /\ at = "open" /\ config.platform = "linux"
  /\ \/ Refuse /\ UNCHANGED <<entry, file, fd>>
     \/ /\ lstat("diagnostic") = Nowhere
        /\ \E mode \in {"private", "other"} : Create("diagnostic", Fresh, mode)
        /\ fd' = Fresh /\ at' = "opened"
  /\ Noted
  /\ UNCHANGED <<out, written, told, code, calm>> /\ UNCHANGED Kept

(* On Darwin the file is made in a private directory that other programs     *)
(* stay out of, and linked to its place.                                     *)
StageFile ==
  /\ at = "open" /\ config.platform = "darwin"
  /\ \/ Refuse /\ UNCHANGED <<entry, file, fd>>
     \/ /\ Create("staged", Fresh, "private")
        /\ fd' = Fresh /\ at' \in {"publish", "unstage"}
  /\ UNCHANGED <<out, written, told, code, wasOut, calm>> /\ UNCHANGED Kept

Publish ==
  /\ at = "publish"
  /\ \/ at' = "unstage" /\ UNCHANGED entry
     \/ /\ lstat("diagnostic") = Nowhere
        /\ entry' = [entry EXCEPT !["diagnostic"] = fd]
        /\ at' = "published"
  /\ Noted
  /\ UNCHANGED <<file, fd, out, written, told, code, calm>> /\ UNCHANGED Kept

CheckPublished ==
  /\ at = "published"
  /\ at' = IF sameFile("diagnostic", fd) THEN "unstage published" ELSE "unstage"
  /\ UNCHANGED <<entry, file, fd, out, written, told, code, wasOut, calm>> /\ UNCHANGED Kept

(* The working directory is restored and the staging directory removed; if   *)
(* that fails, the published file is withdrawn too.                          *)
Unstage ==
  /\ at \in {"unstage", "unstage published"}
  /\ Unlink("staged")
  /\ \/ at = "unstage published" /\ at' = "opened"
     \/ WithdrawThenRefuse
  /\ UNCHANGED <<file, fd, out, written, told, code, wasOut, calm>> /\ UNCHANGED Kept

(* The file is a regular one with no other link, and not what --out names.   *)
CheckOpened ==
  /\ at = "opened"
  /\ IF nlink(fd) = 1 /\ ~ sameFile("out", fd) THEN at' = "protect" ELSE WithdrawThenRefuse
  /\ UNCHANGED <<entry, file, fd, out, written, told, code, wasOut, calm>> /\ UNCHANGED Kept

Protect ==
  /\ at = "protect"
  /\ \/ WithdrawThenRefuse /\ UNCHANGED file
     \/ file' = [file EXCEPT ![fd].mode = "private"] /\ at' = "verify"
  /\ UNCHANGED <<entry, fd, out, written, told, code, wasOut, calm>> /\ UNCHANGED Kept

Verify ==
  /\ at = "verify"
  /\ IF isPrivate(fd) /\ sameFile("diagnostic", fd) THEN at' = "work" ELSE WithdrawThenRefuse
  /\ UNCHANGED <<entry, file, fd, out, written, told, code, wasOut, calm>> /\ UNCHANGED Kept

Undo ==
  /\ at = "undo"
  /\ IF sameFile("diagnostic", fd) THEN at' = "undo unlink" ELSE Refuse
  /\ Check("diagnostic")
  /\ UNCHANGED <<entry, file, fd, out, written, told, code, wasOut>> /\ UNCHANGED Kept

UndoUnlink ==
  /\ at = "undo unlink" /\ Refuse
  /\ Unlink("diagnostic") \/ UNCHANGED entry
  /\ UNCHANGED <<file, fd, out, written, told, code, wasOut, calm>> /\ UNCHANGED Kept

(* The refusal names the flag. *)
Refused ==
  /\ at = "refused" /\ at' = "ended"
  /\ code' = 1 /\ told' = TRUE
  /\ UNCHANGED <<entry, file, fd, out, written, wasOut, calm>> /\ UNCHANGED Kept

-----------------------------------------------------------------------------
(* The work: the target is looked at, the request is made, and the answer is *)
(* saved by safeWrite.                                                       *)

Fail == at' = "failed"

(* No file is replaced without --force, and no link is written through. *)
resolveOut ==
  /\ at = "work"
  /\ LET found == lstat("out")
     IN  IF found = Nowhere \/ (config.force /\ file[found].kind # "symlink")
           THEN at' \in {"request", "failed"} ELSE Fail
  /\ UNCHANGED <<entry, file, fd, out, written, told, code, wasOut, calm>> /\ UNCHANGED Kept

Answer ==
  /\ at = "request"
  /\ at' \in {IF config.force THEN "open out" ELSE "create out", "failed"}
  /\ UNCHANGED <<entry, file, fd, out, written, told, code, wasOut, calm>> /\ UNCHANGED Kept

(* A signal exits the process, and the exit listener finishes the file. *)
Interrupt ==
  /\ at = "request" /\ code' = 130
  /\ at' = IF fd = Nowhere THEN "ended" ELSE "finish"
  /\ UNCHANGED <<entry, file, fd, out, written, told, wasOut, calm>> /\ UNCHANGED Kept

(* Without O_NOFOLLOW a link is followed. *)
OpenOut ==
  /\ at = "open out"
  /\ LET found == lstat("out")
     IN  IF found = Nowhere THEN at' = "create out" /\ UNCHANGED out
         ELSE IF isFile(found) THEN at' = "validate" /\ out' = found
         ELSE IF config.platform = "win32" THEN at' = "validate" /\ out' = Pointed
         ELSE Fail /\ UNCHANGED out
  /\ UNCHANGED <<entry, file, fd, written, told, code, wasOut, calm>> /\ UNCHANGED Kept

(* Exclusive creation; a file opened without --force is not looked at again. *)
CreateOut ==
  /\ at = "create out"
  /\ IF lstat("out") # Nowhere
       THEN Fail /\ UNCHANGED <<entry, file, out, calm>>
       ELSE /\ Create("out", Fresh, "other") /\ out' = Fresh
            /\ at' = IF config.force THEN "validate" ELSE "write"
            /\ Check("out")
  /\ Noted
  /\ UNCHANGED <<fd, written, told, code>> /\ UNCHANGED Kept

(* A mutated form: the opened file is truncated without a look at the path. *)
ValidateNothing ==
  /\ at = "validate" /\ at' = "truncate"
  /\ Check("out")
  /\ UNCHANGED <<entry, file, fd, out, written, told, code, wasOut>> /\ UNCHANGED Kept

Validate ==
  /\ at = "validate"
  /\ IF lstat("out") = out THEN at' = "truncate" ELSE Fail
  /\ Check("out")
  /\ UNCHANGED <<entry, file, fd, out, written, told, code, wasOut>> /\ UNCHANGED Kept

Truncate ==
  /\ at = "truncate" /\ at' = "write"
  /\ Put(out, {})
  /\ UNCHANGED <<entry, fd, out, written, told, code, wasOut, calm>> /\ UNCHANGED Kept

(* A write may fail midway. *)
Write ==
  /\ at = "write"
  /\ \/ Put(out, {"data"}) /\ at' = "report"
     \/ Put(out, {"cut"}) /\ Fail
  /\ UNCHANGED <<entry, fd, out, written, told, code, wasOut, calm>> /\ UNCHANGED Kept

(* Telling the result may fail after all. *)
Report ==
  /\ at = "report"
  /\ \/ Fail /\ UNCHANGED code
     \/ at' = (IF fd = Nowhere THEN "ended" ELSE "finish") /\ code' = 0
  /\ UNCHANGED <<entry, file, fd, out, written, told, wasOut, calm>> /\ UNCHANGED Kept

-----------------------------------------------------------------------------
(* The end of a reservation. *)

(* The record is written to the descriptor if the file is still private, has *)
(* no other link and is the one the path names.  It is written over what may *)
(* be there, which is not truncated.                                         *)
BeforeRecord ==
  /\ at = "failed" /\ code' = 1
  /\ IF fd = Nowhere THEN at' = "ended" /\ UNCHANGED told
     ELSE IF sameFile("diagnostic", fd) /\ isPrivate(fd) THEN at' = "record" /\ UNCHANGED told
     ELSE at' = "finish" /\ told' = TRUE
  /\ UNCHANGED <<entry, file, fd, out, written, wasOut, calm>> /\ UNCHANGED Kept

WriteRecord ==
  /\ at = "record" /\ at' = "finish"
  /\ \/ Put(fd, file[fd].holds \cup {"record"}) /\ written' = TRUE /\ UNCHANGED told
     \/ Put(fd, {"cut"}) /\ told' = TRUE /\ UNCHANGED written
  /\ UNCHANGED <<entry, fd, out, code, wasOut, calm>> /\ UNCHANGED Kept

(* A mutated form: the file is removed by its path, whatever the path is now. *)
FinishBlindly ==
  /\ at = "finish"
  /\ IF written
       THEN /\ told' = (told \/ ~ (sameFile("diagnostic", fd) /\ isPrivate(fd)))
            /\ at' = "ended"
       ELSE at' = "remove" /\ UNCHANGED told
  /\ Check("diagnostic")
  /\ UNCHANGED <<entry, file, fd, out, written, code, wasOut>> /\ UNCHANGED Kept

(* A mutated form: a record that was written is not looked at again. *)
FinishTrusting ==
  /\ at = "finish"
  /\ at' = IF ~ written /\ sameFile("diagnostic", fd) THEN "remove" ELSE "ended"
  /\ told' = (told \/ (~ written /\ ~ sameFile("diagnostic", fd)))
  /\ Check("diagnostic")
  /\ UNCHANGED <<entry, file, fd, out, written, code, wasOut>> /\ UNCHANGED Kept

(* A record is looked at once more, and a file without one is removed; the   *)
(* user is told when either cannot be done.                                  *)
Finish ==
  /\ at = "finish"
  /\ at' = IF ~ written /\ sameFile("diagnostic", fd) THEN "remove" ELSE "ended"
  /\ told' = (\/ told
              \/ ~ sameFile("diagnostic", fd)
              \/ written /\ ~ isPrivate(fd))
  /\ Check("diagnostic")
  /\ UNCHANGED <<entry, file, fd, out, written, code, wasOut>> /\ UNCHANGED Kept

Remove ==
  /\ at = "remove" /\ at' = "ended"
  /\ \/ Unlink("diagnostic") /\ UNCHANGED told
     \/ UNCHANGED entry /\ told' = TRUE
  /\ UNCHANGED <<file, fd, out, written, code, wasOut, calm>> /\ UNCHANGED Kept

-----------------------------------------------------------------------------
(* Other programs. *)

Elsewhere == {"diagnostic", "out", "other"} \ IF config.alias = "none" THEN {} ELSE {"out"}

Changed ==
  /\ at # "ended" /\ changes < MaxChanges /\ changes' = changes + 1
  /\ calm' = {} /\ Noted
  /\ UNCHANGED <<config, at, fd, out, written, told, code>>

(* A file or a link is put in the place of whatever was there. *)
Plant ==
  /\ \E name \in Elsewhere \ {"other"}, kind \in {"regular", "symlink"} :
       /\ file' = [file EXCEPT ![Fresh] = Theirs(kind)]
       /\ entry' = [entry EXCEPT ![name] = Fresh]
  /\ Changed

RemoveEntry ==
  /\ \E name \in Elsewhere : entry[name] # Nowhere /\ Unlink(name)
  /\ UNCHANGED file /\ Changed

HardLink ==
  /\ \E from \in Elsewhere, to \in Elsewhere :
       /\ entry[from] # Nowhere /\ entry[to] = Nowhere
       /\ entry' = [entry EXCEPT ![to] = entry[from]]
  /\ UNCHANGED file /\ Changed

Share ==
  /\ \E name \in Elsewhere :
       /\ entry[name] # Nowhere /\ isFile(entry[name])
       /\ file' = [file EXCEPT ![entry[name]].mode = "other"]
  /\ UNCHANGED entry /\ Changed

Others == Plant \/ RemoveEntry \/ HardLink \/ Share

Program ==
  \/ canonicalDestination \/ OpenExclusively \/ StageFile \/ Publish \/ CheckPublished
  \/ Unstage \/ CheckOpened \/ Protect \/ Verify \/ Undo \/ UndoUnlink \/ Refused
  \/ resolveOut \/ Answer \/ Interrupt \/ OpenOut \/ CreateOut \/ Validate \/ Truncate
  \/ Write \/ Report \/ BeforeRecord \/ WriteRecord \/ Finish \/ Remove

Done == at = "ended" /\ UNCHANGED vars

Next == Program \/ Others \/ Done

Spec == Init /\ [][Next]_vars

-----------------------------------------------------------------------------

Foreign == {f \in Files \cup {Pointed} : file[f].kind # "unused" /\ ~ file[f].ours}

(* What another program made keeps its content, unless --force was given and *)
(* --out named it, and is removed only if it took the place of the           *)
(* diagnostic file between the last look at the path and the removal.        *)
OthersKeepTheirs ==
  [][ \A f \in Foreign :
        /\ file'[f].holds # file[f].holds => config.force /\ f \in wasOut /\ f # Pointed
        /\ changes' = changes /\ nlink(f)' < nlink(f) => "diagnostic" \notin calm ]_vars

(* A download that succeeds has left the whole answer in one file: a file it *)
(* made, or one --out named that --force let it replace, and the path named  *)
(* that file when it was checked.  It still does, unless another program has *)
(* linked --out to the reserved file, which is removed with its name.        *)
SavedIsWhole ==
  code = 0 =>
    /\ out # Nowhere /\ file[out].holds = {"data"}
    /\ file[out].ours \/ config.force
    /\ "out" \in calm /\ out # fd => sameFile("out", out)

(* When the command ends without a warning, the path does not name the       *)
(* reserved file, or names it with the whole record of a failure, private    *)
(* and with no other link when it was last looked at.  The record is alone   *)
(* in the file, unless another program linked --out to it and the answer was *)
(* saved there.                                                              *)
DiagnosticIsKeptOrTold ==
  at = "ended" /\ fd # Nowhere /\ ~ told /\ "diagnostic" \in calm =>
    IF code = 1 /\ written
      THEN /\ sameFile("diagnostic", fd) /\ isPrivate(fd)
           /\ "record" \in file[fd].holds
           /\ out # fd => file[fd].holds = {"record"}
      ELSE ~ sameFile("diagnostic", fd)
=============================================================================
