--------------------------------- MODULE CliRun --------------------------------
(* One invocation of the CLI, from its arguments to its exit code: runCli    *)
(* and the steps of whatever handler the command has.  The tables of         *)
(* commands, handlers and operations are consulted row by row; what the      *)
(* proofs need them to agree on is TablesAgree, which TLC evaluates for      *)
(* every command there is.                                                   *)
(* Where a value is looked at (an environment variable, a JSON text, an      *)
(* identifier), the step chooses what it finds.                              *)
EXTENDS Integers, Sequences, FiniteSets, FiniteSetsExt, Commands, Handlers, Operations

CONSTANTS Invocations, \* the command lines: [command, tokens, params]
          Parts        \* parts the writer of stdin sends before it closes

ASSUME PartsAssumption == Parts \in Nat \ {0}

ASSUME InvocationsAssumption ==
  \A line \in Invocations :
    line.tokens \in Seq(Range(line.tokens))

VARIABLES argv,       \* the command line
          values,     \* its flags, and those of them given "-"
          at,         \* what runCli does next
          step,       \* how many steps of the handler are done
          allowed,    \* TESTRAIL_ALLOW_DESTRUCTIVE, once it has been read
          strict,     \* whether an answer of the wrong shape is an error
          stdin,      \* the pipe: its kind, what is in it, whether it is closed
          read,       \* who reads it and how much the reader got
          dispatched, \* whether scope.markDispatched was called
          sent,       \* the request that left, if any
          answer,     \* how it was answered
          record,     \* the diagnostic file
          code        \* the exit code

vars == <<argv, values, at, step, allowed, strict, stdin, read, dispatched,
          sent, answer, record, code>>

(* dispatch: what is not a command is refused by its name. *)
ACTION_SPECS ==
  LET key(c) == c.resource \o ":" \o c.action
  IN  [name \in {key(c) : c \in Actions} |-> CHOOSE c \in Actions : key(c) = name]
isCommand == argv.command \in DOMAIN ACTION_SPECS

spec == ACTION_SPECS[argv.command]
flags == values.supplied
dash == values.dash
dryRun == "dry-run" \in flags
handler == Handlers[spec.handler]

(* What removes something on the server: a POST that carries nothing, and    *)
(* the two bulk deletions, which carry a list.                               *)
Removes(op) ==
  /\ op.method = "POST"
  /\ op.body = "none" \/ op.path \in {"delete_cases", "delete_labels"}

Before(first, second, steps) ==
  \A i \in DOMAIN steps :
    steps[i] = second => \E j \in 1 .. i - 1 : steps[j] = first

(* What runCli relies on in the rows it was given: the handler and the       *)
(* method exist, nothing is printed before it is answered, what a dry run    *)
(* is allowed for shows itself before it calls, what removes something says  *)
(* so and is confirmed before it calls, and --soft is taken where the method *)
(* takes it.                                                                 *)
ASSUME TablesAgree ==
  \A c \in Actions :
    /\ c.handler \in DOMAIN Handlers
    /\ LET h == Handlers[c.handler]
           op == Client[h.op]
       IN  /\ h.op \in DOMAIN Client
           /\ h.steps \in Seq({"ids", "body", "optional body", "file", "target", "soft",
                               "preview", "confirm", "call", "write", "out"})
           /\ Cardinality({i \in DOMAIN h.steps : h.steps[i] = "file"}) <= 1
           /\ Before("call", "out", h.steps)
           /\ "dry-run" \in getAllowedActionFlags(c) => Before("preview", "call", h.steps)
           /\ Removes(op) => c.destructive /\ Before("confirm", "call", h.steps)
           /\ op.soft <=> (c.softMode = "optional")

Nothing == [op |-> "none"]
ExitCodes == {0, 1, 2, 130}

Points ==
  {"argv", "invocation", "environment", "key", "key read", "auth", "reserve",
   "client", "handler", "body read", "file read", "waiting", "closed", "failed", "ended"}
Pipes == [kind: {"tty", "blocking", "nonblocking"}, written: 0 .. Parts,
          taken: 0 .. Parts, closed: BOOLEAN]
Readers == [by: SUBSET {"key", "body", "file"}, got: 0 .. Parts, ended: BOOLEAN]
Values == [supplied: SUBSET KNOWN_FLAGS, dash: SUBSET {"file", "out"}]

TypeOK ==
  /\ argv \in Invocations
  /\ values \in Values
  /\ at \in Points
  /\ step \in Nat
  /\ step # 0 => step <= Len(handler.steps)
  /\ allowed \in {"unread", "yes", "no"}
  /\ strict \in BOOLEAN
  /\ stdin \in Pipes
  /\ read \in Readers
  /\ dispatched \in BOOLEAN
  /\ sent # Nothing => sent.op \in DOMAIN Client
  /\ answer \in {"none", "valid", "mismatch", "failed"}
  /\ record \in {"none", "reserved", "abandoned", "not_dispatched", "indeterminate"}
  /\ code \in ExitCodes \cup {-1}

Init ==
  /\ argv \in Invocations
  /\ at = "argv" /\ step = 0
  /\ values = [supplied |-> {}, dash |-> {}]
  /\ allowed = "unread" /\ strict = FALSE
  /\ answer = "none"
  /\ stdin \in [kind: {"tty", "blocking", "nonblocking"}, written: {0},
                taken: {0}, closed: {FALSE}]
  /\ read = [by |-> {}, got |-> 0, ended |-> FALSE]
  /\ dispatched = FALSE
  /\ sent = Nothing
  /\ record = "none"
  /\ code = -1

Exit(n) == at' = "ended" /\ code' = n

-----------------------------------------------------------------------------
(* Arguments and environment.  Everything refused here is refused before     *)
(* stdin is read, a credential is looked at or a file is made.               *)

Untouched == <<argv, step, stdin, read, dispatched, sent, answer, record>>
Settled == <<values, allowed, strict>>

validateMetaCommandFlags(names) ==
  names \subseteq IF argv.command = "install-skill" THEN MetaFlags.install ELSE MetaFlags.uninstall

(* An unknown flag, a flag of the wrong type or an unknown --format is       *)
(* refused; --version and --help are answered before the command is looked   *)
(* at; the two commands about the skill are modelled in InstallSkill.tla.    *)
ParseArguments ==
  LET options == parseCliArgv(argv.tokens)
      names == {options[i].name : i \in DOMAIN options}
      Value(name) == options[Max({i \in DOMAIN options : options[i].name = name})].value
      wrong == ~ names \subseteq KNOWN_FLAGS \/ ~ validateSuppliedFlagTypes(options)
      asks == names \cap {"version", "help"} # {}
      meta == argv.command \in {"install-skill", "uninstall-skill"}
  IN  /\ at = "argv"
      /\ values' = [supplied |-> names \cap KNOWN_FLAGS,
                    dash |-> {name \in names \cap {"file", "out"} : Value(name) = Word("-")}]
      /\ IF wrong THEN Exit(1)
         ELSE IF asks THEN Exit(0)
         ELSE IF meta THEN Exit(1) \/ (validateMetaCommandFlags(names) /\ Exit(0))
         ELSE \/ Exit(1) /\ ("format" \notin names => ~ isCommand)
              \/ isCommand /\ at' = "invocation" /\ UNCHANGED code
      /\ UNCHANGED <<allowed, strict>> /\ UNCHANGED Untouched

(* One reader of stdin, page flags that go together, flags the command       *)
(* takes, and the flags it needs.                                            *)
resolveActionInvocation ==
  /\ "file" \in dash => /\ spec.fileInput
                        /\ flags \cap {"data", "data-file", "api-key-stdin"} = {}
  /\ "out" \in dash => spec.fileOutput
  /\ validateCliPagination(spec, flags)
  /\ flags \subseteq getAllowedActionFlags(spec)
  /\ spec.required \subseteq flags
  /\ "soft" \in flags /\ spec.softMode = "reject" => dryRun

(* Raw bytes on stdout are no table: --format next to --out - may say so.    *)
ResolveInvocation ==
  /\ at = "invocation"
  /\ \/ resolveActionInvocation /\ at' = "environment" /\ UNCHANGED code
     \/ (resolveActionInvocation => "out" \in dash /\ "format" \in flags) /\ Exit(1)
  /\ UNCHANGED Settled /\ UNCHANGED Untouched

(* A mutated form: a soft deletion only counts, so the gate lets it through. *)
checkDestructiveEnvGateUnlessSoft(value) ==
  spec.destructive /\ ~ dryRun /\ "soft" \notin flags => value = "yes"

(* The gate of destructive commands is exit code 2; everything else that the *)
(* environment refuses is exit code 1.                                       *)
checkDestructiveEnvGate(value) ==
  spec.destructive /\ ~ dryRun => value = "yes"

checkPathParamCount == argv.params = spec.params

(* A platform that cannot protect a diagnostic file, or a value of           *)
(* TESTRAIL_STRICT_RESPONSES that is neither 0 nor 1.                        *)
RefuseEnvironment ==
  /\ at = "environment" /\ Exit(1)
  /\ UNCHANGED Settled /\ UNCHANGED Untouched

CheckEnvironment ==
  /\ at = "environment"
  /\ \E value \in {"yes", "no"}:
       /\ allowed' = value
       /\ strict' \in {"strict-responses" \in flags, TRUE}
       /\ IF ~ checkDestructiveEnvGate(value) THEN Exit(2)
          ELSE IF ~ checkPathParamCount THEN Exit(1)
          ELSE at' = "key" /\ UNCHANGED code
  /\ UNCHANGED values /\ UNCHANGED Untouched

-----------------------------------------------------------------------------
(* stdin.  The writer sends parts and closes when it likes.  Text is read    *)
(* with readSync, which waits for the writer, or, where stdin does not       *)
(* block, is told EAGAIN.                                                    *)

WriterWrites ==
  /\ stdin.kind # "tty" /\ ~ stdin.closed /\ stdin.written < Parts
  /\ stdin' = [stdin EXCEPT !.written = @ + 1]
  /\ UNCHANGED <<argv, at, step, read, dispatched, sent, answer, record, code>>
  /\ UNCHANGED Settled

WriterCloses ==
  /\ stdin.kind # "tty" /\ ~ stdin.closed
  /\ stdin' = [stdin EXCEPT !.closed = TRUE]
  /\ UNCHANGED <<argv, at, step, read, dispatched, sent, answer, record, code>>
  /\ UNCHANGED Settled

Reading == at \in {"key read", "body read", "file read"} /\ ~ read.ended

StartReading(who) == read' = [by |-> read.by \cup {who}, got |-> 0, ended |-> FALSE]

(* Each part may be the one that exceeds the limit, or fail to be read. *)
ReadPart ==
  /\ Reading /\ stdin.taken < stdin.written
  /\ stdin' = [stdin EXCEPT !.taken = @ + 1]
  /\ read' = [read EXCEPT !.got = @ + 1]
  /\ \/ UNCHANGED <<at, code>>
     \/ at = "key read" /\ Exit(1)
     \/ at # "key read" /\ at' = "failed" /\ UNCHANGED code
  /\ UNCHANGED <<argv, step, dispatched, sent, answer, record>> /\ UNCHANGED Settled

(* readBoundedStdin and readStdinBinary both end at the end of the input;    *)
(* the first also ends when there is nothing to read now.                    *)
ReadEnds ==
  /\ Reading /\ stdin.taken = stdin.written
  /\ stdin.closed \/ (stdin.kind = "nonblocking" /\ at # "file read")
  /\ read' = [read EXCEPT !.ended = TRUE]
  /\ UNCHANGED <<argv, at, step, stdin, dispatched, sent, answer, record, code>>
  /\ UNCHANGED Settled

-----------------------------------------------------------------------------
(* From the credential to the handler. *)

TakeKey ==
  /\ at = "key"
  /\ \/ /\ "api-key-stdin" \notin flags
        /\ at' = "auth" /\ UNCHANGED <<read, code>>
     \/ /\ "api-key-stdin" \in flags /\ stdin.kind = "tty"
        /\ Exit(1) /\ UNCHANGED read
     \/ /\ "api-key-stdin" \in flags /\ stdin.kind # "tty"
        /\ at' = "key read" /\ StartReading("key") /\ UNCHANGED code
  /\ UNCHANGED <<argv, step, stdin, dispatched, sent, answer, record>> /\ UNCHANGED Settled

(* An empty key is refused; one cut short is not noticed. *)
KeyRead ==
  /\ at = "key read" /\ read.ended
  /\ IF read.got = 0 THEN Exit(1) ELSE at' = "auth" /\ UNCHANGED code
  /\ UNCHANGED Settled /\ UNCHANGED Untouched

(* resolveAuth may miss something, and --timeout or TESTRAIL_TIMEOUT may not *)
(* be a number: both are refused before a file is reserved.                  *)
Authorize ==
  /\ at = "auth"
  /\ Exit(1) \/ (at' = "reserve" /\ UNCHANGED code)
  /\ UNCHANGED Settled /\ UNCHANGED Untouched

(* A mutated form: a dry run reserves the file too. *)
ReserveInDryRun ==
  /\ at = "reserve"
  /\ \/ "diagnostic-file" \notin flags /\ at' = "client" /\ UNCHANGED record
     \/ "diagnostic-file" \in flags /\ at' = "client" /\ record' = "reserved"
     \/ "diagnostic-file" \in flags /\ at' = "failed" /\ record' \in {record, "abandoned"}
  /\ UNCHANGED <<argv, step, stdin, read, dispatched, sent, answer, code>>
  /\ UNCHANGED Settled

(* withDiagnostics reserves the file, unless this is a dry run.  A file that *)
(* was made and then refused is removed again, if that succeeds; nothing is  *)
(* held of it afterwards.                                                    *)
Reserve ==
  /\ at = "reserve"
  /\ \/ /\ "diagnostic-file" \notin flags \/ dryRun
        /\ at' = "client" /\ UNCHANGED record
     \/ /\ "diagnostic-file" \in flags /\ ~ dryRun
        /\ \/ at' = "client" /\ record' = "reserved"
           \/ at' = "failed" /\ record' \in {record, "abandoned"}
  /\ UNCHANGED <<argv, step, stdin, read, dispatched, sent, answer, code>>
  /\ UNCHANGED Settled

(* A mutated form: the call is not marked as dispatched. *)
CreateClientUnmarked ==
  /\ at = "client" /\ at' = "handler"
  /\ UNCHANGED <<argv, step, stdin, read, dispatched, sent, answer, record, code>>
  /\ UNCHANGED Settled

(* The constructor may refuse the configuration; from here on a failure may  *)
(* have reached TestRail.                                                    *)
CreateClient ==
  /\ at = "client"
  /\ \/ at' = "failed" /\ UNCHANGED dispatched
     \/ at' = "handler" /\ dispatched' = TRUE
  /\ UNCHANGED <<argv, step, stdin, read, sent, answer, record, code>>
  /\ UNCHANGED Settled

-----------------------------------------------------------------------------
(* The steps of a handler, in the order its row gives them. *)

Doing(name) == at = "handler" /\ step < Len(handler.steps) /\ handler.steps[step + 1] = name

Advance == at' = "handler" /\ step' = step + 1
Fail == at' = "failed" /\ UNCHANGED step
Finish == at' = "closed" /\ UNCHANGED step

Held == <<argv, values, allowed, strict, dispatched, record, code>>

(* parseId and its like refuse what is not an identifier. *)
ParseIds ==
  /\ Doing("ids")
  /\ Advance \/ Fail
  /\ UNCHANGED <<stdin, read, sent, answer>> /\ UNCHANGED Held

(* A mutated form: stdin is offered to the body after the key was read from it. *)
bodyInputAfterKey ==
  (flags \cap {"data", "data-file"})
    \cup IF stdin.kind # "tty" /\ flags \cap {"data", "data-file"} = {}
           THEN {"stdin"} ELSE {}

(* Where a body may come from.  stdin is offered only when it is piped, is   *)
(* not spoken for and no flag names a body.                                  *)
bodyInput ==
  (flags \cap {"data", "data-file"})
    \cup IF /\ stdin.kind # "tty" /\ ~ spec.fileInput
            /\ flags \cap {"api-key-stdin", "data", "data-file"} = {}
           THEN {"stdin"} ELSE {}

(* resolveBody: exactly one source, a text that is JSON and a value the      *)
(* schema accepts.  createWriteHandler lets an update of a dataset do        *)
(* without.                                                                  *)
resolveBody ==
  /\ Doing("body") \/ Doing("optional body")
  /\ IF bodyInput = {"stdin"}
       THEN at' = "body read" /\ StartReading("body") /\ UNCHANGED step
       ELSE /\ \/ Cardinality(bodyInput) = 1 /\ Advance
               \/ bodyInput = {} /\ Doing("optional body") /\ Advance
               \/ ~ (bodyInput = {} /\ Doing("optional body")) /\ Fail
            /\ UNCHANGED read
  /\ UNCHANGED <<stdin, sent, answer>> /\ UNCHANGED Held

(* A text cut short is not JSON: every payload is an object. *)
isJson(got) == got = Parts

BodyRead ==
  /\ at = "body read" /\ read.ended
  /\ Fail \/ (isJson(read.got) /\ Advance)
  /\ UNCHANGED <<stdin, read, sent, answer>> /\ UNCHANGED Held

resolveSoftFlag ==
  /\ Doing("soft")
  /\ IF "soft" \in flags /\ spec.softMode = "reject" /\ ~ dryRun THEN Fail ELSE Advance
  /\ UNCHANGED <<stdin, read, sent, answer>> /\ UNCHANGED Held

Preview ==
  /\ Doing("preview")
  /\ IF dryRun THEN Finish ELSE Advance
  /\ UNCHANGED <<stdin, read, sent, answer>> /\ UNCHANGED Held

Confirm ==
  /\ Doing("confirm")
  /\ IF "yes" \in flags THEN Advance ELSE Fail
  /\ UNCHANGED <<stdin, read, sent, answer>> /\ UNCHANGED Held

(* setupUpload: a file is opened, a pipe is drained, and neither when the    *)
(* command is only shown.                                                    *)
resolveFile ==
  /\ Doing("file")
  /\ \/ "file" \notin dash /\ (Advance \/ Fail) /\ UNCHANGED read
     \/ "file" \in dash /\ stdin.kind = "tty" /\ Fail /\ UNCHANGED read
     \/ "file" \in dash /\ stdin.kind # "tty" /\ dryRun /\ Advance /\ UNCHANGED read
     \/ /\ "file" \in dash /\ stdin.kind # "tty" /\ ~ dryRun
        /\ at' = "file read" /\ StartReading("file") /\ UNCHANGED step
  /\ UNCHANGED <<stdin, sent, answer>> /\ UNCHANGED Held

(* A mutated form: the upload of a pipe waits for its end without a deadline. *)
FileReadPatiently ==
  /\ at = "file read" /\ read.ended /\ Advance
  /\ UNCHANGED <<stdin, read, sent, answer>> /\ UNCHANGED Held

(* readStdinBinary fails at its deadline, whatever the writer does. *)
FileRead ==
  /\ at = "file read"
  /\ Fail \/ (read.ended /\ Advance)
  /\ UNCHANGED <<stdin, read, sent, answer>> /\ UNCHANGED Held

(* resolveOut finds a file it may not replace, unless nothing will be        *)
(* written; the file is written by safeWrite (CliFiles.tla).                 *)
resolveOut ==
  /\ Doing("target")
  /\ Advance \/ (~ dryRun /\ "out" \notin dash /\ Fail)
  /\ UNCHANGED <<stdin, read, sent, answer>> /\ UNCHANGED Held

WriteOut ==
  /\ Doing("write")
  /\ Advance \/ ("out" \notin dash /\ Fail)
  /\ UNCHANGED <<stdin, read, sent, answer>> /\ UNCHANGED Held

-----------------------------------------------------------------------------
(* The call of the client, which may refuse it before anything is sent; a    *)
(* watch makes it again and again.                                           *)

Call ==
  /\ Doing("call")
  /\ \/ Fail /\ UNCHANGED sent
     \/ /\ at' = "waiting" /\ UNCHANGED step
        /\ sent' = [op |-> handler.op, ids |-> handler.ids,
                    soft |-> "soft" \in flags /\ spec.softMode = "optional",
                    whole |-> /\ "body" \in read.by => read.got = Parts
                              /\ "file" \in read.by =>
                                   stdin.closed /\ read.got = stdin.written]
  /\ UNCHANGED <<stdin, read, answer>> /\ UNCHANGED Held

Watches == spec.polls /\ "once" \notin flags

(* An answer of the wrong shape is an error when responses are strict, and a *)
(* warning otherwise.                                                        *)
onSchemaMismatch == IF strict THEN Fail ELSE Advance

Answer ==
  /\ at = "waiting"
  /\ \/ answer' = "valid" /\ Advance
     \/ answer' = "mismatch" /\ onSchemaMismatch
     \/ answer' = "failed" /\ Fail
     \/ answer' = "valid" /\ Watches /\ at' = "handler" /\ UNCHANGED step
  /\ UNCHANGED <<stdin, read, sent>> /\ UNCHANGED Held

Output ==
  /\ Doing("out")
  /\ Finish
  /\ UNCHANGED <<stdin, read, sent, answer>> /\ UNCHANGED Held

-----------------------------------------------------------------------------
(* The end.  withDiagnostics writes the record of a failure, which may not   *)
(* succeed, and otherwise finish() removes the reserved file; a signal ends  *)
(* the process where it waits, and the exit listener calls finish().         *)

createDiagnosticRecord == IF dispatched THEN "indeterminate" ELSE "not_dispatched"

(* finish() of a file without a record: removing it may fail, or find        *)
(* another file at its path, and then there is a warning and nothing more.   *)
finishDiagnostic == IF record = "reserved" THEN {"none", "abandoned"} ELSE {record}

Succeed ==
  /\ at = "closed" /\ Exit(0)
  /\ record' \in finishDiagnostic
  /\ UNCHANGED <<argv, step, stdin, read, dispatched, sent, answer>>
  /\ UNCHANGED Settled

GiveUp ==
  /\ at = "failed" /\ Exit(1)
  /\ record' \in finishDiagnostic \cup IF record = "reserved" THEN {createDiagnosticRecord} ELSE {}
  /\ UNCHANGED <<argv, step, stdin, read, dispatched, sent, answer>>
  /\ UNCHANGED Settled

(* Text is read without giving way to a signal handler. *)
Interrupt ==
  /\ at \in {"waiting", "file read"} /\ Exit(130)
  /\ record' \in finishDiagnostic
  /\ UNCHANGED <<argv, step, stdin, read, dispatched, sent, answer>>
  /\ UNCHANGED Settled

Program ==
  \/ ParseArguments \/ ResolveInvocation \/ RefuseEnvironment \/ CheckEnvironment
  \/ TakeKey \/ KeyRead \/ Authorize \/ Reserve \/ CreateClient
  \/ ReadPart \/ ReadEnds
  \/ ParseIds \/ resolveBody \/ BodyRead \/ resolveSoftFlag \/ Preview \/ Confirm
  \/ resolveFile \/ FileRead \/ resolveOut \/ WriteOut
  \/ Call \/ Answer \/ Output \/ Succeed \/ GiveUp

Done == at = "ended" /\ UNCHANGED vars

Next == Program \/ WriterWrites \/ WriterCloses \/ Interrupt \/ Done

(* The program goes on whenever it can; nothing is assumed of the writer.    *)
Spec == Init /\ [][Next]_vars /\ WF_vars(Program)

-----------------------------------------------------------------------------

Ended == at = "ended"

(* Wherever --dry-run stands on the command line, nothing is asked of        *)
(* TestRail, no diagnostic file is made and a piped upload stays in its      *)
(* pipe.                                                                     *)
DryRunLeavesNoTrace ==
  (\E i \in DOMAIN argv.tokens : argv.tokens[i] = Flag("dry-run")) =>
    sent = Nothing /\ record = "none" /\ "file" \notin read.by

(* A request that removes something was confirmed twice, by the environment  *)
(* and by --yes, whichever handler sent it; a preview of a removal is asked  *)
(* for only where TestRail has one.                                          *)
OnlyConfirmedDestruction ==
  sent # Nothing =>
    LET op == Client[sent.op]
    IN  /\ Removes(op) => allowed = "yes" /\ "yes" \in flags /\ ~ dryRun
        /\ sent.soft => op.soft /\ "soft" \in flags
        /\ op.soft /\ "soft" \in flags => sent.soft

(* The request that leaves is the one the command is documented to make: its *)
(* method and endpoint, with every identifier of the endpoint.  A command    *)
(* that only reads never writes.                                             *)
SentAsDeclared ==
  sent # Nothing =>
    LET op == Client[sent.op]
    IN  /\ (op.method \o " " \o op.path) = spec.apiEndpoint
        /\ sent.ids = op.ids
        /\ op.method = "GET" <=> ~ spec.isWrite

(* stdin has one reader, and what a request takes from it is whole: a body   *)
(* even where the reading stopped early, an upload up to the end of the      *)
(* input.                                                                    *)
InputIsWhole ==
  /\ Cardinality(read.by) <= 1
  /\ sent # Nothing => sent.whole

(* What the command tells is so: success is told only of a request that was  *)
(* answered or a preview, exit code 2 only when nothing was read or sent and *)
(* no file was made, a record of not_dispatched only when no request left,   *)
(* and a record of either kind only by a command that failed.  A file that   *)
(* could not be removed holds no record, whatever the exit code.             *)
OutcomeIsTruthful ==
  /\ code = 0 /\ step # 0 => IF dryRun THEN sent = Nothing
                             ELSE answer \in {"valid"} \cup IF strict THEN {} ELSE {"mismatch"}
  /\ code = 2 => sent = Nothing /\ read.by = {} /\ record = "none"
  /\ record = "not_dispatched" => sent = Nothing
  /\ record \in {"not_dispatched", "indeterminate"} => code = 1
  /\ Ended => record # "reserved"

(* A command ends, unless it waits for text that a writer holds back, or     *)
(* watches a run.                                                            *)
WaitsForText ==
  /\ at \in {"key read", "body read"} /\ stdin.kind = "blocking"
  /\ ~ stdin.closed /\ stdin.taken = stdin.written
CommandEnds == <>[] WaitsForText \/ []<> (at = "waiting" /\ Watches) \/ <> Ended
=============================================================================
