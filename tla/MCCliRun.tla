------------------------------ MODULE MCCliRun -------------------------------
(* CliRun for model checking: every command with the flags it needs, and     *)
(* some commands of each kind with many combinations of flags.               *)
EXTENDS CliRun

Key(c) == c.resource \o ":" \o c.action

(* The tokens of a set of flags, each with its value. *)
Tokens(names, dashed) ==
  LET Of(name) == IF name \in BooleanFlags THEN <<Flag(name)>>
                  ELSE <<Flag(name), Word(IF name \in dashed THEN "-" ELSE "value")>>
  IN  FoldSet(LAMBDA name, tokens : Of(name) \o tokens, <<>>, names)

Line(c, names, dashed, n) ==
  [command |-> Key(c), tokens |-> Tokens(names, dashed), params |-> n]

Given(command) ==
  command.required \cup IF command.bodySchema THEN {"data"} ELSE {}

EveryCommand ==
  {Line(c, Given(c) \cup more, {}, c.params) :
     c \in Actions, more \in {{}, {"dry-run"}, {"yes"}, {"yes", "soft"}}}

Sample ==
  {c \in Actions : c.handler \in
     {"handleCaseGet", "handleCaseList", "handleRoleList", "handleRunWatch",
      "handleSharedStepHistory", "handleAttachmentListForTest"}}

Writes ==
  {c \in Actions : c.handler \in
     {"handleCaseUpdate", "handleDatasetUpdate", "handleCaseDeleteBulk",
      "handleLabelDeleteBulk", "handleCaseDelete", "handleRunClose"}}

Files ==
  {c \in Actions : c.handler \in {"handleAttachmentAddToCase", "handleAttachmentGet"}}

ManyFlags ==
  {Line(c, c.required \cup more, {}, c.params) : c \in Sample,
     more \in SUBSET {"page", "all", "limit", "page-size", "once", "interval"}}
  \cup
  {Line(c, c.required \cup more, {}, c.params) : c \in Writes,
     more \in SUBSET {"dry-run", "yes", "soft", "data", "data-file", "api-key-stdin",
                      "diagnostic-file"}}
  \cup
  {Line(c, c.required \cup more, dashed, c.params) : c \in Files,
     more \in SUBSET {"dry-run", "data", "api-key-stdin", "diagnostic-file", "format"},
     dashed \in SUBSET {"file", "out"}}

(* Lines that are refused: the wrong number of arguments, a flag nobody      *)
(* knows, a value where none belongs, and a flag in the place of a value.    *)
Odd(c, tokens, n) ==
  [command |-> Key(c), tokens |-> tokens \o Tokens(Given(c), {}),
   params |-> n]

Refused ==
  {Odd(c, tokens, n) : c \in Files \cup Writes, n \in 0 .. 2,
     tokens \in {<<>>, <<Flag("version")>>, <<Flag("--typo")>>,
                 <<Inline("dry-run")>>, <<Inline("timeout")>>,
                 <<Flag("timeout"), Flag("dry-run")>>,
                 <<Flag("timeout")>>}}

Others ==
  {[command |-> name, tokens |-> tokens, params |-> 1] :
     name \in {"case:forget", "install-skill", "uninstall-skill"},
     tokens \in {<<>>, <<Flag("force")>>, <<Flag("yes")>>}}

MCInvocations == EveryCommand \cup ManyFlags \cup Refused \cup Others
==============================================================================
