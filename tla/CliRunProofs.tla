------------------------------ MODULE CliRunProofs -----------------------------
(* Theorems about CliRun, for every command line, every length of stdin and  *)
(* every interleaving of the program with who writes it.                     *)
(*                                                                           *)
(* Of the tables of commands, handlers and methods the proofs know only what *)
(* TablesAgree says.  The first part is about the parser, which is recursive *)
(* and needs an induction; the invariant then says, for each point of        *)
(* runCli, what has been granted by then and what has been touched.          *)
EXTENDS CliRun, FiniteSetTheorems, TLAPS

Asked == \E i \in DOMAIN argv.tokens : argv.tokens[i] = Flag("dry-run")

(* What is settled before stdin, the credential and the files are touched.   *)
Accepted ==
  /\ Asked => dryRun
  /\ isCommand
  /\ resolveActionInvocation
  /\ checkDestructiveEnvGate(allowed)

Untaken ==
  /\ step = 0 /\ sent = Nothing /\ dispatched = FALSE
  /\ "body" \notin read.by /\ "file" \notin read.by

(* Nothing that lasts has been done. *)
Pristine == Untaken /\ read.by = {} /\ record = "none"

(* What has been accepted by each point. *)
Stages ==
  /\ code = -1 <=> at # "ended"
  /\ at \in {"argv", "invocation", "environment"} => Pristine
  /\ at \in {"invocation", "environment"} => isCommand /\ (Asked => dryRun)
  /\ at = "environment" => resolveActionInvocation
  /\ at \notin {"argv", "invocation", "environment", "ended"} => Accepted
  /\ ~ Pristine => Accepted
  /\ at \in {"key", "key read", "auth", "reserve"} => Untaken /\ record = "none"
  /\ at = "client" => Untaken
  /\ at \in {"handler", "body read", "file read", "waiting", "closed"} => dispatched = TRUE
  /\ code = 2 => Pristine

(* The steps of the handler that are done, and the one it is at. *)
Passed == {handler.steps[i] : i \in 1 .. step}
Facing == IF step < Len(handler.steps) THEN handler.steps[step + 1] ELSE "nothing"

Answered == answer \in {"valid"} \cup IF strict THEN {} ELSE {"mismatch"}

Order ==
  /\ at = "body read" => Facing \in {"body", "optional body"}
  /\ at = "file read" => Facing = "file"
  /\ at = "waiting" => Facing = "call"
  /\ at \in {"handler", "body read", "file read", "waiting"} /\ "call" \in Passed => Answered
  /\ dryRun => "preview" \notin Passed
  /\ "confirm" \in Passed => "yes" \in flags
  /\ at = "closed" => dryRun \/ Answered
  /\ code = 0 /\ step # 0 => dryRun \/ Answered

(* The request that left. *)
Request ==
  sent # Nothing =>
    /\ dispatched = TRUE
    /\ ~ dryRun
    /\ sent.op = handler.op /\ sent.ids = handler.ids
    /\ sent.soft <=> ("soft" \in flags /\ spec.softMode = "optional")
    /\ sent.whole
    /\ Removes(Client[handler.op]) => "yes" \in flags

(* The one reader of stdin, and what it has. *)
Reader ==
  /\ "key" \in read.by => "api-key-stdin" \in flags
  /\ "body" \in read.by => "api-key-stdin" \notin flags /\ ~ spec.fileInput
  /\ "file" \in read.by => "file" \in dash /\ ~ dryRun
  /\ at = "key" => read.by = {}
  /\ at = "key read" => read.by = {"key"}
  /\ at = "body read" => "body" \in read.by
  /\ at = "file read" => "file" \in read.by

Input ==
  /\ read.got <= stdin.taken /\ stdin.taken <= stdin.written
  /\ read.by = {} => stdin.taken = 0
  /\ "file" \in read.by => read.got = stdin.taken
  /\ "file" \in read.by /\ read.ended => stdin.closed /\ stdin.taken = stdin.written
  /\ "file" \in read.by /\ at \in {"handler", "waiting"} => read.ended /\ "file" \in Passed
  /\ "body" \in read.by /\ at \in {"handler", "waiting"} => read.got = Parts

Records ==
  /\ record # "none" => ~ dryRun
  /\ at # "ended" => record \in {"none", "reserved", "abandoned"}
  /\ record = "abandoned" => at \in {"failed", "ended"}
  /\ record = "not_dispatched" => dispatched = FALSE
  /\ record \in {"not_dispatched", "indeterminate"} => code = 1
  /\ at = "ended" => record # "reserved"

IInv == TypeOK /\ Stages /\ Order /\ Request /\ Reader /\ Input /\ Records

-----------------------------------------------------------------------------
(* The parser.                                                               *)

(* Induction over the natural numbers, in a form that names no operator: a   *)
(* set with 0 that is closed under successor has them all.  The least        *)
(* number outside comes from the ordering of finite sets by inclusion.       *)
LEMMA SetInduction ==
  ASSUME NEW S, 0 \in S, \A n \in Nat : n \in S => n + 1 \in S
  PROVE  Nat \subseteq S
<1> DEFINE Below(n) == 0 .. (n - 1)
           T == {Below(n) : n \in Nat \ S}
<1> SUFFICES ASSUME T # {} PROVE FALSE
  OBVIOUS
<1>1. \A n \in Nat : Below(n) \in FiniteSubsetsOf(Nat)
  BY FS_Interval DEF FiniteSubsetsOf
<1>2. T \subseteq FiniteSubsetsOf(Nat)
  BY <1>1
<1>3. PICK x \in T : \A y \in T : ~ (<<y, x>> \in StrictSubsetOrdering(Nat))
  BY <1>2, WFMin, FS_StrictSubsetOrderingWellFounded, Zenon
<1>4. PICK n \in Nat \ S : x = Below(n)
  BY <1>3
<1>5. n # 0 /\ n - 1 \in Nat \ S
  OBVIOUS
<1>6. Below(n - 1) \in T
  BY <1>5
<1>7. Below(n - 1) \subseteq Below(n) /\ n - 1 \in Below(n) /\ n - 1 \notin Below(n - 1)
  BY <1>5
<1>8. <<Below(n - 1), Below(n)>> \in StrictSubsetOrdering(Nat)
  <2>1. Below(n - 1) \subseteq Nat /\ Below(n) \subseteq Nat
    BY <1>5
  <2> HIDE DEF Below
  <2> QED BY <2>1, <1>7 DEF StrictSubsetOrdering
<1> QED BY <1>3, <1>4, <1>6, <1>8

OptionSet(S) ==
  UNION {{Option(token, value) : value \in S \cup {Word("inline"), Word("")}} : token \in S}

(* What the parser makes of the tokens from i on, given what it makes of the *)
(* later ones.                                                               *)
OptionsAt(tokens, later, i) ==
  IF i > Len(tokens) THEN <<>>
  ELSE IF tokens[i].form = "word" THEN later[i + 1]
  ELSE IF tokens[i].form = "inline"
    THEN <<Option(tokens[i], Word("inline"))>> \o later[i + 1]
  ELSE IF tokens[i].name \in StringFlags /\ i < Len(tokens)
    THEN <<Option(tokens[i], tokens[i + 1])>> \o later[i + 2]
  ELSE <<Option(tokens[i], Word(""))>> \o later[i + 1]

LEMMA OptionIn ==
  ASSUME NEW S, NEW token \in S, NEW value \in S \cup {Word("inline"), Word("")}
  PROVE  Option(token, value) \in OptionSet(S)
<1> DEFINE V == S \cup {Word("inline"), Word("")}
           With(t) == {Option(t, v) : v \in V}
<1>1. value \in V
  OBVIOUS
<1> HIDE DEF V
<1>2. Option(token, value) \in With(token)
  BY <1>1
<1>3. With(token) \in {With(t) : t \in S}
  OBVIOUS
<1>4. OptionSet(S) = UNION {With(t) : t \in S}
  BY DEF OptionSet, V
<1> QED BY <1>2, <1>3, <1>4

LEMMA ConsType ==
  ASSUME NEW S, NEW x \in S, NEW s \in Seq(S)
  PROVE  <<x>> \o s \in Seq(S)
OBVIOUS

(* Only what the parser makes of the next two positions matters.             *)
LEMMA OptionsAtSame ==
  ASSUME NEW tokens, NEW i, NEW f, NEW g,
         ~ i > Len(tokens) => g[i + 1] = f[i + 1] /\ g[i + 2] = f[i + 2]
  PROVE  OptionsAt(tokens, g, i) = OptionsAt(tokens, f, i)
<1>1. CASE i > Len(tokens)
  BY <1>1, Zenon DEF OptionsAt
<1>2. CASE ~ i > Len(tokens)
  BY <1>2, Zenon DEF OptionsAt
<1> QED BY <1>1, <1>2

LEMMA OptionsAtType ==
  ASSUME NEW S, NEW tokens \in Seq(S), NEW i \in 1 .. Len(tokens) + 2,
         NEW later, i <= Len(tokens) => later[i + 1] \in Seq(OptionSet(S)) /\ later[i + 2] \in Seq(OptionSet(S))
  PROVE  OptionsAt(tokens, later, i) \in Seq(OptionSet(S))
<1>1. CASE i > Len(tokens)
  BY <1>1 DEF OptionsAt
<1>2. CASE i <= Len(tokens)
  <2>1. tokens[i] \in S /\ (i < Len(tokens) => tokens[i + 1] \in S)
    BY <1>2
  <2>2. /\ Option(tokens[i], Word("inline")) \in OptionSet(S)
        /\ Option(tokens[i], Word("")) \in OptionSet(S)
    BY <2>1, OptionIn, Zenon
  <2>3. i < Len(tokens) => Option(tokens[i], tokens[i + 1]) \in OptionSet(S)
    BY <2>1, OptionIn, Zenon
  <2>4. ~ i > Len(tokens)
    BY <1>2
  <2>5. /\ later[i + 1] \in Seq(OptionSet(S))
        /\ later[i + 2] \in Seq(OptionSet(S))
    BY <1>2
  <2>6. /\ <<Option(tokens[i], Word("inline"))>> \o later[i + 1] \in Seq(OptionSet(S))
        /\ <<Option(tokens[i], Word(""))>> \o later[i + 1] \in Seq(OptionSet(S))
        /\ i < Len(tokens) => <<Option(tokens[i], tokens[i + 1])>> \o later[i + 2] \in Seq(OptionSet(S))
    BY <2>2, <2>3, <2>5, ConsType, Zenon
  <2> QED BY <2>4, <2>5, <2>6, Zenon DEF OptionsAt
<1> QED BY <1>1, <1>2

(* The recursion over the positions is well defined. *)
LEMMA OptionsExist ==
  ASSUME NEW S, NEW tokens \in Seq(S)
  PROVE  \E f \in [1 .. Len(tokens) + 2 -> Seq(OptionSet(S))] :
           \A i \in 1 .. Len(tokens) + 2 : f[i] = OptionsAt(tokens, f, i)
<1> DEFINE n == Len(tokens) + 2
           D == 1 .. n
           Right(f, k) == \A i \in D : i > n - k => f[i] = OptionsAt(tokens, f, i)
           K == {k \in Nat : \E f \in [D -> Seq(OptionSet(S))] : Right(f, k)}
<1>1. n \in Nat
  OBVIOUS
<1>2. 0 \in K
  <2>1. <<>> \in Seq(OptionSet(S))
    OBVIOUS
  <2>2. [i \in D |-> <<>>] \in [D -> Seq(OptionSet(S))]
    BY <2>1
  <2>3. Right([i \in D |-> <<>>], 0)
    BY <1>1
  <2> QED BY <2>2, <2>3
<1>3. ASSUME NEW k \in Nat, k \in K PROVE k + 1 \in K
  <2>1. PICK f \in [D -> Seq(OptionSet(S))] : Right(f, k)
    BY <1>3
  <2> DEFINE p == n - k
  <2>2. CASE p < 1
    <3>1. Right(f, k + 1)
      BY <2>1, <2>2, <1>1
    <3> QED BY <3>1
  <2>3. CASE p >= 1
    <3>1. p \in D
      BY <2>3, <1>1
    <3> DEFINE g == [f EXCEPT ![p] = OptionsAt(tokens, f, p)]
    <3>2. OptionsAt(tokens, f, p) \in Seq(OptionSet(S))
      <4>1. p <= Len(tokens) => p + 1 \in D /\ p + 2 \in D
        BY <3>1
      <4> QED BY <3>1, <4>1, OptionsAtType
    <3>3. g \in [D -> Seq(OptionSet(S))]
      BY <3>2
    <3>4. ASSUME NEW i \in D, i > n - (k + 1)
          PROVE  g[i] = OptionsAt(tokens, g, i)
      <4>1. i >= p
        BY <3>4, <1>1
      <4>2. \A j \in D : j # p => g[j] = f[j]
        OBVIOUS
      <4>3. i <= Len(tokens) => g[i + 1] = f[i + 1] /\ g[i + 2] = f[i + 2]
        <5>1. i <= Len(tokens) => i + 1 \in D /\ i + 2 \in D /\ i + 1 # p /\ i + 2 # p
          BY <4>1, <3>1
        <5> HIDE DEF g
        <5> QED BY <5>1, <4>2
      <4>4. OptionsAt(tokens, g, i) = OptionsAt(tokens, f, i)
        <5> HIDE DEF g
        <5>1. ~ i > Len(tokens) => i <= Len(tokens)
          OBVIOUS
        <5> QED BY <4>3, <5>1, OptionsAtSame
      <4>5. g[i] = OptionsAt(tokens, f, i)
        BY <2>1, <4>1, <3>1, <1>1
      <4> QED BY <4>4, <4>5
    <3>5. Right(g, k + 1)
      BY <3>4
    <3> HIDE DEF g
    <3> QED BY <3>3, <3>5
  <2> QED BY <2>2, <2>3, <1>1
<1>4. n \in K
  <2> HIDE DEF K
  <2> QED BY <1>1, <1>2, <1>3, SetInduction
<1>5. PICK f \in [D -> Seq(OptionSet(S))] : Right(f, n)
  BY <1>4
<1>6. \A i \in D : f[i] = OptionsAt(tokens, f, i)
  BY <1>5, <1>1
<1> QED BY <1>6

LEMMA OptionsFrom ==
  ASSUME NEW S, NEW tokens \in Seq(S)
  PROVE  /\ optionsFrom(tokens) \in [1 .. Len(tokens) + 2 -> Seq(OptionSet(S))]
         /\ \A i \in 1 .. Len(tokens) + 2 :
              optionsFrom(tokens)[i] = OptionsAt(tokens, optionsFrom(tokens), i)
<1> DEFINE D == 1 .. Len(tokens) + 2
<1>1. PICK f \in [D -> Seq(OptionSet(S))] : \A i \in D : f[i] = OptionsAt(tokens, f, i)
  BY OptionsExist
<1>2. f = [i \in D |-> OptionsAt(tokens, f, i)]
  BY <1>1
<1>3. optionsFrom(tokens) = CHOOSE g : g = [i \in D |-> OptionsAt(tokens, g, i)]
  BY DEF optionsFrom, OptionsAt
<1>4. optionsFrom(tokens) = [i \in D |-> OptionsAt(tokens, optionsFrom(tokens), i)]
  BY <1>2, <1>3
<1> HIDE DEF D
<1>5. \A i \in D : optionsFrom(tokens)[i] = OptionsAt(tokens, optionsFrom(tokens), i)
  BY <1>4
<1> USE DEF D
<1> DEFINE n == Len(tokens) + 2
           K == {k \in Nat : \A i \in D : i > n - k => optionsFrom(tokens)[i] \in Seq(OptionSet(S))}
<1>6. 0 \in K
  OBVIOUS
<1>7. ASSUME NEW k \in Nat, k \in K PROVE k + 1 \in K
  <2> SUFFICES ASSUME NEW i \in D, i > n - (k + 1)
               PROVE  optionsFrom(tokens)[i] \in Seq(OptionSet(S))
    OBVIOUS
  <2>1. i <= Len(tokens) => /\ optionsFrom(tokens)[i + 1] \in Seq(OptionSet(S))
                            /\ optionsFrom(tokens)[i + 2] \in Seq(OptionSet(S))
    <3>1. i <= Len(tokens) => /\ i + 1 \in D /\ i + 1 > n - k
                              /\ i + 2 \in D /\ i + 2 > n - k
      OBVIOUS
    <3>2. \A j \in D : j > n - k => optionsFrom(tokens)[j] \in Seq(OptionSet(S))
      BY <1>7
    <3> QED BY <3>1, <3>2
  <2>2. OptionsAt(tokens, optionsFrom(tokens), i) \in Seq(OptionSet(S))
    BY <2>1, OptionsAtType
  <2> QED BY <1>5, <2>2
<1>8. n \in K
  <2> HIDE DEF K
  <2>1. n \in Nat
    OBVIOUS
  <2> QED BY <2>1, <1>6, <1>7, SetInduction
<1>9. \A i \in D : optionsFrom(tokens)[i] \in Seq(OptionSet(S))
  BY <1>8
<1> HIDE DEF D, n, K
<1>10. optionsFrom(tokens) \in [D -> Seq(OptionSet(S))]
  BY <1>4, <1>9
<1> QED BY <1>5, <1>10 DEF D

(* An option that shows that --dry-run was on the command line: itself, or   *)
(* in the place of a value.                                                  *)
Shows(option) ==
  \/ option.name = "dry-run"
  \/ option.name \in StringFlags /\ option.value = Flag("dry-run")
Shown(options) == \E p \in DOMAIN options : Shows(options[p])

LEMMA ShownLater ==
  ASSUME NEW S, NEW x \in S, NEW s \in Seq(S), Shown(s)
  PROVE  Shown(<<x>> \o s)
<1>1. PICK p \in DOMAIN s : Shows(s[p])
  BY DEF Shown
<1>2. p + 1 \in DOMAIN (<<x>> \o s) /\ (<<x>> \o s)[p + 1] = s[p]
  OBVIOUS
<1> QED BY <1>1, <1>2 DEF Shown

LEMMA ShownFirst ==
  ASSUME NEW S, NEW x \in S, NEW s \in Seq(S), Shows(x)
  PROVE  Shown(<<x>> \o s)
<1>1. 1 \in DOMAIN (<<x>> \o s) /\ (<<x>> \o s)[1] = x
  OBVIOUS
<1> QED BY <1>1 DEF Shown

(* Wherever --dry-run stands, an option shows it.                            *)
LEMMA DryRunShows ==
  ASSUME NEW S, NEW tokens \in Seq(S), NEW j \in 1 .. Len(tokens),
         tokens[j] = Flag("dry-run")
  PROVE  Shown(parseCliArgv(tokens))
<1> DEFINE f == optionsFrom(tokens)
           X == OptionSet(S)
           K == {k \in Nat : \A i \in 1 .. j : i >= j - k => Shown(f[i])}
<1>1. \A i \in 1 .. Len(tokens) + 2 : f[i] \in Seq(X) /\ f[i] = OptionsAt(tokens, f, i)
  BY OptionsFrom
<1>2. \A i \in 1 .. Len(tokens) : tokens[i] \in S
  OBVIOUS
<1> HIDE DEF f, X
<1>3. Shown(f[j])
  <2>1. tokens[j].form = "flag" /\ tokens[j].name = "dry-run"
    BY DEF Flag
  <2>2. "dry-run" \notin StringFlags
    BY DEF StringFlags
  <2>3. ~ j > Len(tokens) /\ j \in 1 .. Len(tokens) + 2
    OBVIOUS
  <2>4. f[j] = <<Option(tokens[j], Word(""))>> \o f[j + 1]
    <3>1. tokens[j].form # "word" /\ tokens[j].form # "inline" /\ ~ tokens[j].name \in StringFlags
      BY <2>1, <2>2
    <3> QED BY <1>1, <2>3, <3>1, Zenon DEF OptionsAt
  <2>5. Option(tokens[j], Word("")) \in X /\ f[j + 1] \in Seq(X)
    <3>1. j + 1 \in 1 .. Len(tokens) + 2
      OBVIOUS
    <3> QED BY <1>1, <1>2, <3>1, OptionIn DEF X
  <2>6. Shows(Option(tokens[j], Word("")))
    BY <2>1 DEF Shows, Option
  <2> QED BY <2>4, <2>5, <2>6, ShownFirst
<1>4. ASSUME NEW k \in Nat, k \in K PROVE k + 1 \in K
  <2> SUFFICES ASSUME NEW i \in 1 .. j, i >= j - (k + 1), i # j PROVE Shown(f[i])
    BY <1>3
  <2>1. Shown(f[i + 1]) /\ (i + 2 <= j => Shown(f[i + 2]))
    <3>1. i + 1 \in 1 .. j /\ i + 1 >= j - k /\ (i + 2 <= j => i + 2 \in 1 .. j /\ i + 2 >= j - k)
      OBVIOUS
    <3>2. \A m \in 1 .. j : m >= j - k => Shown(f[m])
      BY <1>4
    <3> QED BY <3>1, <3>2
  <2>2. /\ ~ i > Len(tokens) /\ i < Len(tokens) /\ i \in 1 .. Len(tokens) + 2
        /\ i + 1 \in 1 .. Len(tokens) + 2 /\ i + 2 \in 1 .. Len(tokens) + 2
        /\ i \in 1 .. Len(tokens) /\ i + 1 \in 1 .. Len(tokens)
    OBVIOUS
  <2>3. /\ f[i + 1] \in Seq(X) /\ f[i + 2] \in Seq(X)
        /\ tokens[i] \in S /\ tokens[i + 1] \in S
    BY <1>1, <1>2, <2>2
  <2>4. /\ Option(tokens[i], Word("inline")) \in X /\ Option(tokens[i], Word("")) \in X
        /\ Option(tokens[i], tokens[i + 1]) \in X
    BY <2>3, OptionIn, Zenon DEF X
  <2>5. /\ Shown(<<Option(tokens[i], Word("inline"))>> \o f[i + 1])
        /\ Shown(<<Option(tokens[i], Word(""))>> \o f[i + 1])
    BY <2>1, <2>3, <2>4, ShownLater
  <2>6. ASSUME tokens[i].name \in StringFlags
        PROVE  Shown(<<Option(tokens[i], tokens[i + 1])>> \o f[i + 2])
    <3>1. CASE i + 2 <= j
      BY <3>1, <2>1, <2>3, <2>4, ShownLater
    <3>2. CASE i + 1 = j
      <4>1. Shows(Option(tokens[i], tokens[i + 1]))
        BY <2>6, <3>2 DEF Shows, Option
      <4> QED BY <4>1, <2>3, <2>4, ShownFirst
    <3> QED BY <3>1, <3>2
  <2>7. f[i] = OptionsAt(tokens, f, i)
    BY <1>1, <2>2
  <2> QED BY <2>1, <2>2, <2>5, <2>6, <2>7, Zenon DEF OptionsAt
<1>5. 0 \in K
  BY <1>3
<1>6. j \in K
  <2> HIDE DEF K
  <2> QED BY <1>4, <1>5, SetInduction
<1>7. Shown(f[1])
  BY <1>6
<1> QED BY <1>7 DEF parseCliArgv, f

(* The CLI therefore sees --dry-run among the names it was given, or refuses *)
(* the line: a flag in the place of a value is refused.                      *)
LEMMA DryRunIsSeen ==
  ASSUME NEW S, NEW tokens \in Seq(S), NEW j \in DOMAIN tokens,
         tokens[j] = Flag("dry-run"),
         validateSuppliedFlagTypes(parseCliArgv(tokens))
  PROVE  \E p \in DOMAIN parseCliArgv(tokens) : parseCliArgv(tokens)[p].name = "dry-run"
<1>1. PICK p \in DOMAIN parseCliArgv(tokens) : Shows(parseCliArgv(tokens)[p])
  BY DryRunShows DEF Shown
<1>2. CASE parseCliArgv(tokens)[p].name \in StringFlags /\ parseCliArgv(tokens)[p].value = Flag("dry-run")
  <2>1. parseCliArgv(tokens)[p].value.form = "word"
    BY <1>2, Zenon DEF validateSuppliedFlagTypes
  <2> QED BY <1>2, <2>1 DEF Flag
<1> QED BY <1>1, <1>2 DEF Shows

-----------------------------------------------------------------------------
(* What the tables give a command that is accepted.                          *)

StepNames ==
  {"ids", "body", "optional body", "file", "target", "soft", "preview", "confirm",
   "call", "write", "out"}

LEMMA SpecIsAction ==
  ASSUME isCommand
  PROVE  spec \in Actions
<1> DEFINE key(c) == c.resource \o ":" \o c.action
<1>1. argv.command \in {key(c) : c \in Actions}
  BY DEF isCommand, ACTION_SPECS
<1>2. spec = CHOOSE c \in Actions : key(c) = argv.command
  BY <1>1 DEF spec, ACTION_SPECS
<1>3. \E c \in Actions : key(c) = argv.command
  BY <1>1
<1> HIDE DEF key
<1> QED BY <1>2, <1>3

LEMMA Row ==
  ASSUME isCommand
  PROVE  /\ handler.op \in DOMAIN Client
         /\ handler.steps \in Seq(StepNames)
         /\ Cardinality({i \in DOMAIN handler.steps : handler.steps[i] = "file"}) <= 1
         /\ Before("call", "out", handler.steps)
         /\ "dry-run" \in getAllowedActionFlags(spec) => Before("preview", "call", handler.steps)
         /\ Removes(Client[handler.op]) => spec.destructive /\ Before("confirm", "call", handler.steps)
         /\ Client[handler.op].soft <=> (spec.softMode = "optional")
<1>1. spec \in Actions
  BY SpecIsAction
<1> QED BY <1>1, TablesAgree, Zenon DEF handler, StepNames

LEMMA PassedBefore ==
  ASSUME NEW name, NEW next, next # "nothing", Before(name, next, handler.steps),
         step \in Nat, Facing = next, Len(handler.steps) \in Nat,
         DOMAIN handler.steps = 1 .. Len(handler.steps)
  PROVE  name \in Passed
<1>1. step + 1 \in DOMAIN handler.steps /\ handler.steps[step + 1] = next
  BY DEF Facing
<1>2. PICK j \in 1 .. (step + 1) - 1 : handler.steps[j] = name
  BY <1>1 DEF Before
<1>3. j \in 1 .. step
  BY <1>2
<1> QED BY <1>2, <1>3 DEF Passed

LEMMA Pair ==
  ASSUME NEW a, NEW b, a # b
  PROVE  Cardinality({a, b}) = 2
<1>1. IsFiniteSet({a}) /\ Cardinality({a}) = 1
  BY FS_Singleton
<1>2. b \notin {a} /\ {a, b} = {a} \cup {b}
  OBVIOUS
<1>3. Cardinality({a} \cup {b}) = Cardinality({a}) + 1
  BY <1>1, <1>2, FS_AddElement, Zenon
<1>4. Cardinality({a} \cup {b}) = 1 + 1
  BY <1>1, <1>3, Zenon
<1>5. 1 + 1 = 2
  OBVIOUS
<1> QED BY <1>2, <1>4, <1>5, Zenon

LEMMA OneFileStep ==
  ASSUME step \in Nat, handler.steps \in Seq(StepNames), Facing = "file",
         Cardinality({i \in DOMAIN handler.steps : handler.steps[i] = "file"}) <= 1
  PROVE  "file" \notin Passed
<1> SUFFICES ASSUME NEW j \in 1 .. step, handler.steps[j] = "file" PROVE FALSE
  BY DEF Passed
<1> DEFINE F == {i \in DOMAIN handler.steps : handler.steps[i] = "file"}
<1>1. step < Len(handler.steps) /\ handler.steps[step + 1] = "file"
  BY DEF Facing
<1>2. j \in F /\ step + 1 \in F /\ j # step + 1
  BY <1>1
<1>3. F \subseteq 1 .. Len(handler.steps)
  OBVIOUS
<1>4. IsFiniteSet(F)
  BY <1>3, FS_Interval, FS_Subset
<1>5. {j, step + 1} \subseteq F
  BY <1>2
<1> HIDE DEF F
<1>6. Cardinality({j, step + 1}) <= Cardinality(F) /\ Cardinality(F) \in Nat
  BY <1>4, <1>5, FS_Subset, FS_CardinalityType
<1>7. Cardinality({j, step + 1}) = 2
  BY <1>2, Pair, Zenon
<1> QED BY <1>6, <1>7 DEF F

(* What a step of the handler may rely on.                                   *)
LEMMA RowFacts ==
  ASSUME step \in Nat, Accepted
  PROVE  /\ handler.op \in DOMAIN Client
         /\ Len(handler.steps) \in Nat
         /\ Facing = "file" => "file" \notin Passed
         /\ Facing = "out" => "call" \in Passed
         /\ dryRun /\ Facing = "call" => "preview" \in Passed
         /\ Removes(Client[handler.op]) => /\ spec.destructive
                                           /\ Facing = "call" => "confirm" \in Passed
         /\ Client[handler.op].soft <=> (spec.softMode = "optional")
<1>1. isCommand
  BY DEF Accepted
<1>2. handler.steps \in Seq(StepNames)
  BY <1>1, Row
<1>3. Len(handler.steps) \in Nat /\ DOMAIN handler.steps = 1 .. Len(handler.steps)
  BY <1>2
<1>4. Facing = "file" => "file" \notin Passed
  BY <1>1, <1>2, Row, OneFileStep
<1>5. Facing = "out" => "call" \in Passed
  BY <1>1, <1>3, Row, PassedBefore
<1>6. dryRun /\ Facing = "call" => "preview" \in Passed
  <2>1. dryRun => "dry-run" \in getAllowedActionFlags(spec)
    BY DEF Accepted, resolveActionInvocation, dryRun
  <2> QED BY <1>1, <1>3, <2>1, Row, PassedBefore
<1>7. Removes(Client[handler.op]) /\ Facing = "call" => "confirm" \in Passed
  BY <1>1, <1>3, Row, PassedBefore
<1> QED BY <1>1, <1>3, <1>4, <1>5, <1>6, <1>7, Row, Zenon

-----------------------------------------------------------------------------
(* What a step that keeps the command line keeps.                            *)

LEMMA SameLine ==
  ASSUME UNCHANGED <<argv, values>>
  PROVE  /\ flags' = flags /\ dash' = dash /\ spec' = spec /\ handler' = handler
         /\ isCommand => isCommand'
         /\ resolveActionInvocation => resolveActionInvocation'
         /\ (Asked => dryRun) => (Asked' => dryRun')
         /\ dryRun' => dryRun
<1>1. flags' = flags /\ dash' = dash /\ spec' = spec
  BY DEF flags, dash, spec
<1>2. handler' = handler
  BY <1>1 DEF handler
<1>3. isCommand => isCommand'
  BY DEF isCommand
<1>4. dryRun <=> dryRun'
  BY <1>1 DEF dryRun
<1>5. resolveActionInvocation => resolveActionInvocation'
  BY <1>1, <1>4, Zenon DEF resolveActionInvocation
<1>6. Asked' => Asked
  BY DEF Asked
<1> QED BY <1>1, <1>2, <1>3, <1>4, <1>5, <1>6, Zenon

LEMMA StillAccepted ==
  ASSUME UNCHANGED <<argv, values, allowed>>, Accepted
  PROVE  Accepted'
<1>1. spec' = spec /\ (dryRun' <=> dryRun)
  BY SameLine DEF dryRun, flags
<1>2. checkDestructiveEnvGate(allowed) => checkDestructiveEnvGate(allowed)'
  BY <1>1, Zenon DEF checkDestructiveEnvGate
<1> QED BY <1>2, SameLine, Zenon DEF Accepted

(* A step that is done is passed.                                            *)
LEMMA SameStep ==
  ASSUME UNCHANGED <<argv, values, step>>
  PROVE  Passed' = Passed /\ Facing' = Facing
<1>1. handler' = handler
  BY SameLine
<1> QED BY <1>1 DEF Passed, Facing

LEMMA NextStep ==
  ASSUME UNCHANGED <<argv, values>>, step \in Nat, step' = step + 1,
         Facing # "nothing", Len(handler.steps) \in Nat
  PROVE  Passed' = Passed \cup {Facing} /\ step' <= Len(handler'.steps)
<1>1. handler' = handler
  BY SameLine
<1>2. step < Len(handler.steps) /\ Facing = handler.steps[step + 1]
  BY DEF Facing
<1>3. 1 .. (step + 1) = 1 .. step \cup {step + 1}
  OBVIOUS
<1>4. Passed' = {handler.steps[i] : i \in 1 .. (step + 1)}
  BY <1>1 DEF Passed
<1> QED BY <1>1, <1>2, <1>3, <1>4 DEF Passed

-----------------------------------------------------------------------------
(* Arguments and environment: nothing has been touched yet.                  *)

LEMMA NothingPassed ==
  ASSUME step = 0
  PROVE  Passed = {}
BY DEF Passed

LEMMA InitHolds ==
  ASSUME Init
  PROVE  IInv
<1>1. Pristine
  BY DEF Init, Pristine, Untaken
<1>2. Parts \in Nat /\ 0 \in 0 .. Parts
  BY PartsAssumption
<1>3. TypeOK
  <2>1. /\ argv \in Invocations /\ at = "argv" /\ step = 0
        /\ values = [supplied |-> {}, dash |-> {}] /\ allowed = "unread" /\ answer = "none"
        /\ sent = Nothing /\ record = "none" /\ code = -1
    BY DEF Init
  <2>2. strict \in BOOLEAN /\ dispatched \in BOOLEAN
    BY DEF Init
  <2>3. stdin \in Pipes
    BY <1>2 DEF Init, Pipes
  <2>4. read \in Readers
    BY <1>2 DEF Init, Readers
  <2>5. values \in Values
    BY <2>1 DEF Values
  <2> QED BY <2>1, <2>2, <2>3, <2>4, <2>5 DEF TypeOK, Points
<1>4. Stages
  BY <1>1 DEF Init, Stages
<1>5. Order
  BY NothingPassed DEF Init, Order
<1>6. Request /\ Reader /\ Records
  BY DEF Init, Request, Reader, Records
<1>7. Input
  BY DEF Init, Input
<1> QED BY <1>3, <1>4, <1>5, <1>6, <1>7 DEF IInv

LEMMA EarlyStep ==
  ASSUME IInv, at \in {"argv", "invocation", "environment"}, UNCHANGED Untouched,
         values' \in Values,
         strict' \in BOOLEAN, allowed' \in {"unread", "yes", "no"},
         \/ at' = "ended" /\ code' \in {0, 1, 2}
         \/ at' = "invocation" /\ code' = code /\ isCommand' /\ (Asked' => dryRun')
         \/ /\ at' = "environment" /\ code' = code /\ isCommand' /\ (Asked' => dryRun')
            /\ resolveActionInvocation'
         \/ at' = "key" /\ code' = code /\ Accepted'
  PROVE  IInv'
<1>1. Pristine /\ code = -1
  BY DEF IInv, Stages
<1>2. Pristine'
  BY <1>1 DEF Pristine, Untaken, Untouched, Nothing
<1>3. step' = 0 /\ sent' = Nothing /\ dispatched' = FALSE /\ read'.by = {} /\ record' = "none"
      /\ UNCHANGED <<argv, stdin, read, answer>>
  BY <1>1 DEF Pristine, Untaken, Untouched
<1>4. at' \in {"invocation", "environment", "key", "ended"}
  OBVIOUS
<1>5. at' = "ended" => code' \in {0, 1, 2}
  OBVIOUS
<1>6. at' # "ended" => code' = -1
  BY <1>1
<1>7. TypeOK'
  <2>1. at' \in Points
    BY <1>4 DEF Points
  <2>2. code' \in ExitCodes \cup {-1}
    BY <1>4, <1>5, <1>6 DEF ExitCodes
  <2>3. step' \in Nat /\ step' = 0
    BY <1>3
  <2>4. TypeOK
    BY DEF IInv
  <2>5. /\ argv' \in Invocations
        /\ answer' \in {"none", "valid", "mismatch", "failed"}
        /\ stdin' \in Pipes
        /\ read' \in Readers
    BY <1>3, <2>4 DEF TypeOK
  <2>6. dispatched' \in BOOLEAN
    BY <2>4 DEF TypeOK, Untouched
  <2> QED BY <1>3, <2>1, <2>2, <2>3, <2>5, <2>6, Zenon DEF TypeOK
<1>8. Stages'
  <2>1. Untaken'
    BY <1>2 DEF Pristine
  <2>2. (at' \in {"invocation", "environment"} => isCommand' /\ (Asked' => dryRun'))
        /\ (at' = "environment" => resolveActionInvocation')
        /\ (at' = "key" => Accepted')
    OBVIOUS
  <2>3. code' = -1 <=> at' # "ended"
    BY <1>5, <1>6
  <2> QED BY <1>2, <1>3, <1>4, <2>1, <2>2, <2>3 DEF Stages
<1>9. Order'
  <2>1. Passed' = {}
    BY <1>3, NothingPassed DEF Passed
  <2>2. step' = 0
    BY <1>3
  <2> QED BY <2>1, <2>2, <1>4, Zenon DEF Order
<1>10. Request' /\ Reader'
  BY <1>3, <1>4 DEF Request, Reader, Nothing
<1>11. Input'
  BY <1>3 DEF IInv, Input
<1>12. Records'
  BY <1>3 DEF Records
<1> QED BY <1>7, <1>8, <1>9, <1>10, <1>11, <1>12 DEF IInv

LEMMA ParseArgumentsKeeps ==
  ASSUME IInv, ParseArguments
  PROVE  IInv'
<1> DEFINE options == parseCliArgv(argv.tokens)
           names == {options[i].name : i \in DOMAIN options}
<1>1. at = "argv" /\ UNCHANGED <<allowed, strict>> /\ UNCHANGED Untouched
  BY DEF ParseArguments
<1>2. /\ values'.supplied = names \cap KNOWN_FLAGS
      /\ values' \in Values
  BY DEF ParseArguments, Values
<1>3. \/ at' = "ended" /\ code' \in {0, 1}
      \/ /\ at' = "invocation" /\ code' = code /\ isCommand
         /\ validateSuppliedFlagTypes(options)
  BY DEF ParseArguments, Exit
<1>4. ASSUME validateSuppliedFlagTypes(options), Asked'
      PROVE  dryRun'
  <2>1. argv' = argv
    BY <1>1 DEF Untouched
  <2>2. PICK j \in DOMAIN argv.tokens : argv.tokens[j] = Flag("dry-run")
    BY <1>4, <2>1 DEF Asked
  <2>3. argv \in Invocations
    BY DEF IInv, TypeOK
  <2>4. argv.tokens \in Seq(Range(argv.tokens))
    BY <2>3, InvocationsAssumption
  <2>5. \E p \in DOMAIN options : options[p].name = "dry-run"
    BY <1>4, <2>2, <2>4, DryRunIsSeen
  <2>6. "dry-run" \in KNOWN_FLAGS
    BY DEF KNOWN_FLAGS, BooleanFlags
  <2> HIDE DEF options
  <2>7. "dry-run" \in values'.supplied
    BY <1>2, <2>5, <2>6
  <2> QED BY <2>7 DEF dryRun, flags
<1>5. isCommand => isCommand'
  BY <1>1 DEF isCommand, Untouched
<1>6. strict' \in BOOLEAN /\ allowed' \in {"unread", "yes", "no"}
  BY <1>1 DEF IInv, TypeOK
<1> HIDE DEF options
<1> QED BY <1>1, <1>2, <1>3, <1>4, <1>5, <1>6, EarlyStep

LEMMA ResolveInvocationKeeps ==
  ASSUME IInv, ResolveInvocation
  PROVE  IInv'
<1>1. at = "invocation" /\ UNCHANGED Settled /\ UNCHANGED Untouched
  BY DEF ResolveInvocation
<1>2. \/ at' = "ended" /\ code' = 1
      \/ at' = "environment" /\ code' = code /\ resolveActionInvocation
  BY DEF ResolveInvocation, Exit
<1>3. isCommand /\ (Asked => dryRun)
  BY <1>1 DEF IInv, Stages
<1>4. isCommand' /\ (Asked' => dryRun') /\ (resolveActionInvocation => resolveActionInvocation')
  BY <1>1, <1>3, SameLine DEF Settled, Untouched
<1>5. /\ values' \in Values
      /\ strict' \in BOOLEAN /\ allowed' \in {"unread", "yes", "no"}
  BY <1>1 DEF IInv, TypeOK, Settled
<1> QED BY <1>1, <1>2, <1>4, <1>5, EarlyStep

LEMMA RefuseEnvironmentKeeps ==
  ASSUME IInv, RefuseEnvironment
  PROVE  IInv'
<1>1. at = "environment" /\ UNCHANGED Settled /\ UNCHANGED Untouched /\ at' = "ended" /\ code' = 1
  BY DEF RefuseEnvironment, Exit
<1>2. /\ values' \in Values
      /\ strict' \in BOOLEAN /\ allowed' \in {"unread", "yes", "no"}
  BY <1>1 DEF IInv, TypeOK, Settled
<1> QED BY <1>1, <1>2, EarlyStep

LEMMA CheckEnvironmentKeeps ==
  ASSUME IInv, CheckEnvironment
  PROVE  IInv'
<1>1. at = "environment" /\ values' = values /\ UNCHANGED Untouched
  BY DEF CheckEnvironment
<1>2. PICK value \in {"yes", "no"} :
        /\ allowed' = value
        /\ \/ at' = "ended" /\ code' \in {1, 2}
           \/ at' = "key" /\ code' = code /\ checkDestructiveEnvGate(value)
  BY DEF CheckEnvironment, Exit
<1>3. strict' \in BOOLEAN
  <2>1. ("strict-responses" \in flags) \in BOOLEAN /\ TRUE \in BOOLEAN
    OBVIOUS
  <2>2. strict' = ("strict-responses" \in flags) \/ strict' = TRUE
    BY DEF CheckEnvironment
  <2> QED BY <2>1, <2>2, Zenon
<1>4. isCommand /\ (Asked => dryRun) /\ resolveActionInvocation
  BY <1>1 DEF IInv, Stages
<1>5. UNCHANGED <<argv, values>>
  BY <1>1 DEF Untouched
<1>6. checkDestructiveEnvGate(value) => checkDestructiveEnvGate(allowed)'
  <2>1. spec' = spec /\ (dryRun' <=> dryRun)
    BY <1>5, SameLine DEF dryRun
  <2> QED BY <1>2, <2>1, Zenon DEF checkDestructiveEnvGate
<1>7. checkDestructiveEnvGate(value) => Accepted'
  BY <1>4, <1>5, <1>6, SameLine, Zenon DEF Accepted
<1>8. values' \in Values
  BY <1>1 DEF IInv, TypeOK
<1>9. strict' \in BOOLEAN /\ allowed' \in {"unread", "yes", "no"}
  BY <1>2, <1>3
<1>10. \/ at' = "ended" /\ code' \in {0, 1, 2}
       \/ at' = "key" /\ code' = code /\ Accepted'
  BY <1>2, <1>7
<1> QED BY <1>1, <1>8, <1>9, <1>10, EarlyStep

-----------------------------------------------------------------------------
(* stdin, the credential and the diagnostic file.                            *)

(* Where only what was read changes, everything else stays as it is.         *)
LEMMA OnlyInput ==
  ASSUME IInv, read'.by = read.by,
         UNCHANGED <<argv, values, at, step, allowed, strict, dispatched, sent,
                     answer, record, code>>
  PROVE  Stages' /\ Order' /\ Request' /\ Reader' /\ Records'
<1>1. flags' = flags /\ dash' = dash /\ spec' = spec /\ handler' = handler
  BY SameLine
<1>2. Passed' = Passed /\ Facing' = Facing
  BY SameStep
<1>3. Stages'
  <2>1. /\ isCommand => isCommand'
        /\ resolveActionInvocation => resolveActionInvocation'
        /\ (Asked => dryRun) => (Asked' => dryRun')
    BY SameLine
  <2>2. Accepted => Accepted'
    BY StillAccepted
  <2>3. (Untaken => Untaken') /\ (Pristine => Pristine') /\ (~ Pristine' => ~ Pristine)
    BY DEF Untaken, Pristine, Nothing
  <2>4. Stages
    BY DEF IInv
  <2> QED BY <2>1, <2>2, <2>3, <2>4, Zenon DEF Stages
<1>4. Order'
  BY <1>1, <1>2 DEF IInv, Order, Answered, dryRun
<1>5. Request'
  BY <1>1 DEF IInv, Request, Nothing, dryRun
<1>6. Reader'
  BY <1>1 DEF IInv, Reader, dryRun
<1>7. Records'
  BY <1>1 DEF IInv, Records, dryRun
<1> QED BY <1>3, <1>4, <1>5, <1>6, <1>7

LEMMA TypeKept ==
  ASSUME IInv, UNCHANGED <<argv, values, allowed, strict, step>>,
         at' \in Points, stdin' \in Pipes, read' \in Readers, dispatched' \in BOOLEAN,
         sent' # Nothing => sent'.op \in DOMAIN Client,
         answer' \in {"none", "valid", "mismatch", "failed"},
         record' \in {"none", "reserved", "abandoned", "not_dispatched", "indeterminate"},
         code' \in ExitCodes \cup {-1}
  PROVE  TypeOK'
<1>1. TypeOK
  BY DEF IInv
<1>2. handler' = handler
  BY SameLine
<1>3. step' \in Nat /\ (step' # 0 => step' <= Len(handler'.steps))
  BY <1>1, <1>2 DEF TypeOK
<1>4. argv' \in Invocations /\ values' \in Values /\ allowed' \in {"unread", "yes", "no"}
  BY <1>1 DEF TypeOK
<1>5. strict' \in BOOLEAN
  BY <1>1 DEF TypeOK
<1> QED BY <1>3, <1>4, <1>5, Zenon DEF TypeOK, Nothing

LEMMA Kinds ==
  ASSUME IInv
  PROVE  /\ at \in Points /\ stdin \in Pipes /\ read \in Readers /\ dispatched \in BOOLEAN
         /\ sent # Nothing => sent.op \in DOMAIN Client
         /\ answer \in {"none", "valid", "mismatch", "failed"}
         /\ record \in {"none", "reserved", "abandoned", "not_dispatched", "indeterminate"}
         /\ code \in ExitCodes \cup {-1} /\ step \in Nat
BY Zenon DEF IInv, TypeOK

LEMMA Counted ==
  ASSUME IInv
  PROVE  /\ Parts \in Nat /\ Parts # 0
         /\ stdin.written \in 0 .. Parts /\ stdin.taken \in 0 .. Parts /\ read.got \in 0 .. Parts
BY PartsAssumption DEF IInv, TypeOK, Pipes, Readers

LEMMA Zero ==
  ASSUME IInv
  PROVE  0 \in 0 .. Parts /\ 0 <= stdin.taken
BY Counted

LEMMA WriterWritesKeeps ==
  ASSUME IInv, WriterWrites
  PROVE  IInv'
<1>1. /\ UNCHANGED <<argv, at, step, read, dispatched, sent, answer, record, code>>
      /\ UNCHANGED <<values, allowed, strict>>
      /\ stdin' = [stdin EXCEPT !.written = @ + 1] /\ ~ stdin.closed /\ stdin.written < Parts
  BY DEF WriterWrites, Settled
<1>2. Stages' /\ Order' /\ Request' /\ Reader' /\ Records'
  BY <1>1, OnlyInput
<1>3. /\ stdin \in Pipes
      /\ stdin.written + 1 \in 0 .. Parts
  BY <1>1, Counted, Kinds
<1>4. /\ stdin'.written = stdin.written + 1 /\ stdin'.taken = stdin.taken /\ stdin'.closed = stdin.closed
      /\ stdin' \in Pipes
  BY <1>1, <1>3 DEF Pipes
<1>5. TypeOK'
  BY <1>1, <1>4, Kinds, TypeKept
<1>6. Passed' = Passed
  BY <1>1, SameStep
<1>7. Input'
  BY <1>1, <1>4, <1>6, Counted DEF IInv, Input
<1> QED BY <1>2, <1>5, <1>7 DEF IInv

LEMMA WriterClosesKeeps ==
  ASSUME IInv, WriterCloses
  PROVE  IInv'
<1>1. /\ UNCHANGED <<argv, at, step, read, dispatched, sent, answer, record, code>>
      /\ UNCHANGED <<values, allowed, strict>>
      /\ stdin' = [stdin EXCEPT !.closed = TRUE]
  BY DEF WriterCloses, Settled
<1>2. Stages' /\ Order' /\ Request' /\ Reader' /\ Records'
  BY <1>1, OnlyInput
<1>3. stdin \in Pipes
  BY Kinds
<1>4. /\ stdin'.written = stdin.written /\ stdin'.taken = stdin.taken /\ stdin'.closed
      /\ stdin' \in Pipes
  BY <1>1, <1>3 DEF Pipes
<1>5. TypeOK'
  BY <1>1, <1>4, Kinds, TypeKept
<1>6. Passed' = Passed
  BY <1>1, SameStep
<1>7. Input'
  BY <1>1, <1>4, <1>6 DEF IInv, Input
<1> QED BY <1>2, <1>5, <1>7 DEF IInv

LEMMA ReadEndsKeeps ==
  ASSUME IInv, ReadEnds
  PROVE  IInv'
<1>1. /\ UNCHANGED <<argv, at, step, stdin, dispatched, sent, answer, record, code>>
      /\ UNCHANGED <<values, allowed, strict>>
      /\ read' = [read EXCEPT !.ended = TRUE]
      /\ stdin.taken = stdin.written
      /\ stdin.closed \/ at # "file read"
      /\ at \in {"key read", "body read", "file read"}
  BY DEF ReadEnds, Settled, Reading
<1>2. read \in Readers
  BY Kinds
<1>3. /\ read'.by = read.by /\ read'.got = read.got /\ read'.ended
      /\ read' \in Readers
  BY <1>1, <1>2 DEF Readers
<1>4. Stages' /\ Order' /\ Request' /\ Reader' /\ Records'
  BY <1>1, <1>3, OnlyInput
<1>5. TypeOK'
  BY <1>1, <1>3, Kinds, TypeKept
<1>6. Passed' = Passed
  BY <1>1, SameStep
<1>7. "file" \in read.by => at = "file read"
  <2>1. Accepted
    BY <1>1 DEF IInv, Stages
  <2> QED BY <1>1, <2>1 DEF IInv, Reader, Accepted, resolveActionInvocation
<1>8. Input'
  BY <1>1, <1>3, <1>6, <1>7 DEF IInv, Input
<1> QED BY <1>4, <1>5, <1>8 DEF IInv

(* What becomes of the diagnostic file where a command fails, and where it   *)
(* ends.                                                                     *)
LeftAtFailure == record' = record \/ (record' = "abandoned" /\ ~ dryRun)

LeftAtEnd(written) ==
  /\ record' \in {"none", "abandoned"} \cup written
  /\ record' # "none" => record # "none"
  /\ record' = "not_dispatched" => dispatched = FALSE

(* Where a command stops, it keeps what it has done.                         *)
LEMMA Stops ==
  ASSUME IInv, at \notin {"argv", "invocation", "environment", "ended"},
         UNCHANGED <<argv, values, allowed, strict, step, dispatched, sent>>,
         answer' \in {"none", "valid", "mismatch", "failed"}, at' # "failed" => answer' = answer,
         read'.by = read.by, stdin' \in Pipes, read' \in Readers, Input',
         \/ at' = "failed" /\ UNCHANGED code /\ LeftAtFailure
         \/ /\ at' = "closed" /\ UNCHANGED <<code, record>> /\ dispatched = TRUE
            /\ at # "failed" /\ (dryRun \/ Answered)
         \/ at' = "ended" /\ code' = 0 /\ at = "closed" /\ LeftAtEnd({})
         \/ at' = "ended" /\ code' = 130 /\ LeftAtEnd({})
         \/ at' = "ended" /\ code' = 1 /\ LeftAtEnd({"not_dispatched", "indeterminate"})
  PROVE  IInv'
<1>1. flags' = flags /\ dash' = dash /\ spec' = spec /\ handler' = handler
  BY SameLine
<1>2. Passed' = Passed /\ Facing' = Facing
  BY SameStep
<1>3. Accepted /\ Accepted'
  BY StillAccepted DEF IInv, Stages
<1>4. code = -1 /\ record \in {"none", "reserved", "abandoned"}
  BY DEF IInv, Stages, Records
<1>5. at' \in {"failed", "closed", "ended"} /\ code' \in {-1, 0, 1, 130}
      /\ record' \in {"none", "reserved", "abandoned", "not_dispatched", "indeterminate"}
  BY <1>4 DEF LeftAtFailure, LeftAtEnd
<1>6. TypeOK'
  <2>1. at' \in Points /\ code' \in ExitCodes \cup {-1}
    BY <1>5 DEF Points, ExitCodes
  <2> QED BY <1>5, <2>1, Kinds, TypeKept
<1>7. Stages'
  <2>1. code' = -1 <=> at' # "ended"
    BY <1>4
  <2>2. at' = "closed" => dispatched' = TRUE
    OBVIOUS
  <2>3. /\ at' \notin {"argv", "invocation", "environment"}
        /\ at' \notin {"invocation", "environment"} /\ at' # "environment"
        /\ at' \notin {"key", "key read", "auth", "reserve"} /\ at' # "client"
    BY <1>5
  <2>4. code' # 2
    BY <1>5
  <2>5. at' \in {"handler", "body read", "file read", "waiting", "closed"} => dispatched' = TRUE
    BY <1>5, <2>2
  <2> QED BY <1>3, <2>1, <2>3, <2>5, <2>4, Zenon DEF Stages
<1>8. Order'
  <2>1. dryRun => "preview" \notin Passed
    BY DEF IInv, Order
  <2>2. "confirm" \in Passed => "yes" \in flags
    BY DEF IInv, Order
  <2>3. at' = "closed" => answer' = answer /\ (dryRun \/ Answered)
    OBVIOUS
  <2>4. code' = 0 => answer' = answer /\ (dryRun \/ Answered)
    BY <1>4 DEF IInv, Order
  <2> QED BY <1>1, <1>2, <1>5, <2>1, <2>2, <2>3, <2>4 DEF Order, Answered, dryRun
<1>9. Request'
  BY <1>1 DEF IInv, Request, Nothing, dryRun
<1>10. Reader'
  BY <1>1, <1>5 DEF IInv, Reader, dryRun
<1>11. Records'
  <2>1. (record' # "none" => record # "none") \/ ~ dryRun
    BY DEF LeftAtFailure, LeftAtEnd
  <2>2. record' # "none" => ~ dryRun'
    BY <1>1, <2>1 DEF IInv, Records, dryRun
  <2>3. at' # "ended" => record' \in {"none", "reserved", "abandoned"}
    BY <1>4 DEF LeftAtFailure
  <2>4. record' = "abandoned" => at' \in {"failed", "ended"}
    <3>1. record = "abandoned" => at = "failed"
      BY DEF IInv, Records
    <3> QED BY <1>4, <3>1
  <2>5. record' = "not_dispatched" => dispatched' = FALSE
    BY <1>4 DEF LeftAtFailure, LeftAtEnd
  <2>6. record' \in {"not_dispatched", "indeterminate"} => code' = 1
    BY <1>4 DEF LeftAtFailure, LeftAtEnd
  <2>7. at' = "ended" => record' # "reserved"
    BY DEF LeftAtEnd
  <2> QED BY <2>2, <2>3, <2>4, <2>5, <2>6, <2>7 DEF Records
<1> QED BY <1>6, <1>7, <1>8, <1>9, <1>10, <1>11 DEF IInv

(* Reading stops nowhere in between.                                         *)
LEMMA SameInput ==
  ASSUME IInv, UNCHANGED <<argv, values, step, stdin, read>>, at' \notin {"handler", "waiting"}
  PROVE  Input'
BY SameStep DEF IInv, Input

LEMMA StopsThere ==
  ASSUME IInv, at \notin {"argv", "invocation", "environment", "ended"},
         UNCHANGED <<argv, values, allowed, strict, step, dispatched, sent, answer, stdin, read>>,
         \/ at' = "failed" /\ UNCHANGED code /\ LeftAtFailure
         \/ /\ at' = "closed" /\ UNCHANGED <<code, record>> /\ dispatched = TRUE
            /\ at # "failed" /\ (dryRun \/ Answered)
         \/ at' = "ended" /\ code' = 0 /\ at = "closed" /\ LeftAtEnd({})
         \/ at' = "ended" /\ code' = 130 /\ LeftAtEnd({})
         \/ at' = "ended" /\ code' = 1 /\ LeftAtEnd({"not_dispatched", "indeterminate"})
  PROVE  IInv'
<1>1. at' \notin {"handler", "waiting"}
  OBVIOUS
<1>2. Input'
  BY <1>1, SameInput
<1>3. stdin' \in Pipes /\ read' \in Readers /\ read'.by = read.by
  BY Kinds
<1>4. answer' \in {"none", "valid", "mismatch", "failed"}
  BY Kinds
<1> QED BY <1>2, <1>3, <1>4, Stops

LEMMA ReadPartKeeps ==
  ASSUME IInv, ReadPart
  PROVE  IInv'
<1>1. /\ UNCHANGED <<argv, values, allowed, strict, step, dispatched, sent, answer, record>>
      /\ stdin.taken < stdin.written
      /\ stdin' = [stdin EXCEPT !.taken = @ + 1]
      /\ read' = [read EXCEPT !.got = @ + 1]
      /\ at \in {"key read", "body read", "file read"} /\ ~ read.ended
  BY DEF ReadPart, Settled, Reading
<1>2. \/ UNCHANGED <<at, code>>
      \/ at = "key read" /\ at' = "ended" /\ code' = 1
      \/ at # "key read" /\ at' = "failed" /\ UNCHANGED code
  BY DEF ReadPart, Exit
<1>3. read.got <= stdin.taken
  BY DEF IInv, Input
<1>4. stdin.taken + 1 \in 0 .. Parts /\ read.got + 1 \in 0 .. Parts
      /\ read.got + 1 <= stdin.taken + 1 /\ stdin.taken + 1 <= stdin.written
  <2>1. stdin.taken < stdin.written
    BY <1>1
  <2>2. \A p \in Nat : \A w, t, g \in 0 .. p : t < w /\ g <= t =>
          t + 1 \in 0 .. p /\ g + 1 \in 0 .. p /\ g + 1 <= t + 1 /\ t + 1 <= w
    OBVIOUS
  <2> QED BY <1>3, <2>1, <2>2, Counted
<1>5. /\ stdin' \in Pipes /\ stdin'.taken = stdin.taken + 1 /\ stdin'.written = stdin.written
      /\ stdin'.closed = stdin.closed
  BY <1>1, <1>4, Kinds DEF Pipes
<1>6. /\ read' \in Readers /\ read'.got = read.got + 1 /\ read'.by = read.by
      /\ read'.ended = read.ended
  BY <1>1, <1>4, Kinds DEF Readers
<1>7. read.by # {}
  BY <1>1 DEF IInv, Reader
<1>8. at' \notin {"handler", "waiting"}
  BY <1>1, <1>2
<1>9. Input'
  <2>1. read'.got <= stdin'.taken /\ stdin'.taken <= stdin'.written
    BY <1>4, <1>5, <1>6
  <2>2. "file" \in read'.by => read'.got = stdin'.taken
    BY <1>5, <1>6 DEF IInv, Input
  <2>3. ~ read'.ended
    BY <1>1, <1>6
  <2> QED BY <1>6, <1>7, <1>8, <2>1, <2>2, <2>3 DEF Input
<1>10. CASE UNCHANGED <<at, code>>
  <2>1. Stages' /\ Order' /\ Request' /\ Reader' /\ Records'
    BY <1>1, <1>6, <1>10, OnlyInput
  <2>2. TypeOK'
    BY <1>1, <1>5, <1>6, <1>10, Kinds, TypeKept
  <2> QED BY <1>9, <2>1, <2>2 DEF IInv
<1>11. CASE at = "key read" /\ at' = "ended" /\ code' = 1
  <2>1. record' = "none"
    BY <1>1, <1>11 DEF IInv, Stages
  <2> QED BY <1>1, <1>5, <1>6, <1>9, <1>11, <2>1, Kinds, Stops DEF LeftAtFailure, LeftAtEnd
<1>12. CASE at' = "failed" /\ UNCHANGED code
  BY <1>1, <1>5, <1>6, <1>9, <1>12, Kinds, Stops DEF LeftAtFailure, LeftAtEnd
<1> QED BY <1>2, <1>10, <1>11, <1>12

LEMMA Running ==
  ASSUME IInv, at # "ended"
  PROVE  code = -1 /\ code # 2 /\ code # 0
<1>1. code = -1
  BY Zenon DEF IInv, Stages
<1>2. \A n : n = -1 => n # 2 /\ n # 0
  OBVIOUS
<1> QED BY <1>1, <1>2, Zenon

(* From the key to the handler: nothing is sent and no step is done.         *)
LEMMA Onward ==
  ASSUME IInv, at \in {"key", "key read", "auth", "reserve", "client"},
         UNCHANGED <<argv, values, allowed, strict, step, sent, answer, code, stdin>>,
         at' \in {"key read", "auth", "reserve", "client", "handler"},
         dispatched' \in BOOLEAN,
         at' = "handler" => at = "client" /\ dispatched' = TRUE,
         at' # "handler" => at # "client" /\ dispatched' = dispatched,
         at' \in {"key read", "auth", "reserve"} => record' = record /\ at # "reserve",
         record' \in {"none", "reserved"},
         record' # "none" => ~ dryRun,
         read' \in Readers, read'.by \subseteq {"key"},
         "key" \in read'.by => "api-key-stdin" \in flags,
         at' = "key read" => read'.by = {"key"},
         read'.got <= stdin.taken,
         read'.by = {} => stdin.taken = 0
  PROVE  IInv'
<1>1. flags' = flags /\ dash' = dash /\ spec' = spec /\ handler' = handler
  BY SameLine
<1>2. Passed' = Passed /\ Facing' = Facing
  BY SameStep
<1>3. Accepted'
  BY StillAccepted DEF IInv, Stages
<1>4. Untaken /\ code = -1
  BY DEF IInv, Stages
<1>5. "body" \notin read'.by /\ "file" \notin read'.by
  OBVIOUS
<1>6. Passed' = {}
  BY <1>2, <1>4, NothingPassed DEF Untaken
<1>7. TypeOK'
  <2>1. at' \in Points
    BY DEF Points
  <2> QED BY <2>1, Kinds, TypeKept
<1>8. Stages'
  <2>1. at' # "handler" => Untaken'
    BY <1>4, <1>5 DEF Untaken, Nothing
  <2>2. at' \in {"key", "key read", "auth", "reserve"} => record' = "none"
    BY DEF IInv, Stages
  <2>3. /\ at' \notin {"argv", "invocation", "environment"}
        /\ at' \notin {"invocation", "environment"} /\ at' # "environment"
    OBVIOUS
  <2>4. at' # "ended" /\ code' = code
    OBVIOUS
  <2>5. code' = -1 /\ code' # 2
    BY <2>4, Running, Zenon
  <2>6. /\ at' \in {"handler", "body read", "file read", "waiting", "closed"} => dispatched' = TRUE
        /\ at' \in {"key", "key read", "auth", "reserve"} => Untaken' /\ record' = "none"
        /\ at' = "client" => Untaken'
    BY <2>1, <2>2
  <2> QED BY <1>3, <2>3, <2>6, <2>4, <2>5, Zenon DEF Stages
<1>9. Order'
  <2>1. step' = 0
    BY <1>4 DEF Untaken
  <2>2. step' = 0
    BY <2>1
  <2> QED BY <1>6, <2>2, Zenon DEF Order
<1>10. Request'
  BY <1>4 DEF Untaken, Request, Nothing
<1>11. Reader'
  <2>1. "key" \in read'.by => "api-key-stdin" \in flags'
    BY <1>1
  <2> QED BY <1>5, <2>1 DEF Reader
<1>12. Input'
  <2>1. stdin'.taken <= stdin'.written
    BY DEF IInv, Input
  <2> QED BY <1>5, <2>1 DEF Input
<1>13. Records'
  <2>1. dryRun' => dryRun
    BY SameLine
  <2> QED BY <2>1, Zenon DEF Records
<1> QED BY <1>7, <1>8, <1>9, <1>10, <1>11, <1>12, <1>13 DEF IInv

LEMMA ReadAlready ==
  ASSUME IInv, at \in {"key", "key read", "auth", "reserve", "client"}
  PROVE  /\ read \in Readers /\ read.by \subseteq {"key"}
         /\ "key" \in read.by => "api-key-stdin" \in flags
         /\ read.got <= stdin.taken
         /\ read.by = {} => stdin.taken = 0
<1>1. read \in Readers
  BY Kinds
<1>2. "body" \notin read.by /\ "file" \notin read.by
  BY DEF IInv, Stages, Untaken
<1>3. read.by \subseteq {"key"}
  BY <1>1, <1>2 DEF Readers
<1> QED BY <1>1, <1>3 DEF IInv, Reader, Input

LEMMA TakeKeyKeeps ==
  ASSUME IInv, TakeKey
  PROVE  IInv'
<1>1. /\ at = "key"
      /\ UNCHANGED <<argv, values, allowed, strict, step, stdin, dispatched, sent, answer, record>>
  BY DEF TakeKey, Settled
<1>2. record = "none" /\ read.by = {}
  BY <1>1 DEF IInv, Stages, Reader
<1>3. \/ at' = "auth" /\ UNCHANGED <<read, code>>
      \/ at' = "ended" /\ code' = 1 /\ UNCHANGED read
      \/ /\ at' = "key read" /\ UNCHANGED code /\ "api-key-stdin" \in flags
         /\ read' = [by |-> {"key"}, got |-> 0, ended |-> FALSE]
  BY <1>2 DEF TakeKey, Exit, StartReading
<1>4. CASE at' = "ended" /\ code' = 1 /\ UNCHANGED read
  BY <1>1, <1>2, <1>4, StopsThere DEF LeftAtFailure, LeftAtEnd
<1>5. CASE at' = "auth" /\ UNCHANGED <<read, code>>
  BY <1>1, <1>2, <1>5, Kinds, ReadAlready, Onward
<1>6. CASE /\ at' = "key read" /\ UNCHANGED code /\ "api-key-stdin" \in flags
           /\ read' = [by |-> {"key"}, got |-> 0, ended |-> FALSE]
  <2>1. 0 \in 0 .. Parts /\ 0 <= stdin.taken
    BY Counted
  <2>2. /\ read' \in Readers /\ read'.by = {"key"} /\ read'.got = 0
    BY <1>6, <2>1 DEF Readers
  <2> QED BY <1>1, <1>2, <1>6, <2>1, <2>2, Kinds, Onward
<1> QED BY <1>3, <1>4, <1>5, <1>6

LEMMA KeyReadKeeps ==
  ASSUME IInv, KeyRead
  PROVE  IInv'
<1>1. at = "key read" /\ UNCHANGED Settled /\ UNCHANGED Untouched
  BY DEF KeyRead
<1>2. record = "none"
  BY <1>1 DEF IInv, Stages
<1>3. \/ at' = "ended" /\ code' = 1
      \/ at' = "auth" /\ UNCHANGED code
  BY DEF KeyRead, Exit
<1>4. CASE at' = "ended" /\ code' = 1
  BY <1>1, <1>2, <1>4, StopsThere DEF Settled, Untouched, LeftAtFailure, LeftAtEnd
<1>5. CASE at' = "auth" /\ UNCHANGED code
  BY <1>1, <1>2, <1>5, Kinds, ReadAlready, Onward DEF Settled, Untouched
<1> QED BY <1>3, <1>4, <1>5

LEMMA AuthorizeKeeps ==
  ASSUME IInv, Authorize
  PROVE  IInv'
<1>1. at = "auth" /\ UNCHANGED Settled /\ UNCHANGED Untouched
  BY DEF Authorize
<1>2. record = "none"
  BY <1>1 DEF IInv, Stages
<1>3. \/ at' = "ended" /\ code' = 1
      \/ at' = "reserve" /\ UNCHANGED code
  BY DEF Authorize, Exit
<1>4. CASE at' = "ended" /\ code' = 1
  BY <1>1, <1>2, <1>4, StopsThere DEF Settled, Untouched, LeftAtFailure, LeftAtEnd
<1>5. CASE at' = "reserve" /\ UNCHANGED code
  BY <1>1, <1>2, <1>5, Kinds, ReadAlready, Onward DEF Settled, Untouched
<1> QED BY <1>3, <1>4, <1>5

LEMMA ReserveKeeps ==
  ASSUME IInv, Reserve
  PROVE  IInv'
<1>1. /\ at = "reserve"
      /\ UNCHANGED <<argv, values, allowed, strict, step, stdin, read, dispatched, sent, answer, code>>
  BY DEF Reserve, Settled
<1>2. record = "none"
  BY <1>1 DEF IInv, Stages
<1>3. \/ at' = "client" /\ record' = "none"
      \/ at' = "client" /\ record' = "reserved" /\ ~ dryRun
      \/ at' = "failed" /\ LeftAtFailure
  BY <1>2 DEF Reserve, LeftAtFailure
<1>4. CASE at' = "failed" /\ LeftAtFailure
  BY <1>1, <1>4, StopsThere
<1>5. CASE at' = "client"
  BY <1>1, <1>3, <1>5, Kinds, ReadAlready, Onward
<1> QED BY <1>3, <1>4, <1>5

LEMMA CreateClientKeeps ==
  ASSUME IInv, CreateClient
  PROVE  IInv'
<1>1. /\ at = "client"
      /\ UNCHANGED <<argv, values, allowed, strict, step, stdin, read, sent, answer, record, code>>
  BY DEF CreateClient, Settled
<1>2. \/ at' = "failed" /\ UNCHANGED dispatched
      \/ at' = "handler" /\ dispatched' = TRUE
  BY DEF CreateClient
<1>3. record \in {"none", "reserved"} /\ (record # "none" => ~ dryRun)
  BY <1>1 DEF IInv, Records
<1>4. CASE at' = "failed" /\ UNCHANGED dispatched
  BY <1>1, <1>4, StopsThere DEF LeftAtFailure, LeftAtEnd
<1>5. CASE at' = "handler" /\ dispatched' = TRUE
  BY <1>1, <1>3, <1>5, ReadAlready, Onward
<1> QED BY <1>2, <1>4, <1>5

-----------------------------------------------------------------------------
(* The steps of the handler.                                                 *)

LEMMA Successor ==
  ASSUME NEW n \in Nat
  PROVE  n + 1 \in Nat
OBVIOUS

LEMMA Faces ==
  ASSUME NEW name, Doing(name)
  PROVE  at = "handler" /\ Facing = name
BY DEF Doing, Facing

LEMMA InHandler ==
  ASSUME IInv, at \in {"handler", "body read", "file read", "waiting"}
  PROVE  /\ Accepted /\ code = -1 /\ code # 2 /\ dispatched = TRUE
         /\ step \in Nat /\ Len(handler.steps) \in Nat
         /\ "call" \in Passed => Answered
<1>1. at \notin {"argv", "invocation", "environment", "ended"}
  OBVIOUS
<1>2. Accepted /\ dispatched = TRUE
  BY <1>1, Zenon DEF IInv, Stages
<1>3. code = -1 /\ code # 2
  BY <1>1, Running
<1>4. step \in Nat
  BY Kinds
<1>5. Len(handler.steps) \in Nat
  BY <1>2, <1>4, RowFacts
<1>6. "call" \in Passed => Answered
  BY Zenon DEF IInv, Order
<1> QED BY <1>2, <1>3, <1>4, <1>5, <1>6

(* What Stages asks of a step within the handler.                            *)
LEMMA StagesInHandler ==
  ASSUME IInv, at \in {"handler", "body read", "file read", "waiting"},
         at' \in {"handler", "body read", "file read", "waiting"},
         UNCHANGED <<argv, values, allowed, dispatched, code>>
  PROVE  Stages'
<1>1. Accepted /\ code = -1 /\ code # 2 /\ dispatched = TRUE
  BY InHandler
<1>2. Accepted'
  BY <1>1, StillAccepted
<1>3. /\ at' \notin {"argv", "invocation", "environment"} /\ at' # "ended"
      /\ at' \notin {"invocation", "environment"} /\ at' # "environment"
      /\ at' \notin {"key", "key read", "auth", "reserve"} /\ at' # "client"
  OBVIOUS
<1>4. code' = code
  OBVIOUS
<1>5. dispatched' = TRUE
  BY <1>1
<1> QED BY <1>1, <1>2, <1>3, <1>4, <1>5, Zenon DEF Stages

LEMMA SameRecord ==
  ASSUME IInv, at \notin {"failed", "ended"}, at' # "ended", UNCHANGED <<argv, values, dispatched, record>>
  PROVE  Records'
<1>1. dryRun' => dryRun
  BY SameLine
<1>2. (record # "none" => ~ dryRun) /\ record \in {"none", "reserved"}
  BY Zenon DEF IInv, Records
<1>3. record' = record /\ record \notin {"not_dispatched", "indeterminate", "abandoned"}
  BY <1>2
<1> QED BY <1>1, <1>2, <1>3, Zenon DEF Records

LEMMA Advances ==
  ASSUME IInv, at \in {"handler", "body read", "file read", "waiting"},
         at' = "handler", step' = step + 1, Facing # "nothing",
         UNCHANGED <<argv, values, allowed, strict, stdin, read, sent, dispatched, record, code>>,
         answer' \in {"none", "valid", "mismatch", "failed"},
         Facing = "preview" => ~ dryRun,
         Facing = "confirm" => "yes" \in flags,
         "call" \in Passed \/ Facing = "call" => Answered',
         "body" \in read.by => read.got = Parts,
         "file" \in read.by => read.ended /\ (Facing = "file" \/ "file" \in Passed)
  PROVE  IInv'
<1>1. flags' = flags /\ dash' = dash /\ spec' = spec /\ handler' = handler
  BY SameLine
<1>2. Accepted /\ step \in Nat /\ Len(handler.steps) \in Nat
  BY InHandler
<1>3. Passed' = Passed \cup {Facing} /\ step' <= Len(handler'.steps)
  BY <1>2, NextStep
<1>4. TypeOK'
  <2>1. step' \in Nat
    BY <1>2, Successor, Zenon
  <2>2. at' \in Points
    BY DEF Points
  <2> QED BY <1>3, <2>1, <2>2, Zenon DEF IInv, TypeOK, Nothing
<1>5. Stages'
  BY StagesInHandler
<1>6. Order'
  <2>1. "call" \in Passed' => Answered'
    BY <1>3
  <2>2. dryRun' => "preview" \notin Passed'
    BY <1>1, <1>3 DEF IInv, Order, dryRun
  <2>3. "confirm" \in Passed' => "yes" \in flags'
    BY <1>1, <1>3 DEF IInv, Order
  <2>4. at' # "body read" /\ at' # "file read" /\ at' # "waiting" /\ at' # "closed"
    OBVIOUS
  <2>5. code' # 0
    <3>1. code # 0
      BY Running
    <3> QED BY <3>1
  <2> QED BY <2>1, <2>2, <2>3, <2>4, <2>5, Zenon DEF Order
<1>7. Request'
  BY <1>1 DEF IInv, Request, Nothing, dryRun
<1>8. Reader'
  BY <1>1 DEF IInv, Reader, dryRun
<1>9. Input'
  BY <1>3 DEF IInv, Input
<1>10. Records'
  BY <1>1 DEF IInv, Records, dryRun
<1> QED BY <1>4, <1>5, <1>6, <1>7, <1>8, <1>9, <1>10 DEF IInv

(* A step that calls nobody and reads nothing.                               *)
LEMMA SimpleStep ==
  ASSUME IInv, NEW name \in StepNames \ {"call"}, Doing(name),
         UNCHANGED <<stdin, read, sent, answer>>, UNCHANGED Held,
         \/ Fail
         \/ Finish /\ (dryRun \/ Answered)
         \/ /\ Advance
            /\ name = "preview" => ~ dryRun
            /\ name = "confirm" => "yes" \in flags
  PROVE  IInv'
<1>1. at = "handler" /\ Facing = name
  BY Faces
<1>2. UNCHANGED <<argv, values, allowed, strict, stdin, read, sent, answer, dispatched, record, code>>
  BY DEF Held
<1>3. dispatched = TRUE /\ ("call" \in Passed => Answered)
  BY <1>1, InHandler
<1>4. CASE Fail
  BY <1>1, <1>2, <1>4, StopsThere DEF Fail, LeftAtFailure, LeftAtEnd
<1>5. CASE Finish /\ (dryRun \/ Answered)
  BY <1>1, <1>2, <1>3, <1>5, StopsThere DEF Finish
<1>6. CASE Advance /\ (name = "preview" => ~ dryRun) /\ (name = "confirm" => "yes" \in flags)
  <2>1. at' = "handler" /\ step' = step + 1 /\ Facing # "nothing"
    BY <1>1, <1>6 DEF Advance, StepNames
  <2>2. "call" \in Passed \/ Facing = "call" => Answered'
    BY <1>1, <1>2, <1>3 DEF Answered
  <2>3. /\ "body" \in read.by => read.got = Parts
        /\ "file" \in read.by => read.ended /\ "file" \in Passed
    BY <1>1 DEF IInv, Input
  <2>4. answer' \in {"none", "valid", "mismatch", "failed"}
    BY <1>2, Kinds
  <2> QED BY <1>1, <1>2, <1>6, <2>1, <2>2, <2>3, <2>4, Advances
<1> QED BY <1>4, <1>5, <1>6

LEMMA SimpleStepsKeep ==
  ASSUME IInv, ParseIds \/ resolveSoftFlag \/ Preview \/ Confirm \/ resolveOut \/ WriteOut
  PROVE  IInv'
<1>1. CASE ParseIds
  BY <1>1, SimpleStep DEF ParseIds, StepNames
<1>2. CASE resolveSoftFlag
  BY <1>2, SimpleStep DEF resolveSoftFlag, StepNames
<1>3. CASE Preview
  BY <1>3, SimpleStep DEF Preview, StepNames
<1>4. CASE Confirm
  BY <1>4, SimpleStep DEF Confirm, StepNames
<1>5. CASE resolveOut
  BY <1>5, SimpleStep DEF resolveOut, StepNames
<1>6. CASE WriteOut
  BY <1>6, SimpleStep DEF WriteOut, StepNames
<1> QED BY <1>1, <1>2, <1>3, <1>4, <1>5, <1>6

LEMMA OutputKeeps ==
  ASSUME IInv, Output
  PROVE  IInv'
<1>1. Doing("out") /\ Finish /\ UNCHANGED <<stdin, read, sent, answer>> /\ UNCHANGED Held
  BY DEF Output
<1>2. at = "handler" /\ Facing = "out"
  BY <1>1, Faces
<1>3. "call" \in Passed
  BY <1>2, InHandler, RowFacts
<1>4. Answered
  BY <1>2, <1>3, InHandler
<1> QED BY <1>1, <1>4, SimpleStep DEF StepNames

(* Reading a body.                                                           *)
LEMMA resolveBodyKeeps ==
  ASSUME IInv, resolveBody
  PROVE  IInv'
<1>1. PICK name \in {"body", "optional body"} : Doing(name)
  BY DEF resolveBody
<1>2. at = "handler" /\ Facing = name
  BY <1>1, Faces
<1>3. UNCHANGED <<stdin, sent, answer>> /\ UNCHANGED Held
  BY DEF resolveBody
<1>4. CASE bodyInput # {"stdin"}
  <2>1. (Advance \/ Fail) /\ UNCHANGED read
    BY <1>4 DEF resolveBody
  <2>2. name \in StepNames \ {"call"} /\ name # "preview" /\ name # "confirm"
    BY DEF StepNames
  <2> QED BY <1>1, <1>3, <2>1, <2>2, SimpleStep
<1>5. CASE bodyInput = {"stdin"}
  <2>1. /\ at' = "body read" /\ step' = step
        /\ read' = [by |-> read.by \cup {"body"}, got |-> 0, ended |-> FALSE]
    BY <1>3, <1>5 DEF resolveBody, StartReading
  <2>2. UNCHANGED <<argv, values, allowed, strict, stdin, sent, answer, dispatched, record, code>>
    BY <1>3 DEF Held
  <2>3. "api-key-stdin" \notin flags /\ ~ spec.fileInput
    BY <1>5 DEF bodyInput
  <2>4. Accepted
    BY <1>2, InHandler
  <2>5. "file" \notin read.by
    BY <2>3, <2>4 DEF IInv, Reader, Accepted, resolveActionInvocation
  <2>6. flags' = flags /\ dash' = dash /\ spec' = spec /\ handler' = handler
    BY <2>1, <2>2, SameLine
  <2>7. Passed' = Passed /\ Facing' = Facing
    BY <2>1, <2>2, SameStep
  <2>8. /\ read'.by = read.by \cup {"body"} /\ read'.got = 0 /\ read'.ended = FALSE
        /\ read' \in Readers
    BY <2>1, Kinds, Zero DEF Readers
  <2>9. TypeOK'
    <3>1. at' \in Points
      BY <2>1 DEF Points
    <3> QED BY <2>1, <2>8, <3>1, <2>2, Kinds, TypeKept
  <2>10. Stages'
    BY <1>2, <2>1, <2>2, StagesInHandler
  <2>11. Order'
    <3>1. Facing' \in {"body", "optional body"}
      BY <1>2, <2>7
    <3> QED BY <1>2, <2>1, <2>6, <2>7, <3>1, <2>2 DEF IInv, Order, Answered, dryRun
  <2>12. Request'
    BY <2>6, <2>2 DEF IInv, Request, Nothing, dryRun
  <2>13. Reader'
    BY <2>1, <2>3, <2>5, <2>6, <2>8, <2>2 DEF IInv, Reader, dryRun
  <2>14. Input'
    <3>1. 0 <= stdin.taken
      BY Zero
    <3> QED BY <2>1, <2>2, <2>5, <2>8, <3>1 DEF IInv, Input
  <2>15. Records'
    BY <1>2, <2>1, <2>2, SameRecord
  <2> QED BY <2>9, <2>10, <2>11, <2>12, <2>13, <2>14, <2>15 DEF IInv
<1> QED BY <1>4, <1>5

LEMMA BodyReadKeeps ==
  ASSUME IInv, BodyRead
  PROVE  IInv'
<1>1. /\ at = "body read"
      /\ UNCHANGED <<argv, values, allowed, strict, stdin, read, sent, answer, dispatched, record, code>>
  BY DEF BodyRead, Held
<1>2. Facing \in {"body", "optional body"} /\ "body" \in read.by
  BY <1>1 DEF IInv, Order, Reader
<1>3. CASE Fail
  BY <1>1, <1>3, StopsThere DEF Fail, LeftAtFailure, LeftAtEnd
<1>4. CASE Advance /\ read.got = Parts
  <2>1. "file" \notin read.by
    BY <1>1, <1>2, InHandler DEF IInv, Reader, Accepted, resolveActionInvocation
  <2>2. at' = "handler" /\ step' = step + 1
    BY <1>4 DEF Advance
  <2>3. Facing # "nothing" /\ Facing # "preview" /\ Facing # "confirm" /\ Facing # "call"
    BY <1>2
  <2>4. "call" \in Passed => Answered'
    BY <1>1, InHandler DEF Answered
  <2>5. answer' \in {"none", "valid", "mismatch", "failed"}
    BY <1>1, Kinds
  <2> QED BY <1>1, <1>4, <2>1, <2>2, <2>3, <2>4, <2>5, Advances
<1> QED BY <1>3, <1>4 DEF BodyRead, isJson

(* Reading a file.                                                           *)
LEMMA resolveFileKeeps ==
  ASSUME IInv, resolveFile
  PROVE  IInv'
<1>1. Doing("file") /\ UNCHANGED <<stdin, sent, answer>> /\ UNCHANGED Held
  BY DEF resolveFile
<1>2. at = "handler" /\ Facing = "file"
  BY <1>1, Faces
<1>3. CASE (Advance \/ Fail) /\ UNCHANGED read
  BY <1>1, <1>3, SimpleStep DEF StepNames
<1>4. CASE /\ at' = "file read" /\ StartReading("file") /\ UNCHANGED step
           /\ "file" \in dash /\ ~ dryRun
  <2>1. /\ at' = "file read" /\ step' = step
        /\ read' = [by |-> read.by \cup {"file"}, got |-> 0, ended |-> FALSE]
    BY <1>4 DEF StartReading
  <2>2. UNCHANGED <<argv, values, allowed, strict, stdin, sent, answer, dispatched, record, code>>
    BY <1>1 DEF Held
  <2>3. Accepted /\ step \in Nat
    BY <1>2, InHandler
  <2>4. "api-key-stdin" \notin flags /\ spec.fileInput
    BY <1>4, <2>3 DEF Accepted, resolveActionInvocation
  <2>5. "file" \notin Passed
    BY <1>2, <2>3, RowFacts
  <2>6. read.by = {}
    <3>1. "key" \notin read.by /\ "body" \notin read.by /\ "file" \notin read.by
      BY <1>2, <2>4, <2>5 DEF IInv, Reader, Input
    <3> QED BY <3>1, Kinds DEF Readers
  <2>7. flags' = flags /\ dash' = dash /\ spec' = spec /\ handler' = handler
    BY <2>1, <2>2, SameLine
  <2>8. Passed' = Passed /\ Facing' = Facing
    BY <2>1, <2>2, SameStep
  <2>9. /\ read'.by = {"file"} /\ read'.got = 0 /\ read'.ended = FALSE
        /\ read' \in Readers
    BY <2>1, <2>6, Kinds, Zero DEF Readers
  <2>10. TypeOK'
    <3>1. at' \in Points
      BY <2>1 DEF Points
    <3> QED BY <2>1, <2>9, <3>1, <2>2, Kinds, TypeKept
  <2>11. Stages'
    BY <1>2, <2>1, <2>2, StagesInHandler
  <2>12. Order'
    BY <1>2, <2>1, <2>7, <2>8, <2>2 DEF IInv, Order, Answered, dryRun
  <2>13. Request'
    BY <2>7, <2>2 DEF IInv, Request, Nothing, dryRun
  <2>14. Reader'
    BY <1>4, <2>1, <2>7, <2>9, <2>2 DEF Reader, dryRun
  <2>15. Input'
    <3>1. stdin.taken = 0 /\ stdin.taken <= stdin.written
      BY <2>6 DEF IInv, Input
    <3>2. 0 <= 0
      OBVIOUS
    <3> QED BY <2>1, <2>2, <2>9, <3>1, <3>2 DEF Input
  <2>16. Records'
    BY <1>2, <2>1, <2>2, SameRecord
  <2> QED BY <2>10, <2>11, <2>12, <2>13, <2>14, <2>15, <2>16 DEF IInv
<1> QED BY <1>3, <1>4 DEF resolveFile

LEMMA FileReadKeeps ==
  ASSUME IInv, FileRead
  PROVE  IInv'
<1>1. /\ at = "file read"
      /\ UNCHANGED <<argv, values, allowed, strict, stdin, read, sent, answer, dispatched, record, code>>
  BY DEF FileRead, Held
<1>2. Facing = "file" /\ "file" \in read.by
  BY <1>1 DEF IInv, Order, Reader
<1>3. CASE Fail
  BY <1>1, <1>3, StopsThere DEF Fail, LeftAtFailure, LeftAtEnd
<1>4. CASE Advance /\ read.ended
  <2>1. "body" \notin read.by
    BY <1>1, <1>2, InHandler DEF IInv, Reader, Accepted, resolveActionInvocation
  <2>2. at' = "handler" /\ step' = step + 1
    BY <1>4 DEF Advance
  <2>3. Facing # "nothing" /\ Facing # "preview" /\ Facing # "confirm" /\ Facing # "call"
    BY <1>2
  <2>4. "call" \in Passed => Answered'
    BY <1>1, InHandler DEF Answered
  <2>5. answer' \in {"none", "valid", "mismatch", "failed"}
    BY <1>1, Kinds
  <2> QED BY <1>1, <1>2, <1>4, <2>1, <2>2, <2>3, <2>4, <2>5, Advances
<1> QED BY <1>3, <1>4 DEF FileRead

(* The request leaves when its steps are behind it.                          *)
LEMMA CallKeeps ==
  ASSUME IInv, Call
  PROVE  IInv'
<1>1. Doing("call") /\ UNCHANGED <<stdin, read, answer>> /\ UNCHANGED Held
  BY DEF Call
<1>2. at = "handler" /\ Facing = "call"
  BY <1>1, Faces
<1>3. UNCHANGED <<argv, values, allowed, strict, stdin, read, answer, dispatched, record, code>>
  BY <1>1 DEF Held
<1>4. CASE Fail /\ UNCHANGED sent
  BY <1>2, <1>3, <1>4, StopsThere DEF Fail, LeftAtFailure, LeftAtEnd
<1>5. CASE /\ at' = "waiting" /\ step' = step
           /\ sent' = [op |-> handler.op, ids |-> handler.ids,
                       soft |-> "soft" \in flags /\ spec.softMode = "optional",
                       whole |-> /\ "body" \in read.by => read.got = Parts
                                 /\ "file" \in read.by =>
                                      stdin.closed /\ read.got = stdin.written]
  <2>1. /\ at' = "waiting" /\ step' = step
    BY <1>5
  <2>2. /\ sent'.op = handler.op /\ sent'.ids = handler.ids
        /\ sent'.soft <=> ("soft" \in flags /\ spec.softMode = "optional")
        /\ sent'.whole <=> /\ "body" \in read.by => read.got = Parts
                           /\ "file" \in read.by => stdin.closed /\ read.got = stdin.written
    BY <1>5
  <2>3. Accepted /\ step \in Nat /\ dispatched = TRUE
    BY <1>2, InHandler
  <2>4. /\ handler.op \in DOMAIN Client
        /\ dryRun => "preview" \in Passed
        /\ Removes(Client[handler.op]) => "confirm" \in Passed
    BY <1>2, <2>3, RowFacts
  <2>5. ~ dryRun /\ ("confirm" \in Passed => "yes" \in flags)
    BY <2>4, Zenon DEF IInv, Order
  <2>6. /\ "body" \in read.by => read.got = Parts
        /\ "file" \in read.by => stdin.closed /\ read.got = stdin.written
    BY <1>2 DEF IInv, Input
  <2>7. flags' = flags /\ dash' = dash /\ spec' = spec /\ handler' = handler
    BY <1>3, SameLine
  <2>8. Passed' = Passed /\ Facing' = Facing
    BY <1>3, <2>1, SameStep
  <2>9. ~ dryRun'
    BY <2>5, <2>7, Zenon DEF dryRun
  <2>10. TypeOK'
    <3>1. at' \in Points
      BY <2>1 DEF Points
    <3>2. sent'.op \in DOMAIN Client
      BY <2>2, <2>4
    <3> QED BY <1>3, <2>1, <3>1, <3>2, Kinds, TypeKept
  <2>11. Stages'
    BY <1>2, <1>3, <2>1, StagesInHandler
  <2>12. Order'
    BY <1>2, <1>3, <2>1, <2>7, <2>8 DEF IInv, Order, Answered, dryRun
  <2>13. Request'
    <3>1. dispatched' = TRUE
      BY <1>3, <2>3
    <3>2. Removes(Client[handler'.op]) => "yes" \in flags'
      BY <2>4, <2>5, <2>7
    <3>3. sent'.op = handler'.op /\ sent'.ids = handler'.ids /\ sent'.whole
      BY <2>2, <2>6, <2>7
    <3>4. sent'.soft <=> ("soft" \in flags' /\ spec'.softMode = "optional")
      BY <2>2, <2>7
    <3> QED BY <2>9, <3>1, <3>2, <3>3, <3>4, Zenon DEF Request
  <2>14. Reader'
    BY <1>2, <1>3, <2>1, <2>7 DEF IInv, Reader, dryRun
  <2>15. Input'
    BY <1>2, <1>3, <2>1, <2>8 DEF IInv, Input
  <2>16. Records'
    BY <1>2, <1>3, <2>1, SameRecord
  <2> QED BY <2>10, <2>11, <2>12, <2>13, <2>14, <2>15, <2>16 DEF IInv
<1> QED BY <1>4, <1>5 DEF Call

LEMMA AnswerKeeps ==
  ASSUME IInv, Answer
  PROVE  IInv'
<1>1. at = "waiting" /\ UNCHANGED <<stdin, read, sent>> /\ UNCHANGED Held
  BY DEF Answer
<1>2. UNCHANGED <<argv, values, allowed, strict, stdin, read, sent, dispatched, record, code>>
  BY <1>1 DEF Held
<1>3. Facing = "call"
  BY <1>1 DEF IInv, Order
<1>4. answer' \in {"valid", "mismatch", "failed"}
  BY DEF Answer
<1>5. /\ "body" \in read.by => read.got = Parts
      /\ "file" \in read.by => read.ended /\ "file" \in Passed
  BY <1>1 DEF IInv, Input
<1>6. CASE Fail
  <2>1. at' = "failed" /\ step' = step
    BY <1>6 DEF Fail
  <2>2. Input'
    BY <1>2, <2>1, SameInput
  <2> QED BY <1>1, <1>2, <1>4, <2>1, <2>2, Kinds, Stops DEF LeftAtFailure, LeftAtEnd
<1>7. CASE Advance /\ (answer' = "valid" \/ (answer' = "mismatch" /\ strict = FALSE))
  <2>1. Answered'
    BY <1>2, <1>7 DEF Answered
  <2>2. at' = "handler" /\ step' = step + 1
    BY <1>7 DEF Advance
  <2> QED BY <1>1, <1>2, <1>3, <1>4, <1>5, <2>1, <2>2, Advances
<1>8. CASE answer' = "valid" /\ at' = "handler" /\ step' = step
  <2>1. Answered'
    BY <1>8 DEF Answered
  <2>2. flags' = flags /\ dash' = dash /\ spec' = spec /\ handler' = handler
    BY <1>2, SameLine
  <2>3. Passed' = Passed /\ Facing' = Facing
    BY <1>2, <1>8, SameStep
  <2>4. TypeOK'
    <3>1. at' \in Points
      BY <1>8 DEF Points
    <3> QED BY <1>2, <1>4, <1>8, <3>1, Kinds, TypeKept
  <2>5. Stages'
    BY <1>1, <1>2, <1>8, StagesInHandler
  <2>6. Order'
    <3>1. code' # 0
      BY <1>1, <1>2, Running
    <3>2. dryRun' => "preview" \notin Passed'
      BY <2>2, <2>3 DEF IInv, Order, dryRun
    <3>3. "confirm" \in Passed' => "yes" \in flags'
      BY <2>2, <2>3 DEF IInv, Order
    <3>4. at' # "body read" /\ at' # "file read" /\ at' # "waiting" /\ at' # "closed"
      BY <1>8
    <3> QED BY <2>1, <3>1, <3>2, <3>3, <3>4, Zenon DEF Order
  <2>7. Request'
    BY <1>2, <2>2 DEF IInv, Request, Nothing, dryRun
  <2>8. Reader'
    BY <1>2, <1>8, <2>2 DEF IInv, Reader, dryRun
  <2>9. Input'
    BY <1>1, <1>2, <1>8, <2>3 DEF IInv, Input
  <2>10. Records'
    BY <1>1, <1>2, <1>8, SameRecord
  <2> QED BY <2>4, <2>5, <2>6, <2>7, <2>8, <2>9, <2>10 DEF IInv
<1> QED BY <1>6, <1>7, <1>8, Kinds DEF Answer, onSchemaMismatch, IInv, TypeOK

-----------------------------------------------------------------------------
(* The end, and every step.                                                  *)

(* finish() leaves no more than it found.                                    *)
LEMMA Finished ==
  ASSUME IInv, at # "ended", record' \in finishDiagnostic
  PROVE  LeftAtEnd({})
<1>1. record \in {"none", "reserved", "abandoned"}
  BY DEF IInv, Records
<1> QED BY <1>1 DEF finishDiagnostic, LeftAtEnd

LEMMA EndingsKeep ==
  ASSUME IInv, Succeed \/ GiveUp \/ Interrupt
  PROVE  IInv'
<1>1. CASE Succeed
  <2>1. /\ at = "closed" /\ at' = "ended" /\ code' = 0 /\ record' \in finishDiagnostic
        /\ UNCHANGED <<argv, values, allowed, strict, step, dispatched, sent, answer, stdin, read>>
    BY <1>1 DEF Succeed, Exit, Settled
  <2> QED BY <2>1, Finished, StopsThere
<1>2. CASE Interrupt
  <2>1. /\ at \in {"waiting", "file read"} /\ at' = "ended" /\ code' = 130
        /\ record' \in finishDiagnostic
        /\ UNCHANGED <<argv, values, allowed, strict, step, dispatched, sent, answer, stdin, read>>
    BY <1>2 DEF Interrupt, Exit, Settled
  <2> QED BY <2>1, Finished, StopsThere
<1>3. CASE GiveUp
  <2>1. /\ at = "failed" /\ at' = "ended" /\ code' = 1
        /\ record' \in finishDiagnostic \/ (record = "reserved" /\ record' = createDiagnosticRecord)
        /\ UNCHANGED <<argv, values, allowed, strict, step, dispatched, sent, answer, stdin, read>>
    BY <1>3 DEF GiveUp, Exit, Settled
  <2>2. dispatched \in BOOLEAN
    BY Kinds
  <2>3. /\ createDiagnosticRecord \in {"not_dispatched", "indeterminate"}
        /\ createDiagnosticRecord = "not_dispatched" => dispatched = FALSE
    BY <2>2 DEF createDiagnosticRecord
  <2>4. LeftAtEnd({"not_dispatched", "indeterminate"})
    BY <2>1, <2>3, Finished DEF LeftAtEnd
  <2> QED BY <2>1, <2>4, StopsThere
<1> QED BY <1>1, <1>2, <1>3

LEMMA StutterKeeps ==
  ASSUME IInv, UNCHANGED vars
  PROVE  IInv'
<1>1. UNCHANGED <<argv, values, at, step, allowed, strict, stdin, read, dispatched, sent,
                  answer, record, code>>
  BY DEF vars
<1>2. Stages' /\ Order' /\ Request' /\ Reader' /\ Records'
  BY <1>1, OnlyInput
<1>3. TypeOK'
  BY <1>1, Kinds, TypeKept
<1>4. Input'
  BY <1>1, SameStep DEF IInv, Input
<1> QED BY <1>2, <1>3, <1>4 DEF IInv

LEMMA StepKeeps ==
  ASSUME IInv, [Next]_vars
  PROVE  IInv'
<1>1. CASE Program
  <2>1. CASE ParseArguments \/ ResolveInvocation \/ RefuseEnvironment \/ CheckEnvironment
    BY <2>1, ParseArgumentsKeeps, ResolveInvocationKeeps, RefuseEnvironmentKeeps,
       CheckEnvironmentKeeps
  <2>2. CASE TakeKey \/ KeyRead \/ Authorize \/ Reserve \/ CreateClient
    BY <2>2, TakeKeyKeeps, KeyReadKeeps, AuthorizeKeeps, ReserveKeeps, CreateClientKeeps
  <2>3. CASE ReadPart \/ ReadEnds
    BY <2>3, ReadPartKeeps, ReadEndsKeeps
  <2>4. CASE ParseIds \/ resolveSoftFlag \/ Preview \/ Confirm \/ resolveOut \/ WriteOut
    BY <2>4, SimpleStepsKeep
  <2>5. CASE resolveBody \/ BodyRead \/ resolveFile \/ FileRead
    BY <2>5, resolveBodyKeeps, BodyReadKeeps, resolveFileKeeps, FileReadKeeps
  <2>6. CASE Call \/ Answer \/ Output
    BY <2>6, CallKeeps, AnswerKeeps, OutputKeeps
  <2>7. CASE Succeed \/ GiveUp
    BY <2>7, EndingsKeep
  <2> QED BY <1>1, <2>1, <2>2, <2>3, <2>4, <2>5, <2>6, <2>7 DEF Program
<1>2. CASE WriterWrites \/ WriterCloses
  BY <1>2, WriterWritesKeeps, WriterClosesKeeps
<1>3. CASE Interrupt
  BY <1>3, EndingsKeep
<1>4. CASE UNCHANGED vars
  BY <1>4, StutterKeeps
<1> QED BY <1>1, <1>2, <1>3, <1>4 DEF Next, Done

-----------------------------------------------------------------------------

(* What is granted and what is touched at each point of runCli holds on      *)
(* every line, whoever writes stdin.                                         *)
THEOREM Invariant == Spec => []IInv
<1>1. Init => IInv
  BY InitHolds
<1>2. IInv /\ [Next]_vars => IInv'
  BY StepKeeps
<1> QED BY <1>1, <1>2, PTL DEF Spec

(* Every reachable state has its type; no more is taken from stdin than was  *)
(* written, and no step is done that the handler has not.                    *)
THEOREM TypeCorrect == Spec => []TypeOK
<1>1. IInv => TypeOK
  BY DEF IInv
<1> QED BY <1>1, Invariant, PTL

(* runCli with --dry-run anywhere on the line: nothing is sent, no file is   *)
(* made and no upload taken from the pipe, however the parser reads it.      *)
THEOREM NoTrace == Spec => []DryRunLeavesNoTrace
<1>1. ASSUME IInv PROVE DryRunLeavesNoTrace
  <2>1. SUFFICES ASSUME Asked PROVE sent = Nothing /\ record = "none" /\ "file" \notin read.by
    BY DEF DryRunLeavesNoTrace, Asked
  <2>2. CASE Pristine
    BY <2>2, Zenon DEF Pristine, Untaken
  <2>3. CASE ~ Pristine
    <3>1. dryRun
      BY <1>1, <2>1, <2>3, Zenon DEF IInv, Stages, Accepted
    <3> QED BY <1>1, <3>1, Zenon DEF IInv, Request, Reader, Records
  <2> QED BY <2>2, <2>3
<1> QED BY <1>1, Invariant, PTL

(* Whatever removes something on the server was let through by the gate and  *)
(* by --yes, and a preview is asked for exactly where there is one.          *)
THEOREM Confirmed == Spec => []OnlyConfirmedDestruction
<1>1. ASSUME IInv PROVE OnlyConfirmedDestruction
  <2>1. SUFFICES ASSUME sent # Nothing
                 PROVE  /\ Removes(Client[sent.op]) => allowed = "yes" /\ "yes" \in flags /\ ~ dryRun
                        /\ sent.soft => Client[sent.op].soft /\ "soft" \in flags
                        /\ Client[sent.op].soft /\ "soft" \in flags => sent.soft
    BY Zenon DEF OnlyConfirmedDestruction
  <2>2. Accepted
    BY <1>1, <2>1, Zenon DEF IInv, Stages, Pristine, Untaken
  <2>3. /\ sent.op = handler.op /\ ~ dryRun
        /\ sent.soft <=> ("soft" \in flags /\ spec.softMode = "optional")
        /\ Removes(Client[handler.op]) => "yes" \in flags
    BY <1>1, <2>1, Zenon DEF IInv, Request
  <2>4. /\ Client[handler.op].soft <=> (spec.softMode = "optional")
        /\ Removes(Client[handler.op]) => spec.destructive
    BY <1>1, <2>2, Kinds, RowFacts
  <2>5. spec.destructive /\ ~ dryRun => allowed = "yes"
    BY <2>2, Zenon DEF Accepted, checkDestructiveEnvGate
  <2> QED BY <2>3, <2>4, <2>5, Zenon
<1> QED BY <1>1, Invariant, PTL

(* What the tables say of a command: the method its handler calls is the one *)
(* its row declares, with as many identifiers, and it writes only if the row *)
(* says so.  The run `cli' visits every row; for a proof it is a hypothesis, *)
(* because the names in the rows are put together from strings.              *)
RowsDeclared ==
  \A c \in Actions :
    LET asks == Handlers[c.handler]
        op == Client[asks.op]
    IN  /\ (op.method \o " " \o op.path) = c.apiEndpoint
        /\ asks.ids = op.ids
        /\ op.method = "GET" <=> ~ c.isWrite

LEMMA DeclaredRow ==
  ASSUME RowsDeclared, NEW c, c \in Actions
  PROVE  LET op == Client[Handlers[c.handler].op]
         IN  /\ (op.method \o " " \o op.path) = c.apiEndpoint
             /\ Handlers[c.handler].ids = op.ids
             /\ op.method = "GET" <=> ~ c.isWrite
BY Zenon DEF RowsDeclared

(* No flag, no input and no order of the steps changes which request leaves: *)
(* it is the one declared in the row of the command on the line (dispatch,   *)
(* runCli).                                                                  *)
THEOREM Declared == ASSUME RowsDeclared PROVE Spec => []SentAsDeclared
<1>1. ASSUME IInv, sent # Nothing
      PROVE  LET op == Client[sent.op]
             IN  /\ (op.method \o " " \o op.path) = spec.apiEndpoint
                 /\ sent.ids = op.ids
                 /\ op.method = "GET" <=> ~ spec.isWrite
  <2>1. Accepted
    BY <1>1, Zenon DEF IInv, Stages, Pristine, Untaken
  <2>2. sent.op = handler.op /\ sent.ids = handler.ids
    BY <1>1, Zenon DEF IInv, Request
  <2>3. spec \in Actions
    BY <2>1, SpecIsAction, Zenon DEF Accepted
  <2>4. handler = Handlers[spec.handler]
    BY DEF handler
  <2> HIDE DEF spec, handler
  <2> QED BY <2>2, <2>3, <2>4, DeclaredRow, Zenon
<1>2. IInv => SentAsDeclared
  BY <1>1, Zenon DEF SentAsDeclared
<1> QED BY <1>2, Invariant, PTL

(* stdin has one reader, and a request that takes from it takes all of it.   *)
THEOREM Whole == Spec => []InputIsWhole
<1>1. ASSUME IInv PROVE InputIsWhole
  <2>1. \E who : read.by \subseteq {who}
    <3>1. CASE Pristine
      BY <3>1 DEF Pristine
    <3>2. CASE ~ Pristine
      <4>1. Accepted
        BY <1>1, <3>2, Zenon DEF IInv, Stages
      <4>2. /\ ~ {"key", "body"} \subseteq read.by
            /\ ~ {"key", "file"} \subseteq read.by
            /\ ~ {"body", "file"} \subseteq read.by
        BY <1>1, <4>1 DEF IInv, Reader, Accepted, resolveActionInvocation
      <4>3. read.by \subseteq {"key", "body", "file"}
        BY <1>1, Kinds DEF Readers
      <4> QED BY <4>2, <4>3
    <3> QED BY <3>1, <3>2
  <2>2. PICK who : read.by \subseteq {who}
    BY <2>1
  <2>3. read.by = {} \/ read.by = {who}
    BY <2>2
  <2>4. Cardinality(read.by) \in {0, 1}
    BY <2>3, FS_EmptySet, FS_Singleton
  <2>5. Cardinality(read.by) <= 1
    BY <2>4
  <2>6. sent # Nothing => sent.whole
    BY <1>1, Zenon DEF IInv, Request
  <2> QED BY <2>5, <2>6 DEF InputIsWhole
<1> QED BY <1>1, Invariant, PTL

(* What runCli and withDiagnostics tell of a command is true of what it did. *)
THEOREM Truthful == Spec => []OutcomeIsTruthful
<1>1. ASSUME IInv PROVE OutcomeIsTruthful
  <2>1. code = 0 /\ step # 0 => IF dryRun THEN sent = Nothing ELSE Answered
    BY <1>1, Zenon DEF IInv, Order, Request
  <2>2. code = 2 => sent = Nothing /\ read.by = {} /\ record = "none"
    BY <1>1, Zenon DEF IInv, Stages, Pristine, Untaken
  <2>3. record = "not_dispatched" => sent = Nothing
    BY <1>1 DEF IInv, Records, Request
  <2>4. record \in {"not_dispatched", "indeterminate"} => code = 1
    BY <1>1 DEF IInv, Records
  <2>5. Ended => record # "reserved"
    BY <1>1, Zenon DEF IInv, Records, Ended
  <2> QED BY <2>1, <2>2, <2>3, <2>4, <2>5, Zenon DEF OutcomeIsTruthful, Answered
<1> QED BY <1>1, Invariant, PTL
-------------------------------------------------------------------------------
(* The watch of a run, which the handler of one command is: RunWatch, as a   *)
(* component beside the invocation, with constants and variables of its own. *)
CONSTANTS Counts, Undefined, MaxFailures
VARIABLES args, run, poll, armed, pendingTimer, cancelled, lastSnapshot, stage,
          failure, failures, told

Watch == INSTANCE RunWatch

(* The timer and the poll take turns: one is armed only where no poll is in  *)
(* flight, and its handle is kept, so that onSignal can clear it.  A signal  *)
(* ends the watch in the same turn; the poll it leaves behind is the only    *)
(* one that may be answered after the end.                                   *)
TakesTurns ==
  /\ armed = TRUE => pendingTimer = TRUE
  /\ armed = TRUE => poll.stage = "none"
  /\ stage # "watching" => armed = FALSE
  /\ cancelled = TRUE => stage # "watching"
  /\ stage # "watching" /\ cancelled = FALSE => poll.stage = "none"

WatchIInv ==
  /\ Watch!TypeOK
  /\ TakesTurns
  /\ told = lastSnapshot
  /\ poll.stage = "served" => poll.run \in Watch!Snapshot

LEMMA WatchInitHolds == Watch!WatchAssumption /\ Watch!Init => WatchIInv
<1> SUFFICES ASSUME Watch!WatchAssumption, Watch!Init PROVE WatchIInv
  OBVIOUS
<1>1. MaxFailures \in Nat
  BY DEF Watch!WatchAssumption
<1>2. failures \in 0 .. MaxFailures
  BY <1>1 DEF Watch!Init
<1>3. poll \in [stage : {"none", "asked", "served"}, run : Watch!Snapshot \cup {Undefined}]
  BY DEF Watch!Init, Watch!Asked
<1>4. armed \in BOOLEAN /\ pendingTimer \in BOOLEAN /\ cancelled \in BOOLEAN
  BY Zenon DEF Watch!Init
<1>5. Watch!TypeOK
  BY <1>2, <1>3, <1>4 DEF Watch!Init, Watch!TypeOK
<1>6. QED
  BY <1>5 DEF Watch!Init, WatchIInv, TakesTurns, Watch!Asked

LEMMA WatchNextKeeps ==
  Watch!WatchAssumption /\ WatchIInv /\ [Watch!Next]_(Watch!vars) => WatchIInv'
<1> SUFFICES ASSUME Watch!WatchAssumption, WatchIInv, [Watch!Next]_(Watch!vars)
             PROVE  WatchIInv'
  OBVIOUS
<1> USE DEF WatchIInv, Watch!TypeOK, TakesTurns
<1>1. CASE Watch!RunChanges
  BY <1>1 DEF Watch!RunChanges
<1>2. CASE Watch!Serve
  BY <1>2 DEF Watch!Serve, Watch!answer
<1>3. CASE Watch!Answered
  <2>1. CASE cancelled = TRUE
    BY <1>3, <2>1 DEF Watch!Answered, Watch!Handle, Watch!NoPoll
  <2>2. CASE cancelled = FALSE
    BY <1>3, <2>2 DEF Watch!Answered, Watch!Handle, Watch!NoPoll, Watch!Arm, Watch!differs
  <2>3. QED
    BY <2>1, <2>2
<1>4. CASE Watch!TimerFires
  BY <1>4 DEF Watch!TimerFires, Watch!Asked
<1>5. CASE Watch!Signal
  BY <1>5 DEF Watch!Signal, Watch!ClearPending
<1>6. ASSUME NEW reason \in Watch!Failures, Watch!PollFails(reason) PROVE WatchIInv'
  <2>1. failures' \in 0 .. MaxFailures
    BY <1>6 DEF Watch!PollFails, Watch!WatchAssumption
  <2>2. /\ poll' = Watch!NoPoll /\ poll.stage # "none"
        /\ UNCHANGED <<args, run, cancelled, lastSnapshot, told>>
    BY <1>6 DEF Watch!PollFails
  <2>3. armed = FALSE
    BY <2>2
  <2>4. CASE cancelled /\ UNCHANGED <<armed, pendingTimer, stage, failure>>
    BY <2>1, <2>2, <2>4 DEF Watch!NoPoll
  <2>5. CASE ~ cancelled /\ Watch!Arm /\ UNCHANGED <<stage, failure>>
    BY <2>1, <2>2, <2>5 DEF Watch!NoPoll, Watch!Arm
  <2>6. CASE /\ ~ cancelled /\ stage' = "failed" /\ failure' = reason
             /\ UNCHANGED <<armed, pendingTimer>>
    BY <1>6, <2>1, <2>2, <2>3, <2>6 DEF Watch!NoPoll
  <2>7. QED
    BY <1>6, <2>4, <2>5, <2>6 DEF Watch!PollFails, Watch!AfterFailure
<1>7. CASE UNCHANGED Watch!vars
  BY <1>7 DEF Watch!vars
<1>8. QED
  BY <1>1, <1>2, <1>3, <1>4, <1>5, <1>6, <1>7 DEF Watch!Next

(* After a signal an answer changes nothing that was told.                   *)
LEMMA SilentOnceCancelled ==
  WatchIInv /\ [Watch!Next]_(Watch!vars) /\ cancelled = TRUE => told' = told
<1> SUFFICES ASSUME WatchIInv, [Watch!Next]_(Watch!vars), cancelled = TRUE
             PROVE  told' = told
  OBVIOUS
<1>1. CASE Watch!Answered
  BY <1>1 DEF Watch!Answered, Watch!Handle
<1>2. CASE ~ Watch!Answered
  BY <1>2 DEF Watch!Next, Watch!vars, Watch!RunChanges, Watch!Serve, Watch!TimerFires,
              Watch!Signal, Watch!PollFails
<1>3. QED
  BY <1>1, <1>2

LEMMA WatchReports ==
  WatchIInv /\ WatchIInv' /\ [Watch!Next]_(Watch!vars)
    => [ /\ told' = lastSnapshot'
         /\ stage' # "watching" => ~ armed'
         /\ cancelled => UNCHANGED told ]_(Watch!vars)
<1> SUFFICES ASSUME WatchIInv, WatchIInv', [Watch!Next]_(Watch!vars)
             PROVE  /\ told' = lastSnapshot'
                    /\ stage' # "watching" => ~ armed'
                    /\ cancelled => UNCHANGED told
  OBVIOUS
<1>1. told' = lastSnapshot' /\ (stage' # "watching" => armed' = FALSE)
  BY DEF WatchIInv, TakesTurns
<1>2. cancelled \in BOOLEAN
  BY DEF WatchIInv, Watch!TypeOK
<1>3. cancelled = TRUE => told' = told
  BY SilentOnceCancelled
<1>4. QED
  BY <1>1, <1>2, <1>3

(* The watch has its types, and its timer and its polls take turns: a poll   *)
(* is never started over one in flight, and no timer outlives the loop.      *)
THEOREM WatchTakesTurns ==
  ASSUME Watch!WatchAssumption PROVE Watch!Spec => [](Watch!TypeOK /\ TakesTurns)
<1>1. Watch!Init => WatchIInv
  BY WatchInitHolds
<1>2. WatchIInv /\ [Watch!Next]_(Watch!vars) => WatchIInv'
  BY WatchNextKeeps
<1>3. WatchIInv => Watch!TypeOK /\ TakesTurns
  BY DEF WatchIInv
<1>4. QED
  BY <1>1, <1>2, <1>3, PTL DEF Watch!Spec

(* The user is told every state the watch compares with next, nothing after  *)
(* a signal, and a watch that has ended leaves no timer behind               *)
(* (run-watch.ts: poll, onSignal and the finally block).                     *)
THEOREM WatchReportsUntilEnded ==
  ASSUME Watch!WatchAssumption PROVE Watch!Spec => Watch!ReportsUntilEnded
<1>1. Watch!Init => WatchIInv
  BY WatchInitHolds
<1>2. WatchIInv /\ [Watch!Next]_(Watch!vars) => WatchIInv'
  BY WatchNextKeeps
<1>3. QED
  BY <1>1, <1>2, WatchReports, PTL DEF Watch!Spec, Watch!ReportsUntilEnded
===============================================================================
