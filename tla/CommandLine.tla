----------------------------- MODULE CommandLine ----------------------------
(***************************************************************************)
(* One run of bpe (cmd/bpe): its arguments are parsed, its configuration   *)
(* is resolved, and the command named is carried out on a policy file that *)
(* other programs may write. The interactive editor is RemoteEditor and    *)
(* LocalFile, the calls of one replacement are LocalFile, what a test      *)
(* answers is Evaluator.                                                   *)
(***************************************************************************)
EXTENDS Validation, Selection, Functions

CONSTANTS
  BoolFlags,     \* global flags that need no value: "remote", "skip-verify"
  ValueFlags,    \* global flags that do: "address", "token", ...
  Texts,         \* words and values, Blank among them
  ParseBool,     \* the texts that strconv.ParseBool takes, and what they mean
  Dashed,        \* any text that begins with a dash, taken as a value
  Tokens,        \* arguments
  Argvs,         \* the argument lists one run starts from
  Environments,  \* what each tier of environment variables sets
  Contents,      \* what the file may hold
  Starts,        \* the argument lists and files that are run together
  OthersContents, \* what other programs may make of the file, None to remove it
  MaxOthers      \* bound: writes of other programs

Subcommands == {"validate", "format", "test"}
Kinds == {"editor", "help", "version", "usage"} \cup Subcommands
Tiers == <<"BAO", "VAULT">>

GlobalFlags == [f \in BoolFlags \cup ValueFlags |-> f \in ValueFlags]
SubFlags == [validate |-> [f \in {} |-> FALSE],
             format |-> [f \in {"check"} |-> FALSE],
             test |-> [f \in {"path", "capability"} |-> TRUE]]

\* A token is a flag, with a value after "=" or without, or a word.
IsToken(t) ==
  /\ t = [flag |-> t.flag, text |-> t.text]
  /\ t.text # None => t.text \in Texts
  /\ t.flag = None => t.text # None

\* A file: whether it is HCL, whether it decodes without errors and in full,
\* whether it is formatted, and its rules.
IsContent(c) ==
  /\ c = [parses |-> c.parses, decodes |-> c.decodes, supported |-> c.supported,
          tidy |-> c.tidy, rules |-> c.rules]
  /\ {c.parses, c.decodes, c.supported, c.tidy} \subseteq BOOLEAN
  /\ c.decodes => c.parses
  /\ c.rules \in Seq({c.rules[i] : i \in DOMAIN c.rules})
  /\ \A i \in DOMAIN c.rules : IsValidRule(c.rules[i])

ASSUME CommandLineAssumption ==
  /\ {"remote", "skip-verify"} \subseteq BoolFlags /\ BoolFlags \cap ValueFlags = {}
  /\ {"check", "path", "capability", "help", "version"} \cap (BoolFlags \cup ValueFlags) = {}
  /\ ParseBool \in [DOMAIN ParseBool -> BOOLEAN] /\ "true" \in DOMAIN ParseBool
  /\ None \notin BoolFlags \cup ValueFlags \cup {"check", "help", "version"}
  /\ DOMAIN ParseBool \cap {Blank, Dashed} = {} /\ Dashed \notin Known
  /\ {Blank, Dashed, "true"} \subseteq Texts
  /\ Argvs \subseteq Seq(Tokens) /\ \A t \in Tokens : IsToken(t)
  /\ \A c \in Contents : IsContent(c)
  /\ Starts \subseteq Argvs \X (Contents \cup {None})
  /\ OthersContents \subseteq Contents \cup {None}
  /\ \A e \in Environments, i \in DOMAIN Tiers :
       \A s \in DOMAIN e[Tiers[i]] : e[Tiers[i]][s] \in Texts
  /\ MaxOthers \in Nat

VARIABLES
  argv,       \* the arguments
  env,        \* the environment
  phase,      \* what is done next; "exited" at the end
  signalled,  \* SIGINT or SIGTERM has come
  command,    \* the Command parsed
  config,     \* the Config resolved
  file,       \* the policy file: its content, or None
  read,       \* what was read of it
  exit,       \* the exit code
  findings,   \* history: what validate found
  wrote,      \* history: bpe has replaced the file
  others      \* writes of other programs

vars == <<argv, env, phase, signalled, command, config, file, read, exit, findings, wrote, others>>

-----------------------------------------------------------------------------
(* Arguments *)

\* Fault: what begins with a dash is no value.
TextOfWord(t) == t.text

TextOf(t) == IF t.flag = None THEN t.text ELSE Dashed
IsHelp(t) == t.flag = "help" /\ t.text = None
IsKnownFlag(t, specs) == t.flag # None /\ t.flag \in DOMAIN specs
TakesNext(t, specs) == IsKnownFlag(t, specs) /\ specs[t.flag] /\ t.text = None

\* The positions whose token is the value of the flag before it, whatever it
\* looks like.
TakenAsValue(args, specs) ==
  LET taken[i \in 0..Len(args)] ==
        i > 1 /\ ~taken[i - 1] /\ TakesNext(args[i - 1], specs)
  IN {i \in 1..Len(args) : taken[i]}

\* Fault: flags end at the first word.
FlagsBeforeWords(args, specs) ==
  {i \in 1..Len(args) \ TakenAsValue(args, specs) :
     /\ IsKnownFlag(args[i], specs)
     /\ \A j \in 1..i \ TakenAsValue(args, specs) : args[j].flag # None}

Flags(args, specs) ==
  {i \in 1..Len(args) \ TakenAsValue(args, specs) : IsKnownFlag(args[i], specs)}

\* The last flag of a name counts, if its value is there.
FlagValue(args, specs, i) ==
  CASE args[i].text # None -> args[i].text
    [] TakesNext(args[i], specs) -> TextOf(args[i + 1])
    [] OTHER -> "true"

ScanFlags(args, specs) ==
  LET flags == Flags(args, specs)
      given == {i \in flags : TakesNext(args[i], specs) => i < Len(args)}
      last(name) == CHOOSE i \in given :
        args[i].flag = name /\ \A j \in given : args[j].flag = name => j <= i
      rest == Only([i \in 1..Len(args) |-> i],
                   1..Len(args) \ (flags \cup TakenAsValue(args, specs)))
  IN [missing |-> flags # given,
      values |-> [name \in {args[i].flag : i \in given} |-> FlagValue(args, specs, last(name))],
      rest |-> [k \in DOMAIN rest |-> args[rest[k]]]]

-----------------------------------------------------------------------------
(* Commands *)

Command(kind, name) ==
  [kind |-> kind, file |-> name, topic |-> Blank, check |-> FALSE,
   path |-> Blank, capability |-> Blank, remote |-> FALSE, flags |-> <<>>]
UsageError == Command("usage", Blank)

IsCommand(c) ==
  /\ DOMAIN c = DOMAIN UsageError /\ c.kind \in Kinds
  /\ {c.file, c.path, c.capability} \subseteq Texts
  /\ c.topic \in Subcommands \cup {Blank} /\ {c.check, c.remote} \subseteq BOOLEAN
  /\ DOMAIN c.flags \subseteq BoolFlags \cup ValueFlags
  /\ \A f \in DOMAIN c.flags : c.flags[f] \in Texts

Given(values, name) == IF name \in DOMAIN values THEN values[name] ELSE Blank

\* The flags of a subcommand may stand before or after its file.
ParseSubcommand(name, args) ==
  LET scan == ScanFlags(args, SubFlags[name])
      path == Given(scan.values, "path")
      capability == Given(scan.values, "capability")
      wrong == \/ scan.missing \/ Len(scan.rest) # 1
               \/ \E i \in DOMAIN scan.rest : scan.rest[i].flag # None
               \/ name = "test" /\ (path = Blank \/ capability \notin Known)
  IN IF \E i \in DOMAIN args : IsHelp(args[i])
       THEN [Command("help", Blank) EXCEPT !.topic = name]
     ELSE IF wrong THEN UsageError
     ELSE [Command(name, scan.rest[1].text) EXCEPT !.check = Given(scan.values, "check") = "true",
                                                   !.path = path, !.capability = capability]

ParseHelp(args) ==
  CASE args = <<>> -> Command("help", Blank)
    [] Len(args) = 1 /\ args[1].flag = None /\ args[1].text \in Subcommands ->
         [Command("help", Blank) EXCEPT !.topic = args[1].text]
    [] OTHER -> UsageError

Alone(args, kind, name) == IF Len(args) = 1 THEN Command(kind, name) ELSE UsageError

ParseRemaining(rest) ==
  IF rest = <<>> THEN Command("editor", Blank)
  ELSE CASE IsHelp(rest[1]) -> Alone(rest, "help", Blank)
         [] rest[1] = [flag |-> "version", text |-> None] -> Alone(rest, "version", Blank)
         [] rest[1].flag = None /\ rest[1].text = "help" -> ParseHelp(Tail(rest))
         [] rest[1].flag = None /\ rest[1].text \in Subcommands ->
              ParseSubcommand(rest[1].text, Tail(rest))
         [] rest[1].flag = None /\ rest[1].text \notin Subcommands \cup {"help"} ->
              Alone(rest, "editor", rest[1].text)
         [] OTHER -> UsageError

\* Fault: --remote is an error with everything but the editor.
RefusedRemoteEverywhere(cmd) == cmd.kind # "editor" \/ cmd.file # Blank

\* --remote starts the editor without a file; help and version ignore it.
RefusedRemote(cmd) == cmd.kind \in Subcommands \/ (cmd.kind = "editor" /\ cmd.file # Blank)

ParseArgs(args) ==
  LET scan == ScanFlags(args, GlobalFlags)
      asked == "remote" \in DOMAIN scan.values
  IN IF scan.missing \/ (asked /\ scan.values["remote"] \notin DOMAIN ParseBool) THEN UsageError
     ELSE LET remote == asked /\ ParseBool[scan.values["remote"]]
              cmd == ParseRemaining(scan.rest)
          IN IF cmd = UsageError \/ (remote /\ RefusedRemote(cmd)) THEN UsageError
             ELSE [cmd EXCEPT !.remote = remote, !.flags = scan.values]

-----------------------------------------------------------------------------
(* Configuration *)

Settings == ValueFlags \cup {"skip-verify"}

\* The flag, then BAO_..., then VAULT_...; an empty value is a value.
FirstSet(setting) ==
  CASE setting \in DOMAIN command.flags -> command.flags[setting]
    [] setting \notin DOMAIN command.flags /\ \E i \in DOMAIN Tiers : setting \in DOMAIN env[Tiers[i]] ->
         LET i == CHOOSE i \in DOMAIN Tiers :
               /\ setting \in DOMAIN env[Tiers[i]]
               /\ \A j \in 1..(i - 1) : setting \notin DOMAIN env[Tiers[j]]
         IN env[Tiers[i]][setting]
    [] OTHER -> None

-----------------------------------------------------------------------------
(* Actions *)

Init ==
  \E start \in Starts, e \in Environments :
    /\ argv = start[1] /\ file = start[2] /\ env = e
    /\ phase = "parse" /\ signalled = FALSE
    /\ command = UsageError /\ config = <<>>
    /\ read = None /\ exit = None /\ findings = {} /\ wrote = FALSE /\ others = 0

Exit(code) == phase' = "exited" /\ exit' = code
GoOn(to) == phase' = to /\ UNCHANGED exit
Interrupted == signalled /\ Exit(130)

\* Help and version are answered without a configuration.
Parse ==
  /\ phase = "parse"
  /\ \/ Interrupted /\ UNCHANGED command
     \/ /\ ~signalled
        /\ command' = ParseArgs(argv)
        /\ CASE command'.kind = "usage" -> Exit(2)
             [] command'.kind \in {"help", "version"} -> Exit(0)
             [] OTHER -> GoOn("resolve")
  /\ UNCHANGED <<argv, env, signalled, config, file, read, findings, wrote, others>>

Resolve ==
  LET resolved == [setting \in Settings |-> FirstSet(setting)]
  IN /\ phase = "resolve"
     /\ IF resolved["skip-verify"] \in DOMAIN ParseBool \cup {None}
          THEN config' = resolved /\ GoOn("dispatch")
          ELSE Exit(2) /\ UNCHANGED config
     /\ UNCHANGED <<argv, env, signalled, command, file, read, findings, wrote, others>>

\* The last look at the signal, but for the editor's own.
Dispatch ==
  /\ phase = "dispatch"
  /\ \/ Interrupted
     \/ ~signalled /\ GoOn(command.kind)
  /\ UNCHANGED <<argv, env, signalled, command, config, file, read, findings, wrote, others>>

\* The file cannot be read: it is not there, or it has no name.
Unreadable == file = None \/ command.file = Blank

\* The editor opens its file or an empty document.
Edit ==
  /\ phase = "editor"
  /\ IF command.file # Blank /\ Unreadable THEN Exit(3) ELSE GoOn("editing")
  /\ UNCHANGED <<argv, env, signalled, command, config, file, read, findings, wrote, others>>

LeaveEditor ==
  /\ phase = "editing"
  /\ Interrupted \/ Exit(0) \/ Exit(3)
  /\ UNCHANGED <<argv, env, signalled, command, config, file, read, findings, wrote, others>>

ReadPolicy == read' = IF Unreadable THEN None ELSE file

RunValidate ==
  /\ phase = "validate" /\ ReadPolicy
  /\ findings' = IF ~Unreadable /\ file.decodes THEN Validate(file.rules) ELSE {}
  /\ CASE Unreadable -> Exit(3)
       [] ~Unreadable /\ (~file.decodes \/ HasError(findings')) -> Exit(1)
       [] OTHER -> Exit(0)
  /\ UNCHANGED <<argv, env, signalled, command, config, file, wrote, others>>

\* Which of the three answers a simulation gives is the Evaluator's.
RunTest ==
  /\ phase = "test" /\ ReadPolicy
  /\ CASE Unreadable -> Exit(3)
       [] ~Unreadable /\ ~(file.decodes /\ file.supported /\ Compiles(file.rules)) -> Exit(1)
       [] OTHER -> Exit(0) \/ Exit(1) \/ Exit(3)
  /\ UNCHANGED <<argv, env, signalled, command, config, file, findings, wrote, others>>

\* Formatting looks at tokens, not at rules.
RunFormat ==
  /\ phase = "format" /\ ReadPolicy
  /\ CASE Unreadable -> Exit(3)
       [] ~Unreadable /\ ~file.parses -> Exit(1)
       [] ~Unreadable /\ file.parses /\ file.tidy -> Exit(0)
       [] ~Unreadable /\ file.parses /\ ~file.tidy /\ command.check -> Exit(1)
       [] OTHER -> GoOn("replace")
  /\ UNCHANGED <<argv, env, signalled, command, config, file, findings, wrote, others>>

\* What became of the call, whether the file was replaced or not.
ReplaceResults == {"done", "undurable", "conflict", "linked", "failed"}

\* Fault: a replaced file is a conflict if it is not on disk for certain.
MapAnyWriteError(result) ==
  CASE result = "done" -> 0 [] result \in {"conflict", "undurable"} -> 4 [] OTHER -> 3

MapFormatWriteError(result) ==
  CASE result = "done" -> 0 [] result = "conflict" -> 4 [] OTHER -> 3

\* The file is replaced as a whole if it still is what was read.
Replace ==
  /\ phase = "replace"
  /\ \E result \in ReplaceResults :
       /\ result = "conflict" => file # read
       /\ result \in {"done", "undurable"} => file = read
       /\ wrote' = (result \in {"done", "undurable"})
       /\ file' = IF wrote' THEN [read EXCEPT !.tidy = TRUE] ELSE file
       /\ Exit(MapFormatWriteError(result))
  /\ UNCHANGED <<argv, env, signalled, command, config, read, findings, others>>

\* SIGINT or SIGTERM; from dispatch on the three commands do not look.
Signal ==
  /\ phase # "exited" /\ ~signalled /\ signalled' = TRUE
  /\ UNCHANGED <<argv, env, phase, command, config, file, read, exit, findings, wrote, others>>

\* Another program replaces, creates or removes the file.
OthersWrite ==
  /\ phase \in Subcommands \cup {"replace"} /\ others < MaxOthers /\ others' = others + 1
  /\ file' \in OthersContents
  /\ UNCHANGED <<argv, env, phase, signalled, command, config, read, exit, findings, wrote>>

Execute ==
  Parse \/ Resolve \/ Dispatch \/ Edit \/ LeaveEditor \/ RunValidate \/ RunTest \/ RunFormat \/ Replace

Next == Execute \/ Signal \/ OthersWrite

Spec == Init /\ [][Next]_vars

-----------------------------------------------------------------------------
(* Properties *)

Phases == {"parse", "resolve", "dispatch", "editing", "replace", "exited"} \cup Kinds

\* Every variable has its type, and an exit code is one of the contract's
\* (internal/apperr).
TypeOK ==
  /\ argv \in Argvs /\ env \in Environments /\ phase \in Phases
  /\ {signalled, wrote} \subseteq BOOLEAN /\ others \in 0..MaxOthers
  /\ IsCommand(command)
  /\ config # <<>> => config \in [Settings -> Texts \cup {None}]
  /\ file # None => IsContent(file)
  /\ read # None => IsContent(read)
  /\ IF phase = "exited" THEN exit \in {0, 1, 2, 3, 4, 130} ELSE exit = None

\* Where a token can be put without becoming the value of a flag.
Gaps(args, specs) ==
  {j \in 0..Len(args) : j \in {0} \cup TakenAsValue(args, specs) \/ ~TakesNext(args[j], specs)}
InsertedAfter(args, j, t) == SubSeq(args, 1, j) \o <<t>> \o SubSeq(args, j + 1, Len(args))
Without(args, i) == SubSeq(args, 1, i - 1) \o SubSeq(args, i + 1, Len(args))

\* The arguments with one flag, the only one of its name, moved elsewhere.
Moves(args, specs) ==
  UNION {{InsertedAfter(Without(args, i), j, args[i]) : j \in Gaps(Without(args, i), specs)} :
           i \in {i \in Flags(args, specs) :
                    /\ ~TakesNext(args[i], specs)
                    /\ \A k \in Flags(args, specs) : args[k].flag = args[i].flag => k = i}}

\* A global flag means the same wherever it stands, and a flag of a subcommand
\* wherever it stands after the subcommand ("wherever it appears", cli.go:115;
\* "before or after the positional filename", cli.go:434).
FlagsMayStandAnywhere ==
  phase = "parse" =>
    /\ \A moved \in Moves(argv, GlobalFlags) : ParseArgs(moved) = ParseArgs(argv)
    /\ \A rest \in {ScanFlags(argv, GlobalFlags).rest} :
         rest # <<>> /\ rest[1].flag = None /\ rest[1].text \in Subcommands =>
           \A moved \in Moves(Tail(rest), SubFlags[rest[1].text]) :
             ParseRemaining(<<rest[1]>> \o moved) = ParseRemaining(rest)

\* Help and the version are answered whatever global flag is added ("never
\* blocked by another flag being present", cli.go:254), but for two: a --remote
\* whose value is no boolean, which is refused before the command is known, and
\* a flag that lacks its value, which takes the next argument for it and is
\* refused if there is none.
HelpIsNotBlocked ==
  phase = "parse" =>
    \A cmd \in {ParseArgs(argv)} :
      cmd.kind \in {"help", "version"} =>
        \A t \in Tokens, j \in Gaps(argv, GlobalFlags) :
          /\ IsKnownFlag(t, GlobalFlags) /\ ~TakesNext(t, GlobalFlags)
          /\ t.flag = "remote" /\ t.text # None => t.text \in DOMAIN ParseBool
          => \A with \in {ParseArgs(InsertedAfter(argv, j, t))} :
               with.kind = cmd.kind /\ with.topic = cmd.topic

\* --check is asked for, as the code reads it: --check=1 is not
\* (FormatCheck: values["check"] == "true").
AsksForCheck ==
  \E i \in DOMAIN argv :
    /\ argv[i].flag = "check" /\ argv[i].text \in {None, "true"}
    /\ \A j \in DOMAIN argv : argv[j].flag = "check" => j <= i
    /\ i \notin TakenAsValue(argv, GlobalFlags)

\* What the exit code says of the file is so: nothing was written if it says
\* that the policy, the arguments or another program's change were in the way,
\* what format reports as done is done, and --check does not write.
ExitCodeTellsTheTruth ==
  phase = "exited" =>
    /\ wrote => exit \in {0, 3} /\ command.kind = "format" /\ read.parses /\ ~AsksForCheck
    /\ command.kind = "format" /\ exit = 0 => wrote \/ read.tidy
    /\ exit = 4 => command.kind = "format" /\ others > 0
    /\ exit = 130 => signalled

Broken(rules) == {i \in DOMAIN rules : ProvablyBroken(rules[i])}
NotReadOut(rules) == {i \in DOMAIN rules : CutShort(rules[i])}
PathsOf(rules, which) == {rules[i].path : i \in which}
ErrorPaths == {f.path : f \in {f \in findings : f.kind \in Errors}}

Validated == phase = "exited" /\ command.kind = "validate" /\ read # None /\ read.decodes

\* Every rule that nothing can come of has an error, and an error is proof of
\* such a rule (validate.go:36, validate.go:291), but for one OpenBao does not
\* read to its end: it has expired, or a deny stands before what is wrong. The
\* command fails exactly if there is an error.
ErrorsAreProof ==
  Validated =>
    /\ PathsOf(read.rules, Broken(read.rules)) \subseteq ErrorPaths
    /\ ErrorPaths \subseteq PathsOf(read.rules, Broken(read.rules) \cup NotReadOut(read.rules))
    /\ exit = IF ErrorPaths = {} THEN 0 ELSE 1

\* What is found does not depend on the order of the rules: the evidence for a
\* mount and a duplicate count wherever they stand.
FindingsIgnoreOrder ==
  phase = "exited" /\ findings # {} =>
    \A order \in Bijection(DOMAIN read.rules, DOMAIN read.rules) :
      Validate([i \in DOMAIN read.rules |-> read.rules[order[i]]]) = findings

-----------------------------------------------------------------------------
(* What the comments say *)

\* validate.go:196: a policy with an unknown capability "cannot be applied as
\* written" (rules that have expired aside).
UnknownIsRefused ==
  Validated /\ (\A i \in DOMAIN read.rules : ~read.rules[i].expired) =>
    \A f \in findings : f.kind = "unknown_capability" =>
      \E i \in DOMAIN read.rules : Refused(read.rules[i])

=============================================================================
