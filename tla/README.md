# bao-policy-editor in TLA+

`bpe` edits OpenBao ACL policies, in files or on a server that other clients
write to as well. These modules state what it promises about other people's
changes and about its user's edits, check it on small instances with TLC and
prove the core of it with TLAPS.

## The system

| Part | State | Operations | Hard |
|---|---|---|---|
| Event loop and screens (`internal/tui/model.go`, `remoteview.go`, `run.go`) | screen, question on screen, review, looked-at revision, `busy`, awaited operation | one `Update` per key or message | a key while a request is in flight; a question answered about a state that has passed |
| Remote operations (`internal/tui/remote.go`) | one goroutine per operation | begin, cancel, accept, six kinds of request | replies that come late, or to something superseded |
| Session (`internal/tui/session.go`) | where the document lives, its baseline, its current text, its revision or snapshot | commit an edit, save, save as, reload, mark saved or deleted | baseline and revision (or snapshot) must move together |
| OpenBao client (`internal/baoclient`) | none between calls | list, read, create, update, delete; check-and-set, read-after-write, resending | lost answers, resent writes, writes between a write and its read-back, metadata a POST clears |
| The server and its other clients | policies, versions | (outside the repository) | anything may change at any time |
| File replacement (`internal/fileio`, `bpe format`) | the file, a temporary file | read with a snapshot, replace | another writer, a failure or crash between two system calls |
| Evaluator (`internal/evaluator`) | compiled rules | compile, evaluate | priority between wildcards, templates |
| Rule and parameter forms (`internal/tui/form.go`, `paramform.go`) | drafts of a rule | edit, apply, abandon | what an untouched field writes |
| HCL documents (`internal/hclpolicy`) | a syntax tree | decode, edit, validate | edits that must not disturb other bytes |
| Main screen (`model.go`, `editor.go`, `view.go`) | highlighted rule, open form, question on screen, size of the terminal | move, click, add, edit, duplicate, remove | a rule is a number among blocks that are not all rules, on a screen that scrolls |
| Policy browser (`remoteview.go`, `model.go`) | listing, highlighted row, filter, policy in question | move, filter, open, create, delete, refresh | a listing patched by answers while other clients, and cancelled requests, change the server |
| Command line (`cmd/bpe`, `internal/apperr`, `internal/config`) | none | parse, resolve, dispatch, validate, test, format | flags anywhere, order of checks, what an exit code promises |
| Validation (`internal/hclpolicy/validate.go`) | none | find | findings of one rule that depend on others; when a requirement can be met |
| Rendering | none | | |

The loop calls the session directly and starts one goroutine per remote
operation; the goroutine calls the client and posts one message back, which the
loop accepts only if it is the awaited one (`accept`). Nothing else is shared,
so the interleavings that matter are between the loop, the goroutines, the
server and the server's other clients. File saves run inside the loop.

What makes each part correct: the loop and the client together never overwrite
a change their user has not seen, never lose an edit unasked, never stay locked
and never clear a policy's metadata; a file save replaces only what was read,
wholly or not at all; the evaluator decides as OpenBao does; an abandoned or
unchanged form changes nothing; what a key changes is the rule or the policy
the screen names; an error is found exactly where a rule is broken, and an exit
code says what became of the file. `PROJECT.json` lists the hazards line by line.

## Modules

| Module | What it is |
|---|---|
| `RemoteEditor` | the loop, the session, the client and the server |
| `ReviewedPolicies` | what all that promises the server, in 57 lines |
| `RemoteEditorInv` | the inductive invariants of `RemoteEditor` |
| `MCRemoteEditor` | the instance TLC runs |
| `RemoteEditorProofs` | types, safety, metadata and the refinement (TLAPS) |
| `RuleForm`, `MCRuleForm` | the rule and parameter forms, and what they write to a rule |
| `RuleFormProofs` | what an applied form keeps and writes (TLAPS) |
| `LocalFile`, `MCLocalFile` | one policy file, the editors and `bpe format` runs that write it, other programs, failures |
| `LocalFileInv`, `LocalFileProofs` | its inductive invariant, and the proofs of its properties (TLAPS) |
| `Evaluator`, `MCEvaluator` | `bpe test`: compiling rules, deciding a request |
| `Strings` | strings as Go's `strings` cuts and compares them: sequences of characters |
| `EvaluatorProofs` | merging, the pattern that decides, and independence of templates (TLAPS) |
| `RuleList`, `MCRuleList` | the main screen: rules, highlight, geometry, and the operations on a rule by its number |
| `RuleListProofs` | the highlight is drawn; what is named is changed (TLAPS) |
| `PolicyBrowser`, `MCPolicyBrowser` | the listing of the server's policies and the answers that change it |
| `PolicyBrowserProofs` | the listing is what was told; the highlight stays (TLAPS) |
| `Validation` | what `bpe validate` finds in a policy (operators, no state) |
| `CommandLine`, `MCCommandLine` | one run of `bpe`: arguments, configuration, the three commands, exit codes; extends `Validation` |
| `CommandLineProofs` | errors, exit codes, flags and the order of rules (TLAPS) |
| `Selection` | choosing the wanted elements of a list, as a recursive function |
| `SelectionProofs` | lists and the induction they rest on (TLAPS) |

### RemoteEditor

*State.* `server` and `issued` are the policies and the versions given out;
`by` records who wrote last. `calls[o]` is the goroutine of operation `o`: its
kind, what it carries, where it is (`waiting` for the server, in the
`readback` that follows a write, `replied` with its message posted, or `gone`
with the request still on its way) and whether its request may still reach the
server (`wire`). `op` is `m.op` while `m.busy`, else `None`. `screen`,
`dialog`, `subject`, `reviewKind`, `shown` (the diff), `pending` (the revision
a look at the server's copy brought) are the model's fields of those names or
meanings; `backing`, `name`, `exists`, `rev`, `original`, `current` the
session's. Four fields are history, read by properties only: `seen`, `consent`
and `landed` of a call, `of` of a revision after a write reply.

*Actions.* One per key handler (`PressReview`, `SaveRemote`, `AnswerConflict`,
...), one per message handler (`HandleWrote`, `HandleRemoteErr`, ...), and the
steps of a request: the server answers a read, `WriteLands`, `WriteRefused`,
`DeleteLands`, the call fails (`CallFails`: cancelled, timed out, refused), the
answer is lost and the request is sent again (`Unanswered`), the read after a
write ends (`ReadBack`). A cancelled operation keeps its request on the wire:
the server may execute it at any later time, or never. `OthersWrite` and
`OthersDelete` are the other clients, without restraint.

*Data.* A policy's text is a model value, its metadata one of nothing, what can
be put back, and what cannot (`Unpreservable`). A diff is the pair it compares.

*What is left out.* Forms, help, preview, diagnostics and test screens and the
mouse do not touch a remote operation; every edit they commit is
`EditDocument`. The listing is not kept: the user may pick any name, which a
stale listing allows too. A local save is one step that succeeds, and
quitting, too, is all of a local document that concerns a remote one;
`LocalFile` takes that step apart. A policy that cannot be parsed opens read-only, so
`OpenRemoteSession`, `ReloadRemote` and `Commit` have no error to model. A
request has at most one copy on the wire: the client resends only after it has
given the previous one up, and a copy executed after its resend is not
modelled.

*Assumed of the server.* A version is issued once per name. `CasHolds` is the
check-and-set the client relies on; a successful write answers 204 with no body
(`"empty"`) or with a version (`"versioned"`), the two forms the client handles.

### ReviewedPolicies

The promise, with no versions, requests or screens: a policy changes only by
another client's hand or by a change this editor's user confirmed and that is
still outstanding; a confirmed update replaces the text the user was shown, a
confirmed create replaces nothing. `RemoteEditor!AbstractSpec` instantiates it
with the policies the server holds and, as confirmed changes, the requests that
may still reach it.

### LocalFile

*State.* `file` is what the path names: an inode, its text, its permissions,
whether it has a second link or the path is a symbolic link, and whether its
data has been synced. `disk` is what the path would name after a power failure:
it follows `file` only when the directory is synced. `temps` are the temporary
files beside it. Each program has `at` (the screen it shows, or the system call
it makes next), `doc` (the session's backing, baseline, text and snapshot),
`tmp` (the file it is writing) and `report` (how its last save ended). History:
`by` of a file; `changed`, `stale` and `unseen` of a document (somebody else
changed the file since it was read; the last save took no new snapshot; in
which blind window the change came); `leftovers`.

*Actions.* `fileio.Replace` is five steps, `Lstat`, `Verify` (read again and
compare), `WriteTemp`, `Rename`, `SyncDir`, because another program can come
between any two. `WriteTemp` is all the calls on the temporary file and, if one
of them fails, its removal: no other program writes that file. The session's `Save`, `Refresh` (the snapshot after a write),
`Reload`, `LookAtDisk`, `SaveAs` (`Create`, `Fill`, `Adopt`: `os.WriteFile`
truncates and then writes, and is not atomic) and `Format` call it. Other
programs may replace, rewrite, link or delete the file at any step; a program
may be killed at any step (`Die`), and the power may fail (`PowerFailure`):
what was not synced is then kept, lost or damaged.

*Assumed.* A read of an open file is one step; what other programs write is on
disk when they are done; removing the temporary file succeeds; inode numbers
are reused as soon as nothing has them. The file system is a Unix one, where
links are detected and directories can be synced.

### Evaluator

*State.* `compiled` maps each pattern to its `compiledRule` (capabilities in
effect, the policies each came from, whether parameters are constrained);
`answer` is the `Decision`; `taken`, history, is the set of rules compiled.

*Actions.* `CompileRule` is one turn of `Compile`'s loop (expired rules are
skipped, an unknown capability or `+*` ends it), in any order of the rules;
`Evaluate` is the one question of a run.

*Data.* Cutting and comparing paths is what this component does, so patterns
and paths are sequences of characters here and the operators, in `Strings`, are
those of Go's `strings`; `MCEvaluator` spells them out of the texts a `.cfg`
gives. The sources of a grant are a set: duplicates and their order are
display, as is the wording of `explain.go`. Patterns have one identity template
per segment, and what it stands for (`Values`) is part of that segment and no
wildcard: so `couldTemplatedRuleMatch` takes it, which compares segment by
segment and rules out a path with another number of them
(`evaluator_test.go:512`).

*Reference.* `Deciding` and `Says` decide over the rules as written, without
the compiled form: a pattern covers a path if filling its `+` segments from the
path gives the path, or a start of it; the deciding pattern is the highest by
`Rank`, a tuple. The properties compare the two.

### RuleForm

*State.* `rule` is the block in the document: its path, and for each attribute
whether it is there, whether it is locked (an expression, a heredoc, a comment
inside), its decoded value, and whether it still stands as its author wrote it
(`verbatim`). `form` is the `ruleForm`: path, ticked boxes, set and text of
each optional field, whether the advanced rows are open. `typing` is the row
whose text has the keys, `params` the `paramForm` when that screen is open.
`touched`, history, is the set of rows the user has entered.

*Actions.* The keys that change a draft (`ToggleCapability`, `Activate`,
`UnsetCurrent`, `SyncInput`, and `AddEntry`, `OpenEntry`, `CommitEntry`,
`RemoveEntry` of the parameter form), applying and cancelling each form.
`ApplyForm` is `edits` (or `rule`), the constructors of edits, `EditRule` (or
`AddRule`) and the reparse that follows: the form closes, stays because an edit
is refused, or the program panics.

*Data.* Conversions are given by tables: what trimming leaves of a path
(`Trim`), what RFC 3339 without fractions leaves of a time (`Seconds`), what a
name is once split at its commas (`Parts`). A list shown as text is the list;
reading it back splits its names. The cursor is any visible row.

*Left out.* The advice on `deny`, wording, and the other edits of a document:
removing and duplicating a rule take no form. What is taken from hclwrite and
cty: setting one attribute leaves the others' tokens alone, and `cty.ListVal`
panics when given no values.

### RuleList

*State.* `blocks` are the top-level blocks of the document, the `path` blocks
among them the rules; `selected`, `screen`, `form` (the rule a form was opened
on and what it showed), `dialog` (the removal in question: which rule, and what
was on screen), `busy`, `warnings` and `size` are the model's.

*Actions.* One per key of the main screen and one per answer to its question
and its forms; a click; a change of the terminal's size; what happens on the
other screens that comes back here (a request, another document, this one
reloaded). `EditRule`, `RemoveRule` and `DuplicateRule` find their block as
`writePathBlock` does, by counting `path` blocks.

*Geometry.* `Top` and `Bottom` are the window `renderRuleList` draws, `RowOf`
where a rule is drawn, `Available` the rows `frame` leaves for the list.
`ListTop`, `ListHeight` and `Clicked` are what `renderEditor` reports and
`handleClick` makes of it: the code computes the two separately.

*Data.* What a block says is one text. A form's outcome is any other text, or a
refusal (the form stays); `RuleForm` takes that apart. A request runs only
while another screen is shown.

*Left out.* The details beside the list, and quitting.

### PolicyBrowser

*State.* `names`, `selected`, `filter`, `filtering` of `policyBrowser`;
`connected`, `screen`, `target` (the policy whose deletion is in question) and
`session` (which policy is edited, whether it exists, whether it is dirty) of
the model; `server`, the policies there are; `op`, the request awaited, with
the server's answer once it has one; `late`, cancelled requests that may still
reach the server. History: `untold`, the names whose existence may have changed
since the browser was last told of them, and `since`, those that changed after
the server answered.

*Actions.* The keys of the browser, its filter, the question of deletion (the
name typed again) and the name of a new policy; the handlers of the five
answers and of an error; `Serve`, `ServeLate` and `OtherClient`.

*Data.* `Matches` says which names a filter leaves visible; names are sorted by
their place in `Order`.

*Left out.* The questions after a refused write, and what a request does to the
document's text: both are in `RemoteEditor`. The fields of the connection form
are text.

### Validation and CommandLine

*State.* `phase` is what `Execute` does next; `command` and `config` are what
parsing and resolving return, `file` the policy file, `read` what a command
read of it, `exit` the code. `signalled` is the context's cancellation.
History: `findings` and `wrote`.

*Actions.* `Parse`, `Resolve`, `Dispatch`, then the command: `RunValidate`,
`RunTest`, `RunFormat` and `Replace`, or the editor. A signal may come at any
time, another program may write the file before it is read and between reading
and replacing.

*Data.* An argument is a flag, with a value after `=` or without, or a word.
`ScanFlags`, used for the global flags and again for a subcommand's, is the
code's: a flag is taken wherever it stands, a value flag swallows the next
token whatever it looks like, the last flag of a name counts. A path is the
sequence of what its slashes separate, a parameter map a function to sets of
values. A replacement is one step with five results (`ReplaceResults`), which
`LocalFile` takes apart; what a test answers is `Evaluator`'s.

*Reference.* `ProvablyBroken` says of a rule that nothing can come of it.
OpenBao's parser, as `validate.go:197`, `:208` and `validate_test.go:88`
describe it, takes the capabilities in their order and stops at the first that
is unknown, and refuses the policy, or that is deny, and drops everything else
of the rule (`StopsAt`); an expired rule it skips (`evaluator.go:186`). So a
rule is broken if it is `Refused`, if its path is empty, or if no request can
meet it: without the four cases the code tells apart, no value of a required
parameter may be given (`MayGive`), for all the values listed and one that is
not. The code looks at every word of every rule, in no order: its error is no
proof of a rule that is `CutShort`, which `ErrorsAreProof` names as its
exception and `DenyFirst.cfg` exhibits.

## Runs

Deadlock is not checked for the editor with its server, the evaluator, the
forms and the command line, because these programs end; in `LocalFile` and
`PolicyBrowser` others can always move, and a terminal can always be resized.
Texts, operations and inodes are interchangeable (`SYMMETRY`) where no liveness
is checked.

| Run | Shows |
|---|---|
| `RemoteEditorSafety` | types; only shown content is overwritten; a matching revision means a matching text; the licence to overwrite lives as long as its review; edits change only with consent |
| `RemoteEditorRefines` | `RemoteEditor` implements `ReviewedPolicies`, with two names |
| `RemoteEditorResends` | with two resends, servers that report no version, and all kinds of metadata: the second again, metadata survives, the editor never stays locked |
| `LocalFileSafety` | one editor, every failure: what a save replaces was read, except in the two blind windows; only save-as leaves a torn file; a save reported as done survives a power failure; a conflict is somebody else's change or follows a failed directory sync; the baseline is what the file holds |
| `LocalFileRaces` | an editor beside a format run, either killed: nothing lost outside the windows, no temporary file left by a program that lives |
| `Evaluator` | rules of a pattern merge to the same whatever their order; the answer is the reference's; every pattern that lost is listed; a definite answer does not depend on what a template stands for |
| `RuleForm` | what cannot be rewritten is never rewritten; rows not entered, and rows whose draft is back where it was, stand as they did; what a form shows is what is written; capabilities BPE does not know are kept |
| `CommandLine` | every command line of three arguments, some longer ones in every order, every policy of the families: flags mean the same wherever they stand; help is not blocked, but by a `--remote` that is no boolean and by a flag that lacks its value; what the exit code says of the file is so; every broken rule has an error, and no other that OpenBao reads to its end; findings do not depend on the order of rules |
| `RuleList` | the highlighted rule is drawn; what is edited, removed or copied is what the screen named, and nothing else moves |
| `PolicyBrowser` | the listing differs from the server only in what BPE was not told; answers leave the highlight on its policy, and what is deleted is the highlighted one |
| `EmptiedList` | violated: every edit a form asks for can be rendered |
| `Click` | violated: a click on a rule picks that rule |

Two of these are defects of the code, each against a comment. `EmptiedList`
ends the program, with the unsaved document, when a rule's last capability is
unticked or its `required_parameters` set and left empty. `Click` picks a rule
above the one under the pointer: the list's first row is reported one row too
low in a narrow terminal and two in a wide one, and the window is taken to have
another height than it is drawn in, so a list that scrolls picks yet another.
Terminal rows are counted from 0; counted from 1 the wide layout would still be
off by one. The test (`model_test.go:505`) clicks at rows computed from the
same reported number.

### Counterexamples on demand

Five more configurations each check one claim that the code does not keep. The
exceptions they exhibit are named in properties that hold, so they are no
regular runs; `tlc -config <name>.cfg <module>` shows the traces.

| Configuration | Claim that fails | Named exception in |
|---|---|---|
| `SnapshotWindow.cfg` (`MCLocalFile`) | "between that check and the rename" (`README.md:385-393`) is the only window: the snapshot read after a save (`session.go:537`) takes in another program's change, and the next save overwrites it | `LostOnlyInBlindWindows` |
| `SaveAsRace.cfg` (`MCLocalFile`) | BPE will "never silently replace" a file it has not read (`session.go:28`): save-as looks, then truncates a file that has appeared (`session.go:395`) | `OnlySaveAsTears` |
| `TemplateMissed.cfg` (`MCEvaluator`) | "a definite result is only kept when independence from the template can be established" (`evaluator.go:527`): `u/{{x}}-a*` is not found to match `u/v-ab` (`match.go:127`), and the answer is a definite deny | `IndependentUnlessTextBeforeStar` |
| `DenyFirst.cfg` (`MCCommandLine`) | a policy with an unknown capability "cannot be applied as written" (`validate.go:196`): `["deny", "teleport"]` is such an error, although OpenBao's parser stops at deny (`validate.go:208`, `validate_test.go:88-92`: "the policy is applicable") and drops the rest | `ErrorsAreProof` (`CutShort`) |
| `ResentWrite.cfg` (`MCRemoteEditor`) | "the server was not written to" (`model.go:779`), shown when a conflict is cancelled: a write resent after a lost answer (`baoclient.go:59`) conflicts with itself | none: the program is safe in the same states, the text promises more than the code can know |

### Other disagreements met

Seen in the models and not kept as runs:

- A cancelled operation answers "cancelled — nothing was changed"
  (`model.go:364`, and `README.md:499`), while its request may still be on the
  wire and is executed; the same holds of a save that timed out
  (`RUNBOOK.md:493`).
- When a write's own answer carries a version, `revisionAfterWrite`
  (`policystore.go:464`) does not read the metadata, which `:435` says is
  filled in; the next update clears it. The resend run therefore has servers
  that answer 204, and `MetadataSurvives` is stated for those.
- The document of a policy just deleted says that saving "would create it
  again" (`model.go:1274`), but an unedited one cannot be saved.
- After a save whose directory sync failed the snapshot is of the file that was
  replaced, so the next save is refused because of the editor's own write,
  shown as "someone else's change" (`view.go:380`). `ConflictIsReal` names this
  exception (`stale`).
- A save-as interrupted leaves part of the document, though local writes are
  said to be atomic (`README.md:371-379`). `OnlySaveAsTears` names it.
- A save whose file was replaced but whose snapshot could not be read again is
  reported as failed (`session.go:374`, `model.go:853`).
- `DeniedBy` (`evaluator.go:464`) lists the first policy that denied, not every
  one: `mergeRule` returns at once when the pattern is already denied.
- `+` followed by text (`a/+foo`) is classified as a wildcard, although only a
  whole segment is documented as one (`match.go:21`); it is then matched
  literally, so no answer differs.

- A form left as it was opened writes all the same (`form.go:34`,
  `edit.go:294`) when a text does not read back as its value: a name with a
  comma in `required_parameters` becomes two, an expiration loses its fraction
  of a second, a path its spaces. `Survives` names these values.
- If such a value is locked, the edit nobody asked for is refused and the rule
  cannot be edited at all; so it is when `expiration` is an expression, which
  `validate` reads as an invalid date (`edit.go:53`: every other field "stays
  editable").
- Entering the parameter form and leaving it with esc, or a text row without
  typing, sets the attribute: applying the form writes it, empty.
- On a new rule an attribute that is set but empty is left out
  (`encodeRule`), though the form shows it as set (`form.go:25`).
- An unknown capability behind a deny is an error of `validate` and keeps
  `bpe test` from answering (`evaluator.go:201`), although OpenBao takes the
  rule by the repository's own account (`validate.go:208`). So it is, for
  `validate` alone, with one in an expired rule, which OpenBao skips
  (`evaluator.go:186`), and with the required parameters of a rule that denies.
- `bpe --help --token` is a usage error: a flag that lacks its value is refused
  before the command is known, like `--remote=maybe`, though `--help` is "never
  blocked by another flag being present" (`cli.go:254`).
- `--check=1` formats and writes the file: the value is compared with `"true"`
  (`cli.go:424`), while `--remote=1` is a boolean. `AsksForCheck` reads it as
  the code does.
- Help is "never blocked by another flag being present" (`cli.go:254`), but
  `--remote=x` is refused before the command is known (`cli.go:275`).
  `HelpIsNotBlocked` names this exception.
- A malformed `BAO_SKIP_VERIFY` ends `validate`, `format` and `test` too, which
  make no connection.
- A path with `+*` passes `validate`, but `test` refuses the policy; an expired
  rule with an unknown capability is an error for `validate` and is skipped by
  `test`.
- `validate.go:46-48` expects the editor to refuse to save a policy with
  errors; it does not.
- A policy created from BPE is inserted above the highlight, which stays on its
  row and so moves to another policy (`remoteview.go:221`, against
  `remoteview.go:191-193`). `HighlightStays` names this exception.
- The banner takes the last row of the rule list (`view.go:145`), which scrolls
  as if it had it. `SelectedIsDrawn` names this exception.

### Bounds

- `Ops`: goroutines alive at once. The code never reuses an id; it only asks
  whether a reply's id is the awaited one, so an id no goroutine carries is as
  good as a new one, and a run may begin any number of operations. Two are the
  least in which a late request or reply meets another operation; the resend
  run has one, whose request may be late all the same.
- `Bodies`, `Texts`: two or three texts, the empty document among them. Three
  tell the baseline, the edit and another client's text apart.
- `MaxVersion`: two or three versions per name: enough for the
  policy to move under a review, under the re-read that resolves the conflict,
  and between a write and its read-back.
- `MaxRetries`: the code's 2 in the resend run; 0 or 1 where resends are not the
  point.
- `Names`: a second name matters only to the refinement, whose run has two.
- `Ids`: inodes at once: the path's, the one on disk after a power failure, and
  a temporary file for each program. Numbers are reused, so a file replaced
  twice may have the inode the snapshot remembers.
- `Faults`: which failures a run allows; `LocalFileSafety` allows all of them,
  `LocalFileRaces` those that matter to two programs at once.
- `Modes`: two, so that a change of permissions is a change; one in the races.
- `MaxRules`: three distinct rules, over ten patterns of every class, in every
  order: a deny before, between and after grants of one pattern, and a winner
  that beats a wildcard and a shorter prefix. The patterns tie at each level of
  the ranking but the last one that decides, the arbitrary one included.
- `Values`: what a template stands for: two segments of the paths and one that
  extends one of them.

- `MaxTouched`, `MaxEntries`, `MaxApplied`, and the rules of `MCRuleForm`:
  rules with up to two attributes, one of them locked or not, and forms that
  enter up to two rows, whatever is done there. Fields meet only in the check
  of the whole form and in `EditRule`, where one refusal stops all: two are
  enough to have one stop the other. An entry can be added to a map of none;
  the second entry, for a name given twice, comes with the file.
- `Argvs`: three arguments of every kind, in every order, so that a value flag
  can stand before, between and after a subcommand and its file; and longer
  lines with two value flags, one of them at the end or before another flag.
- `Contents`: one rule with every parameter map over two names and two values,
  the wildcard among the names, of a rule that grants, that denies or that is
  refused; one rule with any known capabilities, or with up to three words in
  every order, an unknown one and deny among them, on any path; and
  up to three rules on paths of one mount and another.
- `MaxOthers`: one write of another program, before the file is read or between
  that and its replacement.
- `Heights`: with 4 and 6 rows the list has its least height of three and is
  cut by the frame, with 7 it just has it, with 9 it has more.
- `MaxBlocks`: five blocks, more than the smallest windows.
- `Order`: three policies, the one between two others included; `MaxLate`: one
  cancelled request still under way, beside one awaited.

### Fairness

Only `RemoteEditorResends` assumes any: every waiting call eventually ends
(`CallFails`: the HTTP client the code builds has a timeout, and its resends
are bounded), so does the read after a write, and the loop handles every
message posted to it. Nothing is assumed of the user, the network or the
server: no answer need ever arrive.

## Proofs

Every theorem named here holds for every value of the constants that the named
assumptions of its module allow: any number of names, texts, operations,
versions, programs, rules, rows. The assumptions say little more than that the
marks for nothing (`None`, `Blank`) are none of the values beside them and that
the sets that belong together do. No property of a run is inductive as it
stands; what follows says what had to be added, and why it is true.

The modules of proofs have one lemma per action, or group of actions that
preserve the same things for the same reason; `Inductive` puts them together.

### RemoteEditor (`RemoteEditorInv`, `RemoteEditorProofs`)

From `ConstantsAssumption`: `TypeOKHolds`, `OnlyShownOverwritten`,
`MatchingRevision`, `LicenceShown`, `EditsKept`, `ImplementsReviewedPolicies`
and, for servers that answer writes with 204, `MetadataKept`.

That an update replaces only what was shown depends on what the session
believed when the request was made, which may be many steps, and another
client's writes, ago. `IInv` says what is true all along. `TypeInv` ties the
shape of each command to its kind and the awaited operation to the state of the
screen. `SafetyInv` rests on two facts about revisions that no step of the
server undoes (`ServerAdvances`):

- *honest*: if the server is at this version of the policy, it holds this text;
- *stale*: the server is not at this version, and never will be again.

Every update on its way carries an honest revision, and either that revision is
of the text on the left of its diff or it is stale (`Reviewed`). The second
case is the one that needs the argument: after a conflict the review compares
the document with a newer copy, while the session keeps the revision that was
refused. Cancelling that review and saving again sends the refused revision
under whichever diff is on screen, which is harmless because a revision that
was refused once is refused forever (`RefusedIsStale`, `SessionStale`).

*The refinement.* What the abstract specification calls confirmed is the set of
requests on the wire, so a step is mapped by what it does to them: none moves
(`NoRequestMoves`), one is sent (`RequestSent`) or one leaves (`RequestLeaves`).
A step in which none moves and the server rests is a stutter; a request is sent
by a key pressed over a review, which is a confirmation (`BeginRefines`); one
leaves because it is given up, or because it is executed, and then `SafetyInv`
says that what it replaces is what was shown (`WriteIsALanding`,
`DeleteIsALanding`).

*Metadata.* A revision that knows the metadata of its version knows them for as
long as the server is at that version, because every write takes the next
version (`EveryPolicyMoves`), so a version never comes back with others.
`MetaInv` says so of the session's revision, of one looked at, and of every
request and answer under way.

### LocalFile (`LocalFileInv`, `LocalFileProofs`)

From `ConstantsAssumption` and `NoneIsNothing`: `TypeCorrect`,
`BaselinesAreOnDisk`, `OnlySaveAsLeavesDamage`, `TempsAreRemoved`,
`LostOnlyBlindly`, `ReportedSavesLast`, `ConflictsAreReal`, for any number of
editors and format runs and any of the failures.

The properties compare the file with what a program decided up to five system
calls ago. `IInv` has a part for each program and one for the directory.
`UpToDate` says that a file nobody else has changed holds what the program
thinks it does: the text its user started from, or the one it has just written,
or, in the middle of a save-as, neither. `Checked` says that what `Replace` has
compared stays so until somebody comes between, which the history `unseen`
records; `SnapshotFits` says the same of the snapshot, which is of the baseline
unless somebody came between a write and the reading of it. `TempsApart` keeps
the programs apart: a temporary file belongs to one program, or to none any
more, and is never the file itself, so a rename puts there what its own program
wrote. `Whole` and `OnDisk` carry the text and the durability of that file past
the steps of the others.

### Evaluator (`EvaluatorProofs`)

From `CharactersAreOrdered` (each character has a number of its own),
`ConstantsAssumption` (patterns and paths are sequences of characters) and
`ValuesAreNames` (what a template stands for is not empty and has no `/`, `+`
or `*`), for any rules, patterns, paths and capabilities: `TypeCorrect`,
`OrderDoesNotMatter`, `SourcesAreKept`, `WinnerIsUnbeaten`,
`AnswersByThePattern`, `LosersAreTheOthers`, `TemplatesDoNotMatter`.

*Merging.* What the compiled rule of a pattern is, is said of the set of the
rules merged into it (`MergeOf`); one more rule changes both sides alike
(`MergeAddsOne`), whichever rules were merged before: a deny replaces what the
rules before it granted, and leaves the rules after it nothing to add.
`IsCompiled` is the strengthening: each capability in effect has a source.

*Deciding.* `matchNonExact` goes through the candidates and keeps the better of
two. `PriorityIsAnOrder` shows that `priorityLess` compares strictly and
totally, and `OneIsGreatest` that a finite set so ordered has one greatest
element, so the result does not depend on the order of the comparison.

*Strings.* `JoinedAndSplit` ties the code's view of a path, its segments, to
the reference's, the text: segments joined are a text exactly when they are its
split, and a prefix of it exactly when they begin its split (`Begins`). Both
directions go character by character (`SplitStepByStep`, `SplitOfAppend`,
`JoinOfLonger`), by the induction of `LeastNumber`. `MatchedIsCovered` is the
consequence: `matchWildcardRule` matches exactly the paths that the pattern
covers once its `+` are filled in. `PrefixIsCovering` says so of the prefixes,
and needs what the classification of patterns makes sure of (`NoPlusInPrefix`).

*The answer.* `RivalsAre`: what the code finds, among prefixes and wildcards, is
what covers the path. `OutrankingIsPriority`: `priorityLess` on what the code
computes of a pattern is the order of `Rank` on the pattern itself, malformed
ones apart. Of the prefixes the code keeps only the longest, which has priority
over the others (`LongerHasPriority`); so the winner is the best of all that
cover the path and the losers are the others (`WinnerIsBest`), at either stage
(`LookupDecides`). `DecideSays`: a definite decision is what the rules merged
into the pattern say together. The invariant needs, beyond the properties, that
the compiled patterns are exactly the labels of the rules taken, none malformed.

*Templates.* `ResolvedIs` says what a pattern becomes: its segments resolved one
by one, a final `*` where it was. `TemplateCovers` is the point: if the result
covers a path, `couldTemplatedRuleMatch` finds the pattern near it, provided no
text stands between the template and the `*`. So for a definite answer no
resolved rule with a template covers either form of the path, and the rules
that do are among those that did (`CoveringRules`); the pattern that decided is
one of them and still best (`BestOfFewer`, `TheSameDecides`). Where text does
stand there, `TemplateMissed.cfg` has the counterexample, and the proof fails
at `NothingAfter`.

### RuleForm (`RuleFormProofs`)

From `ConstantsAssumption` and `NoneIsNothing`: `TypeCorrect`, `LockedIsKept`,
`RestoredIsKept`, `UntouchedIsKept`, `ForeignIsKept`, `ShownIsWhatIsWritten`.

Applying a form compares each row with the rule, so the proof must know that a
row nobody entered still shows the rule (`Drafts`), and that the row being
typed in, or whose entries are listed, was entered (`Entered`).
`UnchangedTextIsNoEdit` is the lemma underneath: what reads back from a row as
it was drafted is what the rule says. `CapabilitiesOfForm` says which names the
written list has, the unknown ones of the rule among them.

### Validation and CommandLine (`CommandLineProofs`)

From `ValidationAssumption` alone, for one rule:

- `ContradictionIsExact`: the four cases of `requiredParameterContradiction` are
  those in which a required parameter can be given no value. One direction finds
  a value when none of the cases holds: one that is allowed and not denied, or,
  if no values are allowed by name, `OtherValue`, which no list mentions.
- `ErrorsOfARule`: a rule that is `ProvablyBroken` has an error, and a rule that
  has one is `ProvablyBroken` or `CutShort`. An unknown word that is not what
  the parser stops at stands behind one that is (`StopsBefore`): another
  unknown one, and the rule is refused all the same, or a deny.

And with `CommandLineAssumption`, for every command line, every policy and
every interference of other programs and signals: `TypeCorrect`,
`ExitCodesAreTrue`, `ErrorsAreProofHolds`, `OrderIsIgnored`,
`FlagsStandAnywhere`, `HelpNeverBlocked`.

`IInv` says which phase follows which command and what has been read by then
(`InOrder`), that a format asked to check only was understood so
(`Understood`), that what was found is all there is to find in what was read
(`Found`), and why the run exited as it did (`ExitHasReason`).

*The order of rules.* Any bijection of the rules' numbers moves each rule, with
what is found of it, and nothing else: what counts as evidence for a mount or as
a duplicate is said of some other rule, wherever that stands
(`RearrangedRules`, `FindingsOfRearranged`).

*The places of flags.* `ScanFlags` takes from a line the flags and the arguments
that are values of flags. `TakenIff` says which these are: an argument is a
value exactly if the one before it is a flag that takes one and is not itself a
value. Putting a flag that takes none between two arguments, but not between a
flag and its value (`IsGap`), moves what was there by one place and changes
nothing of it (`TakenInserted`, `FlagsInserted`, `ScanInserted`). Moving a flag
takes it out of one gap and puts it into another (`MovedScan`). What is left of
the line is the same list because an increasing list is determined by its
elements (`IncreasingIsUnique`).

### RuleList (`RuleListProofs`)

From `RuleListAssumption`: `TypeCorrect`, `NamedIsChanged`, `HighlightIsDrawn`,
for any documents and terminals.

`IInv` adds that an open form, or a removal in question, is about a rule there
is, and one that still says what they showed: nothing changes the document
while they are open. An edit finds its rule by counting `path` blocks;
`BlockOfRule` and `Around` cut the document at the block a number stands for,
and `RuleChanged` and `RuleAdded` say what the rules are afterwards. That the
highlight is drawn is arithmetic about the window, `HighlightIsDrawn` over the
invariant that the highlight is a rule whenever there is one.

### PolicyBrowser (`PolicyBrowserProofs`)

From `PolicyBrowserAssumption` and `NoneIsNothing`: `TypeCorrect`,
`ListingIsTold`, `HighlightIsKept`, for any policies, filters and number of
requests still under way.

An answer says how things were when the server gave it, and is handled later.
`Tells` says what it will still be worth: a listing differs from the server
only in what has changed since it was made, and the policy an answer says was
created or deleted is there, or gone, unless it has changed since.
`DeletesCurrent` says that the policy whose deletion is in question or under
way is the highlighted one, so the highlight may move only when that policy goes.

### Lists (`Selection`, `SelectionProofs`)

Induction theorems whose parameter is a predicate cannot be used with the
provers at hand, and neither can `SelectSeq`, which tests with an operator. So
what a model chooses of a list is chosen by `Only`, where the test is membership
in a set, and an induction is over the set of the numbers for which something
holds (`LeastNumber`, `UpFromZero`): if it is not all of them there is a least
one it lacks. `SelectionProofs` has what follows for lists chosen of, put
together, flattened, changed at one place, and listed from a set.

### Only model-checked

`BusyEnds`: liveness under fairness is out of the prover's reach. Every other
property of a passing run is the statement of a theorem.

## Plan

1. `RemoteEditor`, its abstract specification, and the proofs of types, safety,
   metadata and the refinement. *Done.*
2. `LocalFile` and the proofs of all its properties. *Done.* Left: that without
   failures and blind windows it implements an atomic compare-and-replace,
   stated as an abstract specification of its own.
3. `Evaluator` over `Strings`, and the proofs of all its properties. *Done.*
4. `RuleForm`, `RuleList`, `PolicyBrowser`, `Validation` and `CommandLine`, and
   the proofs of all their properties. *Done.*

## Not modelled

Rendering but for the rows of the rule list, and wording; TLS, headers and the
redaction of tokens (configuration and text, no state over time); the HCL
grammar and byte positions (a block's text is a model value); the tables of the
help, preview, diagnostics and test screens, which scroll a text; packaging and
scripts. Four hazards are listed with no property, because the code promises
nothing of them: the way out that a dirty remote document lacks when its policy
has been deleted elsewhere, a server that issues a version twice, a form that
a locked expression keeps from being applied, and the empty parameter map a
rule is given by looking at its form.
