---------------------------- MODULE MCCommandLine ---------------------------
(* A bounded instance of CommandLine for TLC. *)
EXTENDS CommandLine, SequencesExt

Word(w) == [flag |-> None, text |-> w]
Bare(f) == [flag |-> f, text |-> None]
Inline(f, v) == [flag |-> f, text |-> v]

MCParseBool == [b \in {"true", "1", "0"} |-> b # "0"]
MCTokens ==
  {Word(w) : w \in {"validate", "format", "test", "help", "", "f", "read"}} \cup
  {Bare(f) : f \in {"help", "version", "check", "path", "capability", "remote", "token", "x"}} \cup
  {Inline("check", "1"), Inline("path", "f"), Inline("capability", "read"),
   Inline("remote", "0"), Inline("remote", "f"), Inline("skip-verify", "f"), Inline("token", "f")}

\* Longer command lines, in every order.
Orders(args) ==
  {[i \in DOMAIN args |-> args[p[i]]] :
     p \in {p \in [DOMAIN args -> DOMAIN args] : \A i, j \in DOMAIN args : p[i] = p[j] => i = j}}
MCLong == UNION {Orders(args) : args \in {
  <<Word("test"), Word("f"), Inline("path", "f"), Inline("capability", "read")>>,
  <<Word("test"), Word("f"), Bare("path"), Inline("capability", "read"), Bare("remote")>>,
  <<Word("test"), Word("read"), Bare("path"), Word("f"), Bare("capability")>>,
  <<Word("format"), Word("f"), Bare("check"), Bare("token")>>,
  <<Word("help"), Word("test"), Bare("remote"), Bare("token")>>}}

MCArgvs == BoundedSeq(MCTokens \ {Word("read"), Inline("token", "f")}, 3) \cup MCLong

\* Rules: one to four names and values, paths of one mount and of another.
Path(segments) == [path |-> segments, capabilities |-> <<"read">>, expired |-> FALSE,
                   required |-> {}, allowed |-> None, denied |-> [n \in {} |-> {}]]
MCMaps == UNION {[names -> SUBSET {"u", "v"}] : names \in SUBSET {"n", "*"}}
MCConstrained ==
  {[Path(<<"kv">>) EXCEPT !.required = {"n"}, !.allowed = a, !.denied = d, !.capabilities = c] :
     a \in MCMaps \cup {None}, d \in MCMaps,
     c \in {<<"read">>, <<"read", "deny">>, <<"teleport", "deny">>}}
MCPaths == {<<"">>, <<"kv">>, <<"kv", "">>, <<"kv", "data">>, <<"kv", "x">>, <<"kv", "*">>,
            <<"sys", "x*">>, <<"kv", "*x">>, <<"kv", "+*">>}
\* Every choice of known ones, and every short list with one that is not.
MCCapabilities ==
  {SetToSeq(c) : c \in SUBSET {"create", "update", "deny", "sudo", "list"}} \cup
  BoundedSeq({"read", "deny", "teleport"}, 3)
MCGranting ==
  {[Path(p) EXCEPT !.capabilities = c, !.expired = e] :
     p \in MCPaths, e \in BOOLEAN, c \in MCCapabilities}

Holding(rules) ==
  [parses |-> TRUE, decodes |-> TRUE, supported |-> TRUE, tidy |-> FALSE, rules |-> rules]
MCPlain == {[Holding(<<>>) EXCEPT !.tidy = TRUE]} \cup
  {[parses |-> p, decodes |-> d, supported |-> s, tidy |-> t, rules |-> <<>>] :
     p \in BOOLEAN, d \in {FALSE}, s \in BOOLEAN, t \in BOOLEAN}
MCPolicies ==
  {Holding(<<r>>) : r \in MCConstrained \cup MCGranting} \cup
  {Holding(rules) : rules \in BoundedSeq({Path(p) : p \in MCPaths}, 3)}
MCContents == MCPlain \cup MCPolicies

\* Every command line with a file, the three commands with every file.
MCStarts ==
  MCArgvs \X {Holding(<<>>)} \cup
  {<<Word("validate"), Word("f")>>,
   <<Word("test"), Word("f"), Inline("path", "f"), Inline("capability", "read")>>} \X MCContents \cup
  {<<Word("format"), Word("f")>>, <<Word("format"), Bare("check"), Word("f")>>} \X (MCPlain \cup {None})
MCOthersContents == MCPlain \cup {None}
MCEnvironments ==
  {[BAO |-> [s \in {} |-> ""], VAULT |-> [s \in {"token"} |-> "f"]],
   [BAO |-> [s \in {"skip-verify"} |-> ""], VAULT |-> [s \in {"skip-verify"} |-> "1"]]}
=============================================================================
