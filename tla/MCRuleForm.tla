----------------------------- MODULE MCRuleForm -----------------------------
(* A bounded instance of RuleForm for TLC. *)
EXTENDS RuleForm

MCCapabilities == <<"read", "list">>
MCParts == [w \in {"", "x", "x, x"} |->
              IF w = "" THEN <<>> ELSE IF w = "x" THEN <<"x">> ELSE <<"x", "x">>]
MCTrim == [p \in {"", " ", "p", " p"} |->
             IF p = " " THEN "" ELSE IF p = " p" THEN "p" ELSE p]
MCSeconds == [d \in {"12:00:00", "12:00:00.5"} |-> "12:00:00"]
MCLists == {<<>>, <<"x">>}

\* What files say of each attribute: literals, literals of another type,
\* expressions, values with a comment inside.
MCValues(a) ==
  CASE a = "capabilities" ->
         {<<>>, <<"list", "read">>, <<"read", "teleport">>}
    [] a = "comment" -> {"", "c"}
    [] a = "expiration" -> {"", "12:00:00", "12:00:00.5"}
    [] a = "required_parameters" -> {<<>>, <<"x">>, <<"x, x">>}
    [] a = "allowed_parameters" -> {<<>>, Decoded(<<[name |-> "x", values |-> <<>>]>>),
          Decoded(<<[name |-> "x", values |-> <<"x, x">>], [name |-> "x, x", values |-> <<>>]>>)}
    [] OTHER -> {<<>>, Decoded(<<[name |-> "x", values |-> <<"x">>]>>)}

MCSlots(a) ==
  {[present |-> TRUE, locked |-> l, verbatim |-> TRUE, value |-> v] :
     l \in BOOLEAN, v \in MCValues(a)}

MCAbsent == [a \in Attrs |-> Absent(a)]
MCOne == UNION {{[MCAbsent EXCEPT ![a] = s] : s \in MCSlots(a)} : a \in Attrs}
MCTwo == UNION {{[attrs EXCEPT ![a] = s] : attrs \in MCOne, s \in {t \in MCSlots(a) : ~t.locked}} :
                a \in Attrs}

MCRules ==
  {[path |-> "p", pathLocked |-> FALSE, attrs |-> attrs] : attrs \in MCTwo} \cup
  {[path |-> " p", pathLocked |-> FALSE, attrs |-> attrs] : attrs \in MCOne} \cup
  {[path |-> "", pathLocked |-> TRUE, attrs |-> attrs] : attrs \in {MCAbsent}}
=============================================================================
