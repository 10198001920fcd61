--------------------------- MODULE MCPolicyBrowser ---------------------------
(* A bounded instance of PolicyBrowser for TLC. *)
EXTENDS PolicyBrowser

MCOrder == <<"a", "ab", "b">>

\* The filter leaves all, all but the last, or all but the first.
MCMatches == [f \in {"", "a", "b"} |->
                IF f = "" THEN {"a", "ab", "b"} ELSE IF f = "a" THEN {"a", "ab"} ELSE {"ab", "b"}]
=============================================================================
