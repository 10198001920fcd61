-------------------------- MODULE ReviewedPolicies --------------------------
(***************************************************************************)
(* What the editor promises a server it shares with other clients, with no *)
(* versions, requests or screens: a policy changes only by the hand of     *)
(* another client, or by one of the changes this editor's user has         *)
(* confirmed and that is still outstanding.  A confirmed update replaces   *)
(* the text the user was shown, a confirmed create replaces nothing, and a *)
(* confirmed delete removes whatever is there.                             *)
(***************************************************************************)
CONSTANTS Names, Bodies, None, Ops

VARIABLES
  policies,   \* each name's text, None when there is none, and who put it there
  confirmed   \* the changes the user has confirmed and nobody has answered

vars == <<policies, confirmed>>

Held == [body : Bodies \cup {None}, by : {"editor", "others"}]
Change == [op : Ops, kind : {"create", "update", "delete"}, name : Names,
           left : Bodies \cup {None}, right : Bodies \cup {None}]

Init ==
  /\ policies \in [Names -> [body : Bodies \cup {None}, by : {"others"}]]
  /\ confirmed = {}

\* A change is confirmed once: no operation carries two.
Confirm ==
  /\ \E c \in Change :
       /\ \A d \in confirmed : d.op # c.op
       /\ confirmed' = confirmed \cup {c}
  /\ UNCHANGED policies

\* The change is what the user saw: an update finds the text on the left of
\* the diff, a create finds nothing.  It may stay outstanding, to be sent
\* again when its answer is lost.
Land ==
  \E c \in confirmed :
    /\ c.kind # "delete" => policies[c.name].body = c.left
    /\ policies' = [policies EXCEPT ![c.name] =
                      [body |-> IF c.kind = "delete" THEN None ELSE c.right,
                       by |-> "editor"]]
    /\ confirmed' \in {confirmed, confirmed \ {c}}

Withdraw ==
  /\ \E c \in confirmed : confirmed' = confirmed \ {c}
  /\ UNCHANGED policies

Others ==
  /\ \E n \in Names, b \in Bodies \cup {None} :
       policies' = [policies EXCEPT ![n] = [body |-> b, by |-> "others"]]
  /\ UNCHANGED confirmed

Next == Confirm \/ Land \/ Withdraw \/ Others

Spec == Init /\ [][Next]_vars

=============================================================================
