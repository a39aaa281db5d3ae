----------------------------- MODULE MCLifecycle -----------------------------
(***************************************************************************)
(* Small instances of Lifecycle: configurations of up to two backends.     *)
(***************************************************************************)
EXTENDS Lifecycle

CONSTANTS b1, b2, odd       \* names, the last of which is none

AllNames  == {b1, b2, odd}
GoodNames == {b1, b2}

\* No flag set, one permission given and reading taken away.
MCFlags == {[p \in Permissions |-> "unset"],
            [p \in Permissions |-> IF p = "update" THEN "yes" ELSE IF p = "read" THEN "no" ELSE "unset"]}

Entry(d, f, s) == [driver |-> d, flags |-> f, ddls |-> s]

MCEntries ==
    {Entry("unset", f, s) : f \in MCFlags,
        s \in {<<>>, <<"repeatable", "repeatable">>, <<"repeatable", "once">>}}
    \cup {Entry("unknown", CHOOSE f \in MCFlags : TRUE, <<>>), NoEntry}

MCFiles == {[b \in {} |-> NoEntry], [b \in {odd} |-> Entry("mysql", [p \in Permissions |-> "yes"], <<>>)]}
              \cup [{b1} -> MCEntries] \cup [{b1, b2} -> MCEntries]
=============================================================================
