--------------------------- MODULE MCTenantNames ----------------------------
(***************************************************************************)
(* TLC instances of TenantNames.                                           *)
(***************************************************************************)
EXTENDS TenantNames

\* IDs at the limits: too long, as long as they may be, with a longest and with a
\* short auxiliary name.
Lengths == [z |-> 57, y |-> 56, x |-> 51, w |-> 3, v |-> 1]

\* Two tenants of which one is named like the migration target of the other.
SuffixedIDs == {<<"w">>, <<"w", "_new">>}

MixedIDs == {<<"z">>, <<"y">>, <<"x">>, <<"v">>} \cup SuffixedIDs

=============================================================================
