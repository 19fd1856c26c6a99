------------------------- MODULE MCKeycloakIdentity -------------------------
(***************************************************************************)
(* TLC instances of KeycloakIdentity.                                      *)
(***************************************************************************)
EXTENDS KeycloakIdentity

BothSagas == {"provision", "delete"}

=============================================================================
