---------------------------- MODULE MCMemberSync ----------------------------
(***************************************************************************)
(* Small instances of MemberSync: n1 is in every list but the empty one,   *)
(* n2 and n3 come and go.                                                  *)
(***************************************************************************)
EXTENDS MemberSync

CONSTANTS n1, n2, n3, np1, np2

ComesAndGoes == {{n1}, {n1, n2}}
AllGo == {{}, {n1, n2}, {n1, n3}}
=============================================================================
