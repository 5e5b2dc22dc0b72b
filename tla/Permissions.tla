---------------------------- MODULE Permissions ----------------------------
(***************************************************************************)
(* The permission rules of the board (smolboard/smolboard.go): the ranks    *)
(* and the three checks that every handler goes through.  A check returns   *)
(* Granted, or the error the code returns.                                  *)
(***************************************************************************)
EXTENDS Integers

PermissionGuest         == 0
PermissionUser          == 1
PermissionTrusted       == 2
PermissionAdministrator == 3
PermissionOwner         == 4

AllPermissions == PermissionGuest .. PermissionOwner

\* The permission that a lookup yields for an account that does not exist.
NoPermission == -1

Granted                == "granted"
ErrInvalidPermission   == "invalid permission"
ErrActionNotPermitted  == "action not permitted"

\* A caller of rank p against a minimum rank.
HasPermission(p, min, inclusive) ==
  IF min \notin AllPermissions THEN ErrInvalidPermission
  ELSE IF p > min \/ (inclusive /\ p = min) THEN Granted
  ELSE ErrActionNotPermitted

\* The rank at which a target counts: a deleted account counts as an
\* administrator.
TargetRank(target) ==
  IF target < 0 THEN PermissionAdministrator ELSE target

\* A caller of rank p acting on an account of rank target.
HasPermOverUser(p, min, target, isSelf) ==
  IF min \notin AllPermissions THEN ErrInvalidPermission
  ELSE IF p >= min /\ (isSelf \/ TargetRank(target) < p) THEN Granted
  ELSE ErrActionNotPermitted

\* The same, but one's own account needs no rank at all.
IsUserOrHasPermOver(p, min, target, isSelf) ==
  IF isSelf THEN Granted ELSE HasPermOverUser(p, min, target, FALSE)
=============================================================================
