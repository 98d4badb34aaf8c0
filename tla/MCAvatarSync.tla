--------------------------- MODULE MCAvatarSync ---------------------------
(***************************************************************************)
(* Small instances of AvatarSync.                                          *)
(***************************************************************************)
EXTENDS AvatarSync
=============================================================================
