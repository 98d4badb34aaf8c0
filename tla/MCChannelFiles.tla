--------------------------- MODULE MCChannelFiles ---------------------------
(***************************************************************************)
(* Small instances of ChannelFiles.                                        *)
(***************************************************************************)
EXTENDS ChannelFiles
=============================================================================
