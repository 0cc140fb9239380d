---------------------------- MODULE MCOscPacket ----------------------------
(* Instance of OscPacket for TLC. *)
EXTENDS OscPacket

\* A string before a value, a blob, and a tag without a value.
MCTypeTags == {<<"s", "i">>, <<"T", "b", "s">>}
=============================================================================
