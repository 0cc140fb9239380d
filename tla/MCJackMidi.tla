----------------------------- MODULE MCJackMidi -----------------------------
(***************************************************************************)
(* Short messages, alone or with a longer one, an event as large as the    *)
(* buffer of the receiver and one that is larger; three events of a        *)
(* recovery do not all fit in a ring.                                      *)
(***************************************************************************)
EXTENDS JackMidi

MCCycleLens == [receive |-> {<<>>, <<3>>, <<3, 8>>, <<20>>, <<24>>},
                recover |-> {<<>>, <<4>>, <<4, 20>>},
                output  |-> {<<>>}]
=============================================================================
