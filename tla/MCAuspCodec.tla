------------------------------ MODULE MCAuspCodec ------------------------------
(***************************************************************************)
(* AuspCodec with texts of one character and a closing brace: "p}" is an   *)
(* ordinary one, "O}" has nine ones in a row; the master's is the brace    *)
(* alone.                                                                  *)
(***************************************************************************)
EXTENDS AuspCodec

MCTexts == [MASTER |-> {<<125>>}, SLAVE |-> {<<79, 125>>}, CONFIG |-> {<<112, 125>>}]
MCLoudness == [MASTER |-> 1, SLAVE |-> 3, CONFIG |-> 2]
=============================================================================
