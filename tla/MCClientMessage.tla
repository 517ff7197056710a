-------------------------- MODULE MCClientMessage --------------------------
(***************************************************************************)
(* ClientMessage with small constants: names of one, two and three words,  *)
(* and one that is not printable.                                          *)
(***************************************************************************)
EXTENDS ClientMessage

CONSTANTS ann, lee, bell, empty

MCWords == {ann, lee, bell, empty}
MCPrintable == {<<>>, <<ann>>, <<ann, lee>>, <<lee, ann, lee>>}
MCNames == MCPrintable \cup {<<bell>>}
=============================================================================
