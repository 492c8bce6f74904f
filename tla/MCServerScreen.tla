--------------------------- MODULE MCServerScreen ---------------------------
(***************************************************************************)
(* A small instance of ServerScreen: screens of one or two rows.            *)
(***************************************************************************)
EXTENDS ServerScreen

OneOrTwoRows == {<<1, 1>>, <<1, 2>>}

=============================================================================
