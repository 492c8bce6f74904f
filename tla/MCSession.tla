----------------------------- MODULE MCSession ------------------------------
(***************************************************************************)
(* Small instances of Session: screens of one row and one or two columns.   *)
(***************************************************************************)
EXTENDS SessionDelivery

Screen(cells) ==
    [cols |-> Len(cells), rows |-> 1, cursor |-> 0,
     cells |-> [p \in Pos(Len(cells), 1) |-> cells[p[2] + 1]],
     wrapped |-> [y \in {0} |-> FALSE]]

MCCell == {" ", "a", "b"}
MCBlank == " "
MCCursor == {0}
OneScreen == {Screen(<<"a">>)}
TwoScreens == {Screen(<<"a", " ">>), Screen(<<" ", "a">>)}
TwoSizes == {Screen(<<"a">>), Screen(<<" ", "b">>)}
NarrowSize == {<<1, 1>>}
WideSize == {<<2, 1>>}
BothSizes == {<<1, 1>>, <<2, 1>>}

=============================================================================
