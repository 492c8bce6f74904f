----------------------------- MODULE MCTerminal -----------------------------
(***************************************************************************)
(* Terminal on screens of two columns and one or two rows: three bytes      *)
(* typed on the last row meet in one cell.                                  *)
(***************************************************************************)
EXTENDS Terminal

\* A screen of two columns, its cells row by row.
TwoColumns(cells, cursor) ==
    LET rows == Len(cells) \div 2
    IN  [cols |-> 2, rows |-> rows, cursor |-> cursor,
         cells |-> [p \in Pos(2, rows) |-> cells[2 * p[1] + p[2] + 1]],
         wrapped |-> [r \in 0..(rows - 1) |-> FALSE]]

MCCell == {" ", "a", "b"}
MCBlank == " "
MCCursor == {0, 1} \X {0, 1}
MCPrintable == {"a", "b"}
MCControl == {"nl"}
MCScreens == {TwoColumns(<<"a", " ", " ", " ">>, <<1, 0>>),
              TwoColumns(<<"a", " ", "b", " ">>, <<0, 1>>),
              TwoColumns(<<"b", " ">>, <<0, 0>>)}
MCBuffers == {<<"a", "b", "b">>, <<"nl">>}

=============================================================================
