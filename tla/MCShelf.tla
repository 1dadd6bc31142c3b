------------------------------ MODULE MCShelf ------------------------------
(* The composer over the windows of two conversations.                      *)
EXTENDS Shelf

CONSTANTS main, side, ask, other

TwoTasks == {main, side}
SomeTexts == {Blank, ask, other}

=============================================================================
