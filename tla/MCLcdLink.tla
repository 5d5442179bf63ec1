------------------------------ MODULE MCLcdLink -----------------------------
(* Lines of no and of two characters.                                      *)
EXTENDS LcdLink

Texts == {<<>>, <<49, 48>>}

=============================================================================
