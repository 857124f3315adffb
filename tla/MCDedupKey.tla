------------------------------ MODULE MCDedupKey ------------------------------
(* Byte 1 is a letter, and NUL is a value of every field but the text.      *)
EXTENDS DedupKey

NulHeads == { << >>, <<1>>, <<NUL>> }
NoScope == { None }
FewTexts == { << >>, <<1>> }
=============================================================================
