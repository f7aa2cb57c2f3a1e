------------------------------ MODULE MCBuffer ------------------------------
(* Buffer with two bytes: texts of up to three bytes, for two buffers of one byte. *)
EXTENDS Buffer

MCTexts == {<<>>, <<"x">>, <<"y", "x">>, <<"x", "y", "y">>}
MCShortTexts == {<<"x">>, <<"y">>}
=============================================================================
