------------------------------ MODULE MCLogger ------------------------------
(***************************************************************************)
(* The logger with arguments that are empty, that mean nothing to FormatMsg *)
(* and that look like a part of a placeholder, or like a whole one.        *)
(***************************************************************************)
EXTENDS Logger

MCTexts == {<<>>, <<"a">>, <<"1">>, <<"{">>, <<"{", "0", "}">>, <<"{", "1", "}">>}
=============================================================================
