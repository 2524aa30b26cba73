----------------------------- MODULE MCFraming ------------------------------
(***************************************************************************)
(* The byte a frame starts with is 3, so that it may also be the length of  *)
(* a frame, a connection id and raw data.                                   *)
(***************************************************************************)
EXTENDS Framing

MCTexts == {<<0>>, <<0, 1>>}
MCFirst == <<0, 1>>
MCDataBodies == {<<3>>, <<1, 3>>, <<3, 2, 1>>}
=============================================================================
