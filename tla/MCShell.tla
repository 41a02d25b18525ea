------------------------------ MODULE MCShell ------------------------------
(***************************************************************************)
(* A small instance of Shell: a screen of three rows, a line as long as    *)
(* two rows less the prompt, and another task that prints characters or a  *)
(* line of its own at any time.                                            *)
(***************************************************************************)
EXTENDS Shell

MCPrompt == <<">", ":">>
MCCommands == {<<"a">>}
MCCls == <<"a", "a">>
MCOutputs == {<<"a", Nl>>}
MCOtherTexts == {<<"x", "x">>, <<Tab, Nl>>}
MCStartRows == {1}
MCJunk == {Nul, "a"}
=============================================================================
