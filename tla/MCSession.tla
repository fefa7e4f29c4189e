----------------------------- MODULE MCSession -----------------------------
(* Small alphabets for Session: users write a or b, models write a, b or a  *)
(* character the template drops, and the tokenizer may merge ab, or the     *)
(* mark that begins an answer and its a.                                    *)
EXTENDS Session

TextA == {<<"a">>}
TextsAB == {<<"a">>, <<"b">>}
PieceA == {<<"a">>}
PiecesAB == {<<"a">>, <<"b">>}
PiecesAT == {<<"a">>, <<"t">>}
PiecesABT == {<<"a">>, <<"b">>, <<"t">>}
MergesAB == {<<"a", "b">>}
MergesMark == {<<"A", "a">>}
NoMerges == {}
DropsT == {"t"}
NoDrops == {}
NoSystem == <<>>
AnyMode == {"host", "device", "pipelined"}
ServerModes == {"host", "device"}
HostMode == {"host"}
=============================================================================
