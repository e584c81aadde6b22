---------------------------- MODULE MCFrameCodec ----------------------------
(* Two-byte words of base 4: a word is 0..15, an envelope 6 bytes.  With a    *)
(* limit of 2 the payloads are empty, of the limit, one past it, and one      *)
(* whose frame length wraps to zero.  Payload bytes look like lengths.        *)
EXTENDS FrameCodec

MCIds == {1, 14}

MCPayloads == {<<>>, <<1, 2>>, <<0, 1, 3>>, <<1, 1, 0, 1, 0, 1, 1, 2, 1, 2>>}
=============================================================================
