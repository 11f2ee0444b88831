--------------------------- MODULE MCSharedBuffer ---------------------------
(* SharedBuffer.tla for TLC: a ring of two slots, so in and out wrap     *)
(* after two items; two distinct item values, so order is visible.       *)
EXTENDS SharedBuffer

MCBufferSize == 2
MCItems == {10, 20}
MCMaxTotal == 3

\* every address the callers pass is good
MCGoodAddresses == {TRUE}

\* a caller may pass a bad address
MCAnyAddresses == {TRUE, FALSE}

=============================================================================
