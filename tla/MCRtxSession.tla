----------------------------- MODULE MCRtxSession -----------------------------
(* Instances of RtxSession for TLC. *)
EXTENDS RtxSession

\* The stream stays inside one cycle of the counter (SeqSpace = 16).
EarlyStart == {3}

MediaOnly == {"media"}

\* The rtx packets count on over the end of the counter.
AtTheEnd == {14}
===============================================================================
