----------------------------- MODULE MCRtcpSession -----------------------------
(* Instances of RtcpSession for TLC. *)
EXTENDS RtcpSession

NoneOrTwo == {0, 2}
EarlyOrLate == {3, 6}
===============================================================================
