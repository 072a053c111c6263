-------------------------- MODULE MCSessionLifecycle ---------------------------
(* SessionLifecycle on media sessions of each direction, with retransmission  *)
(* that is given a cache and with retransmission that is refused.             *)
EXTENDS SessionLifecycle

Rtx(ssrc, difference) ==
  <<[ssrc |-> ssrc, max_cache_seq_difference |-> difference, map |-> [pt \in {97} |-> 96]]>>

Media(direction, local, remote, pts_remote, rtx_local, rtx_remote) ==
  [direction |-> direction, local |-> local, remote |-> remote, rtx_local |-> rtx_local,
   rtx_remote |-> rtx_remote, pts_local |-> {96}, pts_remote |-> pts_remote]

\* Refused for the cache of the receiver, the reports of the session being
\* scheduled already.
RefusedReceiver == <<Media("kSendRecv", 1, 2, {96}, <<>>, Rtx(4, 0))>>

\* Both ways with retransmission; a second session whose sender is refused; a
\* sender and a receiver; a refused receiver; ssrcs that are refused.
MCConfigs == {
  <<Media("kSendRecv", 1, 2, {96}, Rtx(3, 8), Rtx(4, 8))>>,
  <<Media("kSendRecv", 1, 2, {96}, <<>>, Rtx(4, 8)), Media("kSendOnly", 5, 6, {}, Rtx(7, 0), <<>>)>>,
  <<Media("kRecvOnly", 5, 4, {97}, <<>>, <<>>), Media("kSendOnly", 1, 2, {}, <<>>, <<>>)>>,
  RefusedReceiver,
  <<Media("kSendRecv", 1, 2, {96}, <<>>, Rtx(2, 8))>>}

Datagram(pt, ssrc, position, whole) ==
  [pt |-> pt, ssrc |-> ssrc, position |-> position, whole |-> whole]

\* The second packet of a stream; the first one, as rtx or, to the receiver of the
\* third configuration, as media; the second one again, which is too short for rtx;
\* a NACK (205 less its high bit) from the first remote side.
MCDatagrams == {
  Datagram(96, 2, 2, TRUE), Datagram(97, 4, 1, TRUE), Datagram(97, 4, 2, FALSE),
  Datagram(77, 2, 1, TRUE)}
===============================================================================
