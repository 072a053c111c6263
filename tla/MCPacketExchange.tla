--------------------------- MODULE MCPacketExchange ----------------------------
(* Instances of PacketExchange for TLC. *)
EXTENDS PacketExchange

\* All lists of at most four numbers.
ShortLists == UNION {[1..n -> 0..SeqSpace-1] : n \in 0..4}

NoList == {<<>>}

Block(lost) ==
  [ssrc |-> 2, fraction_lost |-> 200, cumulative_lost |-> lost, extended_seq |-> 65536,
   jitter |-> 5, lsr |-> 1000, dlsr |-> 2]

MCReports == {<<>>} \cup {<<Block(lost)>> : lost \in {0, 70000, -1, 2^23}}

\* Around the boundaries of a word, at the limit and past it.
MCCnameSizes == {0, 1, 2, 3, 4, 255, 256}
MCReasons == {0, 1, 3, 4, 255}

Extension == [name |-> <<190, 222>>, length |-> 1, content |-> <<9, 8, 7, 6>>]

MCRtpPackets ==
  [m : {0, 1}, payload_type : {0, 72, 96}, sequence_number : {65535}, timestamp : {90000},
   ssrc : {2}, csrcs : {<<>>, <<258>>, <<3, 4>>}, extension : {<<>>, <<Extension>>},
   payload : {<<>>, <<<<7>>>>, <<<<7, 0, 0>>>>}, pad_size : {0, 1, 4}]
===============================================================================
