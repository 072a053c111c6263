----------------------------- MODULE MCFecSession -----------------------------
(***************************************************************************)
(* FecSession for TLC.                                                     *)
(***************************************************************************)
EXTENDS FecSession

Call(m, i, method, factor, type) ==
    [media |-> m, important |-> i, method |-> method, factor |-> factor, type |-> type]

\* Blocks of all sizes that matter to the masks: up to and above the 12 media
\* packets of the tables, up to and above the 16 of the short mask, the most.
Sizes == 1..14 \cup {16, 17, 18, 33, 48}

EveryCall == UNION {
    {Call(m, i, me, f, t) : i \in {0, 1, m \div 4, m \div 2, m}, me \in Methods,
        f \in {0, 1, 100, 255}, t \in MaskTypes} : m \in Sizes}

\* What is sent: 1 to 3 media packets, with one FEC packet or as many.
SmallCalls == {Call(m, 0, "kNone", f, "kFecMaskRandom") : m \in 1..3, f \in {1, 255}}

MCCalls == <<EveryCall, SmallCalls>>

\* Blocks whose first rows protect the important packets alone.
NoOverlapCalls == {Call(m, i, "kModeNoOverlap", 255, "kFecMaskRandom") :
    m \in {12, 16, 17, 18, 20}, i \in 0..12}

NoOverlap == <<NoOverlapCalls>>
=============================================================================
