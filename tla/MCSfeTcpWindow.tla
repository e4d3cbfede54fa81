--------------------------- MODULE MCSfeTcpWindow ---------------------------
(***************************************************************************)
(* One connection whose data goes one way, across the wrap of its numbers. *)
(* The run also evaluates the checksum arithmetic of the packets that the  *)
(* engine translates, at width W, on words around the carries.             *)
(***************************************************************************)
EXTENDS SfeTcpWindow, SfeChecksum

CONSTANTS OrigBytes, ReplyBytes
DataBytes == [d \in Dirs |-> IF d = "orig" THEN OrigBytes ELSE ReplyBytes]

EdgeWords == {0, 1, W - 1, W, 4 * W + 2, N - W, N - W + 5, N - 2, N - 1}
Same(a, b) == (a - b) % (W - 1) = 0
Halves(a) == Hi(a) + Lo(a)

\* Every adjusted checksum is the one of the new header.
ASSUME AdjustmentChecked ==
  \A a, b \in EdgeWords, p, q, c \in Half :
    LET adj == Adjustment(a, p, b, q) IN
    /\ adj \in Half /\ Same(Adjust(c, adj), c + Halves(a) + p - Halves(b) - q)
    /\ c # 0 => AdjustUdp(c, adj) # 0

ASSUME PartialChecked ==
  \A a, b \in EdgeWords, c \in Half :
    Same(Adjust(c, PartialAdjustment(a, b)), c + Halves(b) - Halves(a))

ASSUME IpChecksumChecked == \A s \in 0 .. 10 * (W - 1) : Same(s + IpChecksum(s), 0)

\* The loop of the IPv6 engine loses no carry.
ASSUME Adjustment6Checked ==
  \A a, b, c, d \in EdgeWords : Same(Adjustment6(<<a, b, c, d>>), a + b + c + d)
=============================================================================
