----------------------------- MODULE SfeChecksum -----------------------------
(***************************************************************************)
(* Checksums of the engine: what sfe_ipv4.c and sfe_ipv6.c add to the      *)
(* checksum of a translated packet instead of summing it again (RFC 1624). *)
(* The arithmetic is that of the C code, with its widths; W is a half word *)
(* (2^16) and N a word (2^32).  A word of the header is taken as the CPU   *)
(* reads it.                                                               *)
(***************************************************************************)
EXTENDS Integers, SequencesExt

CONSTANT W
ASSUME WidthAssumption == W \in Nat /\ W >= 10

N == W * W
Half == 0 .. W - 1
Word == 0 .. N - 1

Hi(a) == a \div W
Lo(a) == a % W
Not16(a) == W - 1 - a
Not32(a) == N - 1 - a

\* sum = (sum & 0xffff) + (sum >> 16)
Fold(s) == (s % W) + (s \div W)

\* xlate_src_csum_adjustment, xlate_dest_csum_adjustment
Adjustment(matchIp, matchPort, xlateIp, xlatePort) ==
  Fold(Fold(Hi(matchIp) + Lo(matchIp) + matchPort
            + Hi(Not32(xlateIp)) + Lo(Not32(xlateIp)) + Not16(xlatePort)))

\* xlate_src_partial_csum_adjustment, xlate_dest_partial_csum_adjustment
PartialAdjustment(matchIp, xlateIp) ==
  LET adj == (Not32(matchIp) + xlateIp) % N
  IN Fold(Fold(IF adj < xlateIp THEN (adj + 1) % N ELSE adj))

\* How recv_udp and recv_tcp use an adjustment.
Adjust(check, adj) == Fold(check + adj) % W
AdjustUdp(check, adj) == IF check = 0 THEN 0 ELSE Adjust(check, adj)

\* sfe_ipv4_gen_ip_csum, of the sum of the other halves
IpChecksum(sum) == Not16(Fold(Fold(sum)) % W)

\* One turn of the loop in sfe_ipv6_connection_match_compute_translations.
Turn(s, w) ==
  LET adj == (((s.adj + s.carry) % N) + w) % N
  IN [adj |-> adj, carry |-> IF w > adj THEN 1 ELSE 0]

Adjustment6(words) ==
  LET s == FoldLeft(Turn, [adj |-> 0, carry |-> 0], words)
  IN Fold(Fold((s.adj + s.carry) % N)) % W

-----------------------------------------------------------------------------
\* Equal in ones' complement, of a width whose greatest value is m.
Congruent(a, b, m) == \E k \in Int : a = b + k * m
=============================================================================
