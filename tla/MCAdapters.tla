----------------------------- MODULE MCAdapters -----------------------------
(* One server, two clients, and segments with fields at their limits. *)
EXTENDS AdapterNetwork

HostIp == [s |-> <<43200, 2309>>, c |-> <<43200, 2305>>, d |-> <<43200, 2306>>]
HostPort == [s |-> 80, c |-> 40001, d |-> 40001]

Seg(doff, flags, seqno, win, payload) ==
    [header |-> [NewTCPHeader(doff) EXCEPT !.flags = flags, !.seqno = seqno, !.win = win],
     payload |-> payload]

\* A SYN, an odd number of bytes after a header with options, and a RST.
ThreeSegments ==
    {Seg(5, {"syn"}, <<65535, 65535>>, 65535, <<>>),
     Seg(6, {"ack", "psh", "fin"}, <<0, 1>>, 256, <<255, 0, 7>>),
     Seg(5, {"syn", "rst"}, <<0, 0>>, 0, <<9, 9>>)}

Setting(kind, clients, strays, lossy, damage) ==
    [kind |-> kind, clients |-> clients, strays |-> strays, lossy |-> lossy, damage |-> damage]

AllSettings ==
    {Setting("tap", {"c"}, {}, FALSE, {})}
      \cup {Setting(kind, {"c", "d"}, {}, FALSE, {}) : kind \in {"udp", "tun"}}
      \cup {Setting(kind, {"c", "d"}, {"d"}, TRUE, {}) : kind \in {"udp", "tun"}}
      \cup {Setting(kind, {"c"}, {"c"}, FALSE, {1, 128}) : kind \in {"udp", "tun"}}
=============================================================================
