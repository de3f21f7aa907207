--------------------------- MODULE SegmentFormat ---------------------------
(***************************************************************************)
(* TCPHeader and TCPSegment as bytes.                                      *)
(***************************************************************************)
EXTENDS NetParser

TCP_LENGTH == 20

\* A header whose fields are zero, of a length in 32-bit words.
NewTCPHeader(doff) == [sport |-> 0, dport |-> 0, seqno |-> <<0, 0>>, ackno |-> <<0, 0>>,
                       doff |-> doff, flags |-> {}, win |-> 0, cksum |-> 0, uptr |-> 0]

\* The bit of each flag.
FlagBit == [urg |-> 32, ack |-> 16, psh |-> 8, rst |-> 4, syn |-> 2, fin |-> 1]
FlagsOf(byte) == {f \in DOMAIN FlagBit : (byte \div FlagBit[f]) % 2 = 1}
FlagByte(flags) == MapThenSumSet(LAMBDA f : FlagBit[f], flags)

TCPHeaderOf(b) ==
    [sport |-> u16(b, 0), dport |-> u16(b, 2), seqno |-> u32(b, 4), ackno |-> u32(b, 8),
     doff |-> u8(b, 12) \div 16, flags |-> FlagsOf(u8(b, 13)), win |-> u16(b, 14),
     cksum |-> u16(b, 16), uptr |-> u16(b, 18)]

\* Header and parser after TCPHeader::parse, and what it returns.  Nobody
\* looks at the fields of a header that is cut short.
TCPHeader_parse(p) ==
    LET h == TCPHeaderOf(p.buffer)
        fixed == remove_prefix(p, TCP_LENGTH)
        rest == remove_prefix(fixed, 4 * h.doff - TCP_LENGTH)
    IN  IF fixed.error # "NoError"
        THEN [header |-> NewTCPHeader(0), parser |-> fixed, result |-> "HeaderTooShort"]
        ELSE IF h.doff < 5 THEN [header |-> h, parser |-> fixed, result |-> "HeaderTooShort"]
        ELSE [header |-> h, parser |-> rest, result |-> rest.error]

\* What extends the header to its advertised size.
Options(h) == Zeros(4 * h.doff - TCP_LENGTH)

TCPHeader_serialize(h) ==
    put16(h.sport) \o put16(h.dport) \o put32(h.seqno) \o put32(h.ackno)
      \o put8(16 * h.doff) \o put8(FlagByte(h.flags)) \o put16(h.win) \o put16(h.cksum)
      \o put16(h.uptr) \o Options(h)

\* Mutant: the segment is taken without a look at its checksum.
Intact_unchecked(bytes, datagram_layer_checksum) == TRUE

Intact(bytes, datagram_layer_checksum) == InternetChecksum(datagram_layer_checksum, bytes) = 0

\* The result of parsing, and the segment.  Of TCPHeader::parse only what
\* the parser noticed counts.
TCPSegment_parse(bytes, datagram_layer_checksum) ==
    IF ~Intact(bytes, datagram_layer_checksum)
    THEN [result |-> "BadChecksum", seg |-> [header |-> NewTCPHeader(5), payload |-> <<>>]]
    ELSE LET h == TCPHeader_parse(NewParser(bytes))
         IN  [result |-> h.parser.error,
              seg |-> [header |-> h.header, payload |-> h.parser.buffer]]

\* A BufferList.
TCPSegment_serialize(seg, datagram_layer_checksum) ==
    LET zeroed == [seg.header EXCEPT !.cksum = 0]
        sum == InternetChecksum(datagram_layer_checksum,
                                TCPHeader_serialize(zeroed) \o seg.payload)
    IN  append(<<TCPHeader_serialize([zeroed EXCEPT !.cksum = sum])>>, <<seg.payload>>)
=============================================================================
