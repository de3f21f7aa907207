--------------------------- MODULE DatagramFormat ---------------------------
(***************************************************************************)
(* IPv4Header and IPv4Datagram as bytes.                                   *)
(***************************************************************************)
EXTENDS NetParser

IPv4_LENGTH == 20
PROTO_TCP == 6

NewIPv4Header == [ver |-> 4, hlen |-> 5, tos |-> 0, len |-> 0, id |-> 0, df |-> TRUE,
                  mf |-> FALSE, offset |-> 0, ttl |-> 128, proto |-> PROTO_TCP, cksum |-> 0,
                  src |-> <<0, 0>>, dst |-> <<0, 0>>]

\* A uint16_t.
payload_length(h) == (h.len - 4 * h.hlen) % 65536

IPv4HeaderOf(b) ==
    [ver |-> u8(b, 0) \div 16, hlen |-> u8(b, 0) % 16, tos |-> u8(b, 1), len |-> u16(b, 2),
     id |-> u16(b, 4), df |-> (u16(b, 6) \div 16384) % 2 = 1,
     mf |-> (u16(b, 6) \div 8192) % 2 = 1, offset |-> u16(b, 6) % 8192, ttl |-> u8(b, 8),
     proto |-> u8(b, 9), cksum |-> u16(b, 10), src |-> u32(b, 12), dst |-> u32(b, 16)]

\* A header shorter than its fixed part is left alone; in every other case
\* the fields are read before anything is checked.
IPv4Header_parse(p) ==
    LET data_size == Len(p.buffer)
        h == IPv4HeaderOf(p.buffer)
        fixed == remove_prefix(p, IPv4_LENGTH)
        rest == remove_prefix(fixed, 4 * h.hlen - IPv4_LENGTH)
        sum == InternetChecksum(0, SubSeq(p.buffer, 1, 4 * h.hlen))
        early(why) == [header |-> h, parser |-> fixed, result |-> why]
    IN  IF data_size < IPv4_LENGTH
        THEN [header |-> NewIPv4Header, parser |-> p, result |-> "PacketTooShort"]
        ELSE IF data_size < 4 * h.hlen THEN early("PacketTooShort")
        ELSE IF h.ver # 4 THEN early("WrongIPVersion")
        ELSE IF h.hlen < 5 THEN early("HeaderTooShort")
        ELSE IF data_size # h.len THEN early("TruncatedPacket")
        ELSE [header |-> h, parser |-> rest,
              result |-> IF sum # 0 THEN "BadChecksum" ELSE "NoError"]

IPv4Header_serialize(h) ==
    put8(16 * h.ver + h.hlen) \o put8(h.tos) \o put16(h.len) \o put16(h.id)
      \o put16((IF h.df THEN 16384 ELSE 0) + (IF h.mf THEN 8192 ELSE 0) + (h.offset % 8192))
      \o put8(h.ttl) \o put8(h.proto) \o put16(h.cksum) \o put32(h.src) \o put32(h.dst)
      \o Zeros(4 * h.hlen - IPv4_LENGTH)

pseudo_cksum(h) ==
    h.src[1] + h.src[2] + h.dst[1] + h.dst[2] + h.proto + payload_length(h)

\* What IPv4Header::parse returns is dropped: of the header's errors only the
\* parser's own, and a wrong length, are reported.
IPv4Datagram_parse(bytes) ==
    LET h == IPv4Header_parse(NewParser(bytes))
    IN  [result |-> IF Len(h.parser.buffer) # payload_length(h.header) THEN "PacketTooShort"
                    ELSE h.parser.error,
         dgram |-> [header |-> h.header, payload |-> <<h.parser.buffer>>]]

\* A payload that is not as long as the header says is an exception.
IPv4Datagram_serialize(dgram) ==
    LET zeroed == [dgram.header EXCEPT !.cksum = 0]
        sum == InternetChecksum(0, IPv4Header_serialize(zeroed))
    IN  CASE size(dgram.payload) = payload_length(dgram.header) ->
            append(<<IPv4Header_serialize([zeroed EXCEPT !.cksum = sum])>>, dgram.payload)
=============================================================================
