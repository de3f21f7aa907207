---------------------------- MODULE FrameFormat ----------------------------
(***************************************************************************)
(* EthernetFrame and ARPMessage as bytes.                                  *)
(***************************************************************************)
EXTENDS NetParser

ETHERNET_LENGTH == 14
TYPE_IPv4 == 2048
TYPE_ARP == 2054

EthernetHeaderOf(b) == [dst |-> ethernet(b, 0), src |-> ethernet(b, 6), type |-> u16(b, 12)]

\* A frame too short for its header keeps the fields it was constructed
\* with, and its bytes are taken for the payload without an error.
EthernetFrame_parse(bytes) ==
    LET rest == remove_prefix(NewParser(bytes), ETHERNET_LENGTH)
    IN  IF Len(bytes) < ETHERNET_LENGTH
        THEN [result |-> "NoError",
              frame |-> [header |-> EthernetHeaderOf(Zeros(ETHERNET_LENGTH)), payload |-> <<bytes>>]]
        ELSE [result |-> rest.error,
              frame |-> [header |-> EthernetHeaderOf(bytes), payload |-> <<rest.buffer>>]]

EthernetFrame_serialize(frame) ==
    append(<<frame.header.dst \o frame.header.src \o put16(frame.header.type)>>, frame.payload)

ARP_LENGTH == 28
TYPE_ETHERNET == 1
OPCODE_REQUEST == 1
OPCODE_REPLY == 2

\* The message with this opcode and these addresses.
NewARPMessage(opcode, sender_ethernet, sender_ip, target_ethernet, target_ip) ==
    [hardware_type |-> TYPE_ETHERNET, protocol_type |-> TYPE_IPv4,
     hardware_address_size |-> 6, protocol_address_size |-> 4, opcode |-> opcode,
     sender_ethernet_address |-> sender_ethernet, sender_ip_address |-> sender_ip,
     target_ethernet_address |-> target_ethernet, target_ip_address |-> target_ip]

ARPMessageOf(b) ==
    [hardware_type |-> u16(b, 0), protocol_type |-> u16(b, 2),
     hardware_address_size |-> u8(b, 4), protocol_address_size |-> u8(b, 5),
     opcode |-> u16(b, 6), sender_ethernet_address |-> ethernet(b, 8),
     sender_ip_address |-> u32(b, 14), target_ethernet_address |-> ethernet(b, 18),
     target_ip_address |-> u32(b, 24)]

supported(m) == /\ m.hardware_type = TYPE_ETHERNET
                /\ m.protocol_type = TYPE_IPv4
                /\ m.hardware_address_size = 6
                /\ m.protocol_address_size = 4
                /\ m.opcode \in {OPCODE_REQUEST, OPCODE_REPLY}

\* The message is of interest only if there was no error.
ARPMessage_parse(bytes) ==
    IF Len(bytes) < ARP_LENGTH
    THEN [result |-> "PacketTooShort", msg |-> ARPMessageOf(Zeros(ARP_LENGTH))]
    ELSE [result |-> IF supported(ARPMessageOf(bytes)) THEN "NoError" ELSE "Unsupported",
          msg |-> ARPMessageOf(bytes)]

ARPMessage_serialize(m) ==
    put16(m.hardware_type) \o put16(m.protocol_type) \o put8(m.hardware_address_size)
      \o put8(m.protocol_address_size) \o put16(m.opcode)
      \o m.sender_ethernet_address \o put32(m.sender_ip_address)
      \o m.target_ethernet_address \o put32(m.target_ip_address)
=============================================================================
