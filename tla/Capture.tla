------------------------------- MODULE Capture -------------------------------
(***************************************************************************)
(* Reading a PCAP file and the headers of its packets: parse_pcap,         *)
(* decode_packet_payload, parse_ethernet, parse_ipv4_packet,               *)
(* parse_tcp_segment and parse_udp_datagram in src/src/packet/packet.cpp.  *)
(*                                                                         *)
(* A file is its length and the numbers that stand in its headers; what is *)
(* left of them when the file or a packet ends early is decided by the     *)
(* lengths.  Lengths and offsets are those of the code.  A DNS message is  *)
(* the number of bytes it needs: DnsMessage shows that a message is read   *)
(* whatever follows it, and that a part of one is not.                     *)
(***************************************************************************)
EXTENDS Integers, SequencesExt, FiniteSetsExt

CONSTANT Files             \* the files that are read

EtherTypes == {"ipv4", "tag", "other"}
Protocols  == {"tcp", "udp", "other"}
(* Values a header may have that leave a warning and change nothing else.  *)
Oddities   == {"ipv4.ttl", "ipv4.checksum", "tcp.flags", "dns.truncated"}
Frame == [ether_type : EtherTypes, inner : EtherTypes, version : Nat, ihl : Nat,
          total_length : Nat, protocol : Protocols, odd : SUBSET Oddities,
          data_offset : Nat, udp_length : Nat, port53 : BOOLEAN, dns : Nat]
Record == [incl_len : Nat, frame : Frame]

ASSUME FilesAssumption ==
    Files \subseteq [size : Nat, magic : BOOLEAN, major : Nat, link_type : Nat,
                     records : Seq(Record)]

VARIABLES file,
          stage,           \* what is read next, or the answer
          offset,          \* where in the file the loop is
          packet,          \* the packet whose headers are read
          packets,         \* those before it
          diagnostics

vars == <<file, stage, offset, packet, packets, diagnostics>>

(* The warning for such a value.                                           *)
Warn(code) == IF code \in packet.frame.odd THEN <<code>> ELSE << >>

Errors == {"pcap file too short", "unsupported pcap magic"}

(* A packet: where in the file it begins, its bytes, and the lengths of    *)
(* the headers that were read, 0 for one that is not there.                *)
NewPacket(record, from) ==
    [frame |-> record.frame, from |-> from, captured |-> record.incl_len,
     ethernet |-> 0, ipv4 |-> 0, ip_payload |-> 0, tcp |-> 0, udp |-> 0,
     payload |-> 0, dns |-> FALSE, notes |-> << >>]

(* Behind the records that a file is given by it is full of zeros.         *)
Zeros == [incl_len |-> 0,
          frame |-> [ether_type |-> "other", inner |-> "other", version |-> 0, ihl |-> 0,
                     total_length |-> 0, protocol |-> "other", odd |-> {},
                     data_offset |-> 0, udp_length |-> 0, port53 |-> FALSE, dns |-> 0]]
RecordAt(k) == IF k \in DOMAIN file.records THEN file.records[k] ELSE Zeros

Init ==
    /\ file \in Files
    /\ stage = "file"
    /\ offset = 0
    /\ packet = NewPacket(Zeros, 0)
    /\ packets = << >>
    /\ diagnostics = << >>

-----------------------------------------------------------------------------
(* The file.                                                               *)

ReadFileHeader ==
    /\ stage = "file"
    /\ \/ /\ file.size < 24
          /\ stage' = "pcap file too short"
          /\ UNCHANGED <<offset, diagnostics>>
       \/ /\ file.size >= 24 /\ ~file.magic
          /\ stage' = "unsupported pcap magic"
          /\ UNCHANGED <<offset, diagnostics>>
       \/ /\ file.size >= 24 /\ file.magic
          /\ stage' = "record" /\ offset' = 24
          /\ diagnostics' = IF file.major # 2 THEN <<"pcap.version">> ELSE << >>
    /\ UNCHANGED <<file, packet, packets>>

(* The loop has come to the end of the file.                               *)
EndOfFile ==
    /\ stage = "record" /\ offset >= file.size
    /\ stage' = "ok"
    /\ UNCHANGED <<file, offset, packet, packets, diagnostics>>

(* Fault: what is left at the end is nobody's.                             *)
TrailingBytesUnmentioned ==
    /\ stage = "record" /\ offset < file.size /\ file.size - offset < 16
    /\ stage' = "ok"
    /\ UNCHANGED <<file, offset, packet, packets, diagnostics>>

TrailingBytes ==
    /\ stage = "record" /\ offset < file.size /\ file.size - offset < 16
    /\ stage' = "ok"
    /\ diagnostics' = Append(diagnostics, "pcap.record")
    /\ UNCHANGED <<file, offset, packet, packets>>

HasRecord == stage = "record" /\ offset < file.size /\ file.size - offset >= 16
NextRecord == RecordAt(Len(packets) + 1)

(* Fault: a packet that ends with the file is taken to go on behind it.    *)
PacketAtTheEnd ==
    /\ HasRecord
    /\ NextRecord.incl_len >= file.size - (offset + 16)
    /\ stage' = "ok" /\ offset' = offset + 16
    /\ diagnostics' = Append(diagnostics, "pcap.packet")
    /\ UNCHANGED <<file, packet, packets>>

(* A packet that is said to go on behind the end of the file ends it.      *)
PacketTooLong ==
    /\ HasRecord
    /\ NextRecord.incl_len > file.size - (offset + 16)
    /\ stage' = "ok" /\ offset' = offset + 16
    /\ diagnostics' = Append(diagnostics, "pcap.packet")
    /\ UNCHANGED <<file, packet, packets>>

(* Fault: packets are taken to be filled up to whole words.                *)
LeaveAligned(p) ==
    /\ packets' = Append(packets, p)
    /\ offset' = p.from + 4 * ((p.captured + 3) \div 4)
    /\ stage' = "record"
    /\ packet' = p
    /\ UNCHANGED file

(* A packet is complete; the loop goes on behind it.                       *)
Leave(p) ==
    /\ packets' = Append(packets, p)
    /\ offset' = p.from + p.captured
    /\ stage' = "record"
    /\ packet' = p
    /\ UNCHANGED file

(* Its headers go on.                                                      *)
Descend(p, next) ==
    /\ packet' = p
    /\ stage' = next
    /\ UNCHANGED <<file, offset, packets>>

LeaveNoting(note) ==
    Leave([packet EXCEPT !.notes = Append(@, note)]) /\ UNCHANGED diagnostics

BeginPacket ==
    /\ HasRecord
    /\ NextRecord.incl_len <= file.size - (offset + 16)
    /\ packet' = NewPacket(NextRecord, offset + 16)
    /\ stage' = IF file.link_type = 1 THEN "ethernet" ELSE "unsupported"
    /\ offset' = offset + 16
    /\ UNCHANGED <<file, packets, diagnostics>>

-----------------------------------------------------------------------------
(* The headers of a packet.                                                *)

UnsupportedLink == stage = "unsupported" /\ LeaveNoting("unsupported link type")

(* A tagged frame has its type four bytes further on.                      *)
ReadEthernet ==
    /\ stage = "ethernet"
    /\ LET frame == packet.frame
           tagged == frame.ether_type = "tag"
           type == IF tagged THEN frame.inner ELSE frame.ether_type
           with == [packet EXCEPT !.ethernet = IF tagged THEN 18 ELSE 14]
       IN  \/ /\ packet.captured < 14
              /\ LeaveNoting("ethernet frame too short")
           \/ /\ packet.captured \in 14 .. 17 /\ tagged
              /\ LeaveNoting("tagged ethernet frame too short")
           \/ /\ packet.captured >= (IF tagged THEN 18 ELSE 14)
              /\ diagnostics' = diagnostics \o (IF tagged THEN <<"ethernet.vlan">> ELSE << >>)
              /\ IF type = "ipv4" THEN Descend(with, "ipv4") ELSE Leave(with)

(* Fault: a length that is not that of the bytes there are is believed.    *)
ReadIpv4Unclamped ==
    /\ stage = "ipv4"
    /\ LET frame == packet.frame
           size == packet.captured - packet.ethernet
           header == 4 * frame.ihl
       IN  \/ /\ size < 20 \/ frame.version # 4 \/ frame.ihl < 5 \/ header > size
                  \/ frame.total_length < header
              /\ LeaveNoting("invalid ipv4 header length")
           \/ /\ size >= 20 /\ frame.version = 4 /\ frame.ihl >= 5 /\ header <= size
              /\ frame.total_length >= header
              /\ Descend([packet EXCEPT !.ipv4 = header,
                                        !.ip_payload = frame.total_length - header],
                         frame.protocol)
              /\ UNCHANGED diagnostics

(* The total length may say more than was captured: then what was captured *)
(* counts, and a warning is left.                                          *)
ReadIpv4 ==
    /\ stage = "ipv4"
    /\ LET frame == packet.frame
           size == packet.captured - packet.ethernet
           header == 4 * frame.ihl
           total == IF frame.total_length > size THEN size ELSE frame.total_length
           readable == /\ size >= 20 /\ frame.version = 4
                       /\ frame.ihl >= 5 /\ header <= size
       IN  \/ /\ size < 20
              /\ LeaveNoting("ipv4 packet too short")
           \/ /\ size >= 20 /\ frame.version # 4
              /\ LeaveNoting("not an ipv4 packet")
           \/ /\ size >= 20 /\ frame.version = 4
              /\ frame.ihl < 5 \/ header > size
              /\ LeaveNoting("invalid ipv4 header length")
           \/ /\ readable /\ frame.total_length < header
              /\ diagnostics' = Append(diagnostics, "ipv4.length")
              /\ Leave([packet EXCEPT !.notes = Append(@, "invalid ipv4 total length")])
           \/ /\ readable /\ frame.total_length >= header
              /\ diagnostics' = diagnostics
                    \o (IF frame.total_length > size THEN <<"ipv4.length">> ELSE << >>)
                    \o Warn("ipv4.ttl") \o Warn("ipv4.checksum")
              /\ LET with == [packet EXCEPT !.ipv4 = header, !.ip_payload = total - header]
                 IN  IF frame.protocol = "other" THEN Leave(with)
                     ELSE Descend(with, frame.protocol)

ReadTcp ==
    /\ stage = "tcp"
    /\ LET header == 4 * packet.frame.data_offset
           size == packet.ip_payload
       IN  \/ /\ size < 20
              /\ LeaveNoting("tcp segment too short")
           \/ /\ size >= 20
              /\ packet.frame.data_offset < 5 \/ header > size
              /\ LeaveNoting("invalid tcp data offset")
           \/ /\ size >= 20 /\ packet.frame.data_offset >= 5 /\ header <= size
              /\ Leave([packet EXCEPT !.tcp = header, !.payload = size - header])
              /\ diagnostics' = diagnostics \o Warn("tcp.flags")

(* Fault: a datagram that cannot be read leaves no note.                   *)
ReadUdpSilent ==
    /\ stage = "udp"
    /\ LET size == packet.ip_payload
           length == packet.frame.udp_length
       IN  \/ /\ size < 8 \/ length < 8
              /\ Leave(packet) /\ UNCHANGED diagnostics
           \/ /\ size >= 8 /\ length >= 8
              /\ LET with == [packet EXCEPT !.udp = 8,
                                 !.payload = (IF length > size THEN size ELSE length) - 8]
                 IN  Leave(with)
              /\ UNCHANGED diagnostics

(* The length of a datagram, too, may say more than was captured.          *)
ReadUdp ==
    /\ stage = "udp"
    /\ LET size == packet.ip_payload
           length == packet.frame.udp_length
       IN  \/ /\ size < 8
              /\ LeaveNoting("udp datagram too short")
           \/ /\ size >= 8 /\ length < 8
              /\ LeaveNoting("invalid udp length")
           \/ /\ size >= 8 /\ length >= 8
              /\ diagnostics' = diagnostics \o (IF length > size THEN <<"udp.length">> ELSE << >>)
              /\ LET with == [packet EXCEPT !.udp = 8,
                                 !.payload = (IF length > size THEN size ELSE length) - 8]
                 IN  IF packet.frame.port53 THEN Descend(with, "dns") ELSE Leave(with)

(* A message to or from port 53; see DnsMessage.                           *)
ReadDns ==
    /\ stage = "dns"
    /\ \/ /\ packet.payload < packet.frame.dns
          /\ LeaveNoting("dns")
       \/ /\ packet.payload >= packet.frame.dns
          /\ Leave([packet EXCEPT !.dns = TRUE])
          /\ diagnostics' = diagnostics \o Warn("dns.truncated")

ReadHeader ==
    UnsupportedLink \/ ReadEthernet \/ ReadIpv4 \/ ReadTcp \/ ReadUdp \/ ReadDns

(* The call has returned.  A read that stops anywhere else is a deadlock.  *)
Returned == stage \in Errors \cup {"ok"} /\ UNCHANGED vars

Next ==
    \/ ReadFileHeader
    \/ EndOfFile
    \/ TrailingBytes
    \/ PacketTooLong
    \/ BeginPacket
    \/ ReadHeader
    \/ Returned

Spec == Init /\ [][Next]_vars

-----------------------------------------------------------------------------
(* protocol_histogram: a packet counts as the last header that was read.   *)

CountsAs(p) ==
    IF p.dns               THEN "dns"
    ELSE IF p.tcp > 0      THEN "tcp"
    ELSE IF p.udp > 0      THEN "udp"
    ELSE IF p.ipv4 > 0     THEN "ip"
    ELSE IF p.ethernet > 0 THEN "ethernet"
    ELSE "undecoded"

-----------------------------------------------------------------------------
(* Properties.                                                             *)

(* The values that the variables may have.                                 *)
TypeOK ==
    /\ stage \in Errors \cup {"file", "record", "unsupported", "ethernet", "ipv4",
                              "tcp", "udp", "dns", "ok"}
    /\ offset \in 0 .. file.size
    /\ packet.frame \in Frame
    /\ \A f \in {"from", "captured", "ethernet", "ipv4", "ip_payload", "tcp", "udp",
                 "payload"} : packet[f] \in Nat

(* The headers lie inside each other and inside the captured bytes, and    *)
(* those inside the file: no length that a header passes on leads beyond.  *)
Inside(p) ==
    /\ p.from + p.captured <= file.size
    /\ p.ethernet + p.ipv4 + p.ip_payload <= p.captured
    /\ p.tcp + p.udp + p.payload <= p.ip_payload
    /\ p.dns => p.frame.dns <= p.payload

HeadersInside == Inside(packet) /\ \A k \in DOMAIN packets : Inside(packets[k])

(* The end of the last packet, or of the header of the file.               *)
ReadUpTo == IF packets = << >> THEN 24 ELSE Last(packets).from + Last(packets).captured

(* The packets lie in the file in their order, with the 16 bytes of their  *)
(* own header before each: no byte belongs to two packets, none is lost    *)
(* between two.                                                            *)
PacketsTile ==
    /\ \A k \in DOMAIN packets :
          packets[k].from = 16 + IF k = 1 THEN 24
                                 ELSE packets[k - 1].from + packets[k - 1].captured
    /\ stage = "record" => offset = ReadUpTo

(* Once a file is read, its packets reach to its end, or the last of the   *)
(* diagnostics says what of it is left: a capture that was cut is not      *)
(* taken for a whole one.                                                  *)
EndExplained ==
    stage = "ok" =>
        \/ ReadUpTo = file.size
        \/ /\ ReadUpTo < file.size /\ diagnostics # << >>
           /\ Last(diagnostics) \in {"pcap.record", "pcap.packet"}

(* How many of the records of the file lie wholly inside it.               *)
Whole ==
    LET ends[k \in 0 .. Len(file.records)] ==
            IF k = 0 THEN 24 ELSE ends[k - 1] + 16 + file.records[k].incl_len
    IN  Max({k \in DOMAIN ends : ends[k] <= file.size})

(* The packet has the bytes of the record.                                 *)
Holds(p, record) == p.captured = record.incl_len /\ p.frame = record.frame

(* Wherever a file was cut, the records before the cut are all read, each  *)
(* as the packet with its number, its length and its bytes.  The one that  *)
(* is said to be longer than the file is not among them: parse_pcap drops  *)
(* it, although tests/packet/packet_tests.cpp:28-33 asks for the packet of *)
(* a capture that is three bytes short of what line 14 says of it.         *)
WholePacketsRead ==
    stage = "ok" =>
        /\ Len(packets) >= Whole
        /\ \A k \in 1 .. Whole : Holds(packets[k], file.records[k])

(* What the headers of a frame promise that the packet counts as.          *)
Promised(frame) ==
    LET type == IF frame.ether_type = "tag" THEN frame.inner ELSE frame.ether_type
    IN  IF type # "ipv4"                 THEN "ethernet"
        ELSE IF frame.protocol = "other" THEN "ip"
        ELSE IF frame.protocol = "tcp"   THEN "tcp"
        ELSE IF frame.port53             THEN "dns"
        ELSE "udp"

(* A packet counts as less than its headers promise exactly when a note    *)
(* says why: there is no path out of the decoder that drops a header in    *)
(* silence, and none that notes one and reads on.                          *)
GapsNoted ==
    \A k \in DOMAIN packets :
        packets[k].notes = << >> <=> CountsAs(packets[k]) = Promised(packets[k].frame)
=============================================================================
