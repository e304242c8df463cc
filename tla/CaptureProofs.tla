---------------------------- MODULE CaptureProofs ----------------------------
(* What TLAPS proves of Capture, for every set of files.                       *)
EXTENDS Capture, SequenceTheorems, WellFoundedInduction, TLAPS

Codes == {"pcap.version", "pcap.record", "pcap.packet", "ethernet.vlan", "ipv4.length",
          "udp.length"} \cup Oddities
Notes == {"unsupported link type", "ethernet frame too short",
          "tagged ethernet frame too short", "ipv4 packet too short", "not an ipv4 packet",
          "invalid ipv4 header length", "invalid ipv4 total length", "tcp segment too short",
          "invalid tcp data offset", "udp datagram too short", "invalid udp length", "dns"}

Packet == [frame : Frame, from : Nat, captured : Nat, ethernet : Nat, ipv4 : Nat,
           ip_payload : Nat, tcp : Nat, udp : Nat, payload : Nat, dns : BOOLEAN,
           notes : Seq(Notes)]

Answers == Errors \cup {"ok"}
Headers == {"unsupported", "ethernet", "ipv4", "tcp", "udp", "dns"}

Typed ==
    /\ file \in Files
    /\ stage \in Answers \cup Headers \cup {"file", "record"}
    /\ offset \in Nat
    /\ packet \in Packet
    /\ packets \in Seq(Packet)
    /\ diagnostics \in Seq(Codes)

(* The packets read so far: inside the file, inside themselves, in a row.      *)
Row ==
    /\ \A k \in DOMAIN packets :
          /\ Inside(packets[k])
          /\ packets[k].from = 16 + IF k = 1 THEN 24
                                    ELSE packets[k - 1].from + packets[k - 1].captured
    /\ stage \in {"file"} \cup Errors => packets = << >> /\ offset = 0
    /\ stage \notin {"file"} \cup Errors => ReadUpTo <= file.size

(* The packet whose headers are read follows them; those of its headers that   *)
(* are still to come are empty.                                                *)
Current ==
    /\ Inside(packet)
    /\ stage \in Headers => packet.from = 16 + ReadUpTo /\ offset = packet.from
    /\ stage \in Headers => packet.tcp = 0 /\ ~packet.dns
    /\ stage \in Headers \ {"dns"} => packet.udp = 0 /\ packet.payload = 0
    /\ stage \in {"unsupported", "ethernet"} => packet.ethernet = 0
    /\ stage \in {"unsupported", "ethernet", "ipv4"} => packet.ipv4 = 0 /\ packet.ip_payload = 0

(* The end that a stage has reached.                                           *)
Reached ==
    /\ offset <= file.size
    /\ stage = "record" => offset = ReadUpTo
    /\ EndExplained

IInv == Typed /\ Row /\ Current /\ Reached

-----------------------------------------------------------------------------
(* What a file holds.                                                          *)
LEMMA FileTyped ==
    ASSUME file \in Files
    PROVE  /\ file.size \in Nat /\ file.link_type \in Nat /\ file.major \in Nat
           /\ file.magic \in BOOLEAN
           /\ \A k \in Nat : RecordAt(k).incl_len \in Nat /\ RecordAt(k).frame \in Frame
<1>1. /\ file \in [size : Nat, magic : BOOLEAN, major : Nat, link_type : Nat,
                   records : Seq(Record)]
  BY FilesAssumption
<1>2. file.records \in Seq(Record)
  BY <1>1
<1>3. Zeros \in Record
  BY DEF Zeros, Record, Frame, EtherTypes, Protocols, Oddities
<1>4. \A k \in Nat : RecordAt(k) \in Record
  BY <1>2, <1>3, ElementOfSeq DEF RecordAt
<1> QED
  BY <1>1, <1>4 DEF Record

(* The lengths in a frame.                                                     *)
LEMMA FrameTyped ==
    ASSUME NEW f \in Frame
    PROVE  /\ f.ihl \in Nat /\ f.total_length \in Nat /\ f.version \in Nat
           /\ f.data_offset \in Nat /\ f.udp_length \in Nat /\ f.dns \in Nat
           /\ f.port53 \in BOOLEAN /\ f.protocol \in Protocols
BY DEF Frame

(* The lengths in a packet.                                                    *)
LEMMA PacketTyped ==
    ASSUME NEW p \in Packet
    PROVE  /\ p.from \in Nat /\ p.captured \in Nat /\ p.ethernet \in Nat /\ p.ipv4 \in Nat
           /\ p.ip_payload \in Nat /\ p.tcp \in Nat /\ p.udp \in Nat /\ p.payload \in Nat
           /\ p.frame \in Frame /\ p.dns \in BOOLEAN /\ p.notes \in Seq(Notes)
BY DEF Packet

(* A record that is begun is a packet without headers.                         *)
LEMMA NewPacketTyped ==
    ASSUME NEW r, r.frame \in Frame, r.incl_len \in Nat, NEW at \in Nat
    PROVE  NewPacket(r, at) \in Packet
BY EmptySeq DEF NewPacket, Packet

LEMMA ReadUpToTyped ==
    ASSUME packets \in Seq(Packet)
    PROVE  ReadUpTo \in Nat
<1>1. CASE packets = << >>
  BY <1>1 DEF ReadUpTo
<1>2. CASE packets # << >>
  <2>1. Len(packets) \in DOMAIN packets /\ packets[Len(packets)] \in Packet
    BY <1>2, LenProperties, ElementOfSeq, EmptySeq
  <2>2. Last(packets) \in Packet
    BY <2>1 DEF Last
  <2>3. Last(packets).from \in Nat /\ Last(packets).captured \in Nat
    BY <2>2, PacketTyped
  <2> QED
    BY <1>2, <2>3 DEF ReadUpTo
<1> QED
  BY <1>1, <1>2

LEMMA Singleton ==
    ASSUME NEW S, NEW x \in S
    PROVE  <<x>> \in Seq(S)
OBVIOUS

(* A warning is one diagnostic or none.                                        *)
LEMMA WarnTyped ==
    ASSUME diagnostics \in Seq(Codes), NEW s \in Seq(Codes), NEW code \in Codes
    PROVE  s \o Warn(code) \in Seq(Codes)
<1>1. Warn(code) \in Seq(Codes)
  <2>1. <<code>> \in Seq(Codes)
    BY Singleton
  <2> QED
    BY <2>1, EmptySeq DEF Warn
<1> QED
  BY <1>1, ConcatProperties

-----------------------------------------------------------------------------
(* The loop goes on behind a packet whose headers lie inside it.               *)
LEMMA LeaveKeeps ==
    ASSUME IInv, stage \in Headers, NEW p \in Packet, Inside(p),
           p.from = packet.from, Leave(p), diagnostics' \in Seq(Codes)
    PROVE  IInv'
<1> USE DEF Leave
<1> DEFINE n == Len(packets)
<1>1. /\ packets' \in Seq(Packet) /\ Len(packets') = n + 1 /\ n \in Nat
      /\ packets'[n + 1] = p /\ \A k \in 1 .. n : packets'[k] = packets[k]
      /\ DOMAIN packets' = 1 .. n + 1 /\ DOMAIN packets = 1 .. n
  BY AppendProperties, LenProperties DEF IInv, Typed
<1>2. file.size \in Nat /\ p.from \in Nat /\ p.captured \in Nat /\ ReadUpTo \in Nat
  BY FileTyped, PacketTyped, ReadUpToTyped DEF IInv, Typed
<1>3. Typed'
  BY <1>1, <1>2 DEF IInv, Typed
<1>4. ReadUpTo' = p.from + p.captured
  <2>1. packets' # << >>
    BY <1>1, EmptySeq
  <2> QED
    BY <1>1, <2>1 DEF ReadUpTo, Last
<1>5. p.from + p.captured <= file.size
  BY DEF Inside
<1>6. p.from = 16 + IF n = 0 THEN 24 ELSE packets[n].from + packets[n].captured
  <2>1. packets = << >> <=> n = 0
    BY EmptySeq DEF IInv, Typed
  <2> QED
    BY <2>1 DEF IInv, Current, ReadUpTo, Last
<1>7. Row'
  <2>1. ASSUME NEW k \in DOMAIN packets'
        PROVE  /\ Inside(packets[k])'
               /\ packets'[k].from = 16 + IF k = 1 THEN 24
                                    ELSE packets'[k - 1].from + packets'[k - 1].captured
    <3>1. CASE k = n + 1
      <4>1. packets'[k] = p /\ Inside(p)'
        BY <1>1, <3>1 DEF Inside
      <4>2. CASE n = 0
        BY <1>6, <3>1, <4>1, <4>2
      <4>3. CASE n # 0
        <5>1. k # 1 /\ k - 1 = n /\ n \in 1 .. n
          BY <1>1, <3>1, <4>3
        <5>2. packets'[n] = packets[n]
          BY <1>1, <5>1
        <5>3. packets'[k - 1] = packets[n]
          BY <5>1, <5>2
        <5>4. p.from = 16 + (packets[n].from + packets[n].captured)
          BY <1>6, <4>3
        <5> QED
          BY <4>1, <5>1, <5>3, <5>4
      <4> QED
        BY <4>2, <4>3
    <3>2. CASE k \in 1 .. n
      <4>1. k # 1 => k - 1 \in 1 .. n
        BY <1>1, <3>2
      <4>2. /\ Inside(packets[k])
            /\ packets[k].from = 16 + IF k = 1 THEN 24
                                 ELSE packets[k - 1].from + packets[k - 1].captured
        BY <1>1, <3>2 DEF IInv, Row
      <4> QED
        BY <1>1, <3>2, <4>1, <4>2 DEF Inside
    <3> QED
      BY <1>1, <2>1, <3>1, <3>2
  <2> QED
    BY <1>4, <1>5, <2>1 DEF Row, Errors
<1>8. Current'
  BY DEF Current, Inside, Headers
<1>9. Reached'
  BY <1>4, <1>5 DEF Reached, EndExplained
<1> QED
  BY <1>3, <1>7, <1>8, <1>9 DEF IInv

(* So it does when it leaves a note.                                           *)
LEMMA LeaveNotingKeeps ==
    ASSUME IInv, stage \in Headers, NEW note \in Notes, NEW old \in Seq(Codes),
           Leave([packet EXCEPT !.notes = Append(@, note)]), diagnostics' \in Seq(Codes)
    PROVE  IInv'
<1> DEFINE p == [packet EXCEPT !.notes = Append(@, note)]
<1>1. packet \in Packet /\ packet.notes \in Seq(Notes)
  BY DEF IInv, Typed, Packet
<1>2. Append(packet.notes, note) \in Seq(Notes)
  BY <1>1, AppendProperties
<1>3. p \in Packet
  BY <1>1, <1>2 DEF Packet
<1>4. Inside(p) /\ p.from = packet.from
  BY <1>1 DEF IInv, Current, Inside, Packet
<1> HIDE DEF p
<1>5. Leave(p)
  BY DEF p
<1> QED
  BY <1>3, <1>4, <1>5, LeaveKeeps

(* The headers of a packet go on with the next one.                            *)
LEMMA DescendKeeps ==
    ASSUME IInv, stage \in Headers, NEW p \in Packet, NEW next \in {"ipv4", "tcp", "udp", "dns"},
           Inside(p), p.from = packet.from, Descend(p, next), diagnostics' \in Seq(Codes),
           ~p.dns, p.tcp = 0,
           next # "dns" => p.payload = 0 /\ p.udp = 0,
           next = "ipv4" => p.ipv4 = 0 /\ p.ip_payload = 0
    PROVE  IInv'
<1> USE DEF Descend
<1>1. Typed'
  BY DEF IInv, Typed, Headers
<1>2. ReadUpTo' = ReadUpTo
  BY DEF ReadUpTo
<1>3. Row'
  BY <1>2 DEF IInv, Row, Inside, Errors, Headers
<1>4. Current'
  BY <1>2 DEF IInv, Current, Inside, Headers
<1>5. Reached'
  BY <1>2 DEF IInv, Reached, EndExplained, Headers
<1> QED
  BY <1>1, <1>3, <1>4, <1>5 DEF IInv

-----------------------------------------------------------------------------
(* The initial states have the invariant.                                      *)
LEMMA InitInvariant == Init => IInv
<1> SUFFICES ASSUME Init PROVE IInv
  OBVIOUS
<1>1. Zeros.frame \in Frame /\ Zeros.incl_len = 0
  BY DEF Zeros, Frame, EtherTypes, Protocols, Oddities
<1>2. packet \in Packet
  BY <1>1, NewPacketTyped DEF Init
<1>3. Typed
  BY <1>2, EmptySeq DEF Init, Typed
<1>4. Row
  BY EmptySeq DEF Init, Row
<1>5. Current
  BY <1>1, <1>3, FileTyped DEF Init, Current, Inside, NewPacket, Headers, Typed
<1>6. Reached
  BY <1>3, FileTyped DEF Init, Reached, EndExplained, Typed
<1> QED
  BY <1>3, <1>4, <1>5, <1>6 DEF IInv

(* Every step of the file keeps it.                                            *)
LEMMA FileStep ==
    ASSUME IInv,
           ReadFileHeader \/ EndOfFile \/ TrailingBytes \/ PacketTooLong \/ BeginPacket
    PROVE  IInv'
<1>0. /\ file \in Files /\ file.size \in Nat /\ packets \in Seq(Packet) /\ offset \in Nat
      /\ ReadUpTo \in Nat /\ diagnostics \in Seq(Codes)
  BY FileTyped, ReadUpToTyped DEF IInv, Typed
<1>1. CASE ReadFileHeader
  <2>1. \/ /\ stage' \in Errors /\ offset' = offset /\ diagnostics' = diagnostics
        \/ /\ stage' = "record" /\ offset' = 24 /\ file.size >= 24
           /\ diagnostics' = <<"pcap.version">> \/ diagnostics' = << >>
    BY <1>1, Zenon DEF ReadFileHeader, Errors
  <2>2. UNCHANGED <<file, packet, packets>> /\ stage = "file"
    BY <1>1 DEF ReadFileHeader
  <2>3. packets = << >> /\ offset = 0
    BY <2>2 DEF IInv, Row
  <2>4. Typed'
    <3>1. "pcap.version" \in Codes
      BY DEF Codes
    <3>2. <<"pcap.version">> \in Seq(Codes)
      BY <3>1, Singleton
    <3>3. diagnostics' \in Seq(Codes)
      BY <1>0, <2>1, <3>2, EmptySeq, Zenon
    <3>4. offset' \in Nat
      BY <1>0, <2>1
    <3> QED
      BY <2>1, <2>2, <3>3, <3>4 DEF IInv, Typed, Answers
  <2>5. ReadUpTo' = 24
    BY <2>2, <2>3 DEF ReadUpTo
  <2>6. Row'
    <3>1. DOMAIN packets' = {}
      BY <2>2, <2>3, EmptySeq
    <3> QED
      BY <2>1, <2>2, <2>3, <2>5, <3>1 DEF Row, Errors
  <2>7. Current'
    BY <2>1, <2>2 DEF IInv, Current, Inside, Headers, Errors
  <2>8. Reached'
    <3>1. offset' = 0 \/ (offset' = 24 /\ file.size >= 24)
      BY <2>1, <2>3, Zenon
    <3>2. offset' <= file.size
      BY <1>0, <3>1
    <3>3. stage' # "ok"
      BY <2>1 DEF Errors
    <3>4. stage' = "record" => offset' = 24
      BY <2>1 DEF Errors
    <3> QED
      BY <2>2, <2>5, <3>2, <3>3, <3>4 DEF Reached, EndExplained
  <2> QED
    BY <2>4, <2>6, <2>7, <2>8 DEF IInv
<1>2. CASE EndOfFile \/ TrailingBytes \/ PacketTooLong
  <2> USE DEF EndOfFile, TrailingBytes, PacketTooLong, HasRecord
  <2>1. Append(diagnostics, "pcap.record") \in Seq(Codes)
        /\ Append(diagnostics, "pcap.packet") \in Seq(Codes)
    BY <1>0, AppendProperties DEF Codes
  <2>2. Typed'
    <3>1. offset' \in Nat /\ stage' = "ok" /\ UNCHANGED <<file, packet, packets>>
      BY <1>2, <1>0
    <3>2. diagnostics' \in Seq(Codes)
      BY <1>2, <1>0, <2>1
    <3> QED
      BY <3>1, <3>2 DEF IInv, Typed, Answers
  <2>3. ReadUpTo' = ReadUpTo /\ offset = ReadUpTo /\ offset <= file.size
    BY <1>2 DEF ReadUpTo, IInv, Reached
  <2>4. Row'
    BY <1>2, <1>0, <2>3 DEF IInv, Row, Inside, Errors
  <2>5. Current'
    BY <1>2 DEF IInv, Current, Inside, Headers
  <2>6. \A x \in Codes : Append(diagnostics, x) # << >> /\ Last(Append(diagnostics, x)) = x
    <3>1. ASSUME NEW x \in Codes
          PROVE  Append(diagnostics, x) # << >> /\ Last(Append(diagnostics, x)) = x
      <4>1. /\ Append(diagnostics, x) \in Seq(Codes)
            /\ Len(Append(diagnostics, x)) = Len(diagnostics) + 1
            /\ Append(diagnostics, x)[Len(diagnostics) + 1] = x
            /\ Len(diagnostics) \in Nat
        BY <1>0, <3>1, AppendProperties, LenProperties
      <4> QED
        BY <4>1, EmptySeq DEF Last
    <3> QED
      BY <3>1
  <2>7. Reached'
    <3>1. CASE EndOfFile
      BY <1>0, <2>3, <3>1 DEF Reached, EndExplained
    <3>2. CASE TrailingBytes
      BY <1>0, <2>3, <2>6, <3>2 DEF Reached, EndExplained, Codes
    <3>3. CASE PacketTooLong
      BY <1>0, <2>3, <2>6, <3>3 DEF Reached, EndExplained, Codes
    <3> QED
      BY <1>2, <3>1, <3>2, <3>3
  <2> QED
    BY <2>2, <2>4, <2>5, <2>7 DEF IInv
<1>3. CASE BeginPacket
  <2> USE DEF BeginPacket, HasRecord
  <2>1. /\ NextRecord.incl_len \in Nat /\ NextRecord.frame \in Frame
    BY <1>0, FileTyped, LenProperties DEF NextRecord
  <2>2. packet' = NewPacket(NextRecord, offset + 16) /\ packet' \in Packet
    BY <1>0, <1>3, <2>1, NewPacketTyped
  <2>3. Typed'
    BY <1>3, <1>0, <2>2 DEF IInv, Typed, Headers
  <2>4. ReadUpTo' = ReadUpTo /\ offset = ReadUpTo
    BY <1>3 DEF ReadUpTo, IInv, Reached
  <2>5. Row'
    BY <1>3, <2>4 DEF IInv, Row, Inside, Errors
  <2>6. Current'
    <3>1. packet'.from = offset + 16 /\ packet'.captured = NextRecord.incl_len
          /\ packet'.ethernet = 0 /\ packet'.ipv4 = 0 /\ packet'.ip_payload = 0
          /\ packet'.tcp = 0 /\ packet'.udp = 0 /\ packet'.payload = 0 /\ packet'.dns = FALSE
      BY <2>2 DEF NewPacket
    <3> QED
      BY <1>3, <1>0, <2>1, <2>4, <3>1 DEF Current, Inside, Headers
  <2>7. Reached'
    BY <1>3, <1>0, <2>4 DEF Reached, EndExplained
  <2> QED
    BY <2>3, <2>5, <2>6, <2>7 DEF IInv
<1> QED
  BY <1>1, <1>2, <1>3

-----------------------------------------------------------------------------
(* Every step of a packet keeps it.  What is fixed for all of them:            *)
LEMMA HeaderFacts ==
    ASSUME IInv, stage \in Headers
    PROVE  /\ packet \in Packet /\ packet.frame \in Frame /\ diagnostics \in Seq(Codes)
           /\ packet.captured \in Nat /\ packet.ethernet \in Nat /\ packet.ip_payload \in Nat
           /\ packet.ipv4 \in Nat /\ packet.udp \in Nat /\ packet.payload \in Nat
           /\ packet.tcp = 0 /\ ~packet.dns
           /\ packet.from + packet.captured <= file.size
           /\ packet.ethernet + packet.ipv4 + packet.ip_payload <= packet.captured
           /\ packet.tcp + packet.udp + packet.payload <= packet.ip_payload
BY PacketTyped DEF IInv, Typed, Current, Inside

LEMMA EthernetStep ==
    ASSUME IInv, ReadEthernet
    PROVE  IInv'
<1> DEFINE tagged == packet.frame.ether_type = "tag"
           type == IF tagged THEN packet.frame.inner ELSE packet.frame.ether_type
           with == [packet EXCEPT !.ethernet = IF tagged THEN 18 ELSE 14]
<1>0. stage \in Headers /\ stage = "ethernet"
  BY DEF ReadEthernet, Headers
<1>1. CASE \E note \in Notes : LeaveNoting(note)
  BY <1>0, <1>1, HeaderFacts, LeaveNotingKeeps DEF LeaveNoting
<1>2. CASE /\ packet.captured >= (IF tagged THEN 18 ELSE 14)
           /\ diagnostics' = diagnostics \o (IF tagged THEN <<"ethernet.vlan">> ELSE << >>)
           /\ IF type = "ipv4" THEN Descend(with, "ipv4") ELSE Leave(with)
  <2>1. diagnostics' \in Seq(Codes)
    <3>1. <<"ethernet.vlan">> \in Seq(Codes) /\ << >> \in Seq(Codes)
      BY Singleton, EmptySeq DEF Codes
    <3> QED
      BY <1>0, <1>2, <3>1, HeaderFacts, ConcatProperties
  <2>2. /\ packet.ipv4 = 0 /\ packet.ip_payload = 0 /\ packet.tcp = 0 /\ packet.udp = 0
        /\ packet.payload = 0 /\ ~packet.dns
    BY <1>0 DEF IInv, Current
  <2>3. /\ with \in Packet /\ with.from = packet.from /\ with.captured = packet.captured
        /\ with.ethernet = (IF tagged THEN 18 ELSE 14) /\ with.frame = packet.frame
        /\ with.ipv4 = 0 /\ with.ip_payload = 0 /\ with.tcp = 0 /\ with.udp = 0
        /\ with.payload = 0 /\ ~with.dns
    BY <1>0, <2>2, HeaderFacts DEF Packet
  <2>4. Inside(with)
    BY <1>0, <1>2, <2>3, HeaderFacts DEF Inside
  <2> HIDE DEF with, type
  <2> QED
    BY <1>0, <1>2, <2>1, <2>3, <2>4, LeaveKeeps, DescendKeeps
<1> QED
  BY <1>1, <1>2, Zenon DEF ReadEthernet, Notes

LEMMA Ipv4Step ==
    ASSUME IInv, ReadIpv4
    PROVE  IInv'
<1> DEFINE frame == packet.frame
           size == packet.captured - packet.ethernet
           header == 4 * frame.ihl
           total == IF frame.total_length > size THEN size ELSE frame.total_length
           with == [packet EXCEPT !.ipv4 = header, !.ip_payload = total - header]
<1>0. stage \in Headers /\ stage = "ipv4"
  BY DEF ReadIpv4, Headers
<1>1. CASE \E note \in Notes : LeaveNoting(note)
  BY <1>0, <1>1, HeaderFacts, LeaveNotingKeeps DEF LeaveNoting
<1>2. CASE /\ diagnostics' = Append(diagnostics, "ipv4.length")
           /\ Leave([packet EXCEPT !.notes = Append(@, "invalid ipv4 total length")])
  <2>1. diagnostics' \in Seq(Codes)
    BY <1>0, <1>2, HeaderFacts, AppendProperties DEF Codes
  <2> QED
    BY <1>0, <1>2, <2>1, HeaderFacts, LeaveNotingKeeps DEF Notes
<1>3. CASE /\ header <= size /\ frame.total_length >= header
           /\ diagnostics' = diagnostics
                 \o (IF frame.total_length > size THEN <<"ipv4.length">> ELSE << >>)
                 \o Warn("ipv4.ttl") \o Warn("ipv4.checksum")
           /\ IF frame.protocol = "other" THEN Leave(with) ELSE Descend(with, frame.protocol)
  <2>1. diagnostics' \in Seq(Codes)
    <3> DEFINE first == diagnostics
                 \o (IF frame.total_length > size THEN <<"ipv4.length">> ELSE << >>)
    <3>1. <<"ipv4.length">> \in Seq(Codes) /\ << >> \in Seq(Codes)
      BY Singleton, EmptySeq DEF Codes
    <3>2. first \in Seq(Codes)
      BY <1>0, <3>1, HeaderFacts, ConcatProperties
    <3> HIDE DEF first
    <3>3. first \o Warn("ipv4.ttl") \in Seq(Codes)
      BY <1>0, <3>2, HeaderFacts, WarnTyped DEF Codes, Oddities
    <3>4. (first \o Warn("ipv4.ttl")) \o Warn("ipv4.checksum") \in Seq(Codes)
      BY <1>0, <3>3, HeaderFacts, WarnTyped DEF Codes, Oddities
    <3> QED
      BY <1>3, <3>4 DEF first
  <2>2. /\ packet.tcp = 0 /\ packet.udp = 0 /\ packet.payload = 0 /\ ~packet.dns
    BY <1>0 DEF IInv, Current
  <2>3. /\ header \in Nat /\ total - header \in Nat
        /\ packet.ethernet + header + (total - header) <= packet.captured
        /\ frame.protocol \in {"tcp", "udp", "other"}
    <3>1. /\ frame.ihl \in Nat /\ frame.total_length \in Nat /\ size \in Int
          /\ frame.protocol \in Protocols
      BY <1>0, HeaderFacts, FrameTyped
    <3>2. packet.captured \in Nat /\ packet.ethernet \in Nat
      BY <1>0, HeaderFacts
    <3> HIDE DEF frame
    <3>3. header \in Nat /\ total - header \in Nat
      BY <1>3, <3>1
    <3>4. packet.ethernet + header + (total - header) <= packet.captured
      <4>1. total <= size /\ total \in Int
        BY <1>3, <3>1
      <4>2. packet.ethernet + size = packet.captured
        BY <3>2
      <4> HIDE DEF total, size, header
      <4> QED
        BY <3>1, <3>2, <3>3, <4>1, <4>2
    <3> QED
      BY <3>1, <3>3, <3>4 DEF Protocols
  <2> HIDE DEF header, total
  <2>4. /\ with \in Packet /\ with.from = packet.from /\ with.captured = packet.captured
        /\ with.ethernet = packet.ethernet /\ with.frame = packet.frame
        /\ with.ipv4 = header /\ with.ip_payload = total - header
        /\ with.tcp = 0 /\ with.udp = 0 /\ with.payload = 0 /\ ~with.dns
    BY <1>0, <2>2, <2>3, HeaderFacts DEF Packet
  <2>5. Inside(with)
    BY <1>0, <2>3, <2>4, HeaderFacts DEF Inside
  <2> HIDE DEF with
  <2> QED
    BY <1>0, <1>3, <2>1, <2>3, <2>4, <2>5, LeaveKeeps, DescendKeeps
<1> QED
  BY <1>1, <1>2, <1>3, Zenon DEF ReadIpv4, Notes

LEMMA TcpStep ==
    ASSUME IInv, ReadTcp
    PROVE  IInv'
<1> DEFINE header == 4 * packet.frame.data_offset
           with == [packet EXCEPT !.tcp = header, !.payload = packet.ip_payload - header]
<1>0. stage \in Headers /\ stage = "tcp"
  BY DEF ReadTcp, Headers
<1>1. CASE \E note \in Notes : LeaveNoting(note)
  BY <1>0, <1>1, HeaderFacts, LeaveNotingKeeps DEF LeaveNoting
<1>2. CASE /\ header <= packet.ip_payload /\ Leave(with)
           /\ diagnostics' = diagnostics \o Warn("tcp.flags")
  <2>1. diagnostics' \in Seq(Codes)
    BY <1>0, <1>2, HeaderFacts, WarnTyped DEF Codes, Oddities
  <2>2. /\ header \in Nat /\ packet.ip_payload - header \in Nat
    <3>1. packet.frame.data_offset \in Nat /\ packet.ip_payload \in Nat
      BY <1>0, HeaderFacts, FrameTyped
    <3>2. header \in Nat /\ header <= packet.ip_payload
      BY <1>2, <3>1
    <3> HIDE DEF header
    <3> QED
      BY <3>1, <3>2
  <2>3. packet.udp = 0
    BY <1>0 DEF IInv, Current, Headers
  <2> HIDE DEF header
  <2>4. /\ with \in Packet /\ with.from = packet.from /\ with.captured = packet.captured
        /\ with.ethernet = packet.ethernet /\ with.ipv4 = packet.ipv4
        /\ with.ip_payload = packet.ip_payload /\ with.tcp = header /\ with.udp = 0
        /\ with.payload = packet.ip_payload - header /\ ~with.dns
    BY <1>0, <2>2, <2>3, HeaderFacts DEF Packet
  <2> HIDE DEF with
  <2>5. header + 0 + (packet.ip_payload - header) <= packet.ip_payload
    <3>1. packet.ip_payload \in Nat
      BY <1>0, HeaderFacts
    <3> QED
      BY <2>2, <3>1
  <2>6. Inside(with)
    BY <1>0, <2>4, <2>5, HeaderFacts, Zenon DEF Inside
  <2> QED
    BY <1>0, <1>2, <2>1, <2>4, <2>6, LeaveKeeps
<1> QED
  BY <1>1, <1>2, Zenon DEF ReadTcp, Notes

LEMMA UdpStep ==
    ASSUME IInv, ReadUdp
    PROVE  IInv'
<1> DEFINE size == packet.ip_payload
           length == packet.frame.udp_length
           rest == (IF length > size THEN size ELSE length) - 8
           with == [packet EXCEPT !.udp = 8, !.payload = rest]
<1>0. stage \in Headers /\ stage = "udp"
  BY DEF ReadUdp, Headers
<1>1. CASE \E note \in Notes : LeaveNoting(note)
  BY <1>0, <1>1, HeaderFacts, LeaveNotingKeeps DEF LeaveNoting
<1>2. CASE /\ size >= 8 /\ length >= 8
           /\ diagnostics' = diagnostics \o (IF length > size THEN <<"udp.length">> ELSE << >>)
           /\ IF packet.frame.port53 THEN Descend(with, "dns") ELSE Leave(with)
  <2>1. diagnostics' \in Seq(Codes)
    <3>1. <<"udp.length">> \in Seq(Codes) /\ << >> \in Seq(Codes)
      BY Singleton, EmptySeq DEF Codes
    <3> QED
      BY <1>0, <1>2, <3>1, HeaderFacts, ConcatProperties
  <2>2. rest \in Nat /\ 8 + rest <= size
    <3>1. size \in Nat /\ packet.frame \in Frame
      BY <1>0, HeaderFacts
    <3>2. length \in Nat
      BY <3>1, FrameTyped
    <3>3. size >= 8 /\ length >= 8
      BY <1>2
    <3> HIDE DEF size, length
    <3> QED
      BY <3>1, <3>2, <3>3
  <2>3. packet.udp = 0
    BY <1>0 DEF IInv, Current, Headers
  <2> HIDE DEF rest
  <2>4. /\ with \in Packet /\ with.from = packet.from /\ with.captured = packet.captured
        /\ with.ethernet = packet.ethernet /\ with.ipv4 = packet.ipv4
        /\ with.ip_payload = size /\ with.tcp = 0 /\ with.udp = 8
        /\ with.payload = rest /\ ~with.dns
    BY <1>0, <2>2, <2>3, HeaderFacts DEF Packet
  <2> HIDE DEF with
  <2>5. Inside(with)
    BY <1>0, <2>2, <2>4, HeaderFacts DEF Inside
  <2> QED
    BY <1>0, <1>2, <2>1, <2>4, <2>5, LeaveKeeps, DescendKeeps
<1> QED
  BY <1>1, <1>2, Zenon DEF ReadUdp, Notes

LEMMA DnsStep ==
    ASSUME IInv, ReadDns
    PROVE  IInv'
<1> DEFINE with == [packet EXCEPT !.dns = TRUE]
<1>0. stage \in Headers /\ stage = "dns"
  BY DEF ReadDns, Headers
<1>1. CASE \E note \in Notes : LeaveNoting(note)
  BY <1>0, <1>1, HeaderFacts, LeaveNotingKeeps DEF LeaveNoting
<1>2. CASE /\ packet.payload >= packet.frame.dns /\ Leave(with)
           /\ diagnostics' = diagnostics \o Warn("dns.truncated")
  <2>1. diagnostics' \in Seq(Codes)
    BY <1>0, <1>2, HeaderFacts, WarnTyped DEF Codes, Oddities
  <2>2. with \in Packet /\ Inside(with) /\ with.from = packet.from
    BY <1>0, <1>2, HeaderFacts, FrameTyped DEF Packet, Inside
  <2> HIDE DEF with
  <2> QED
    BY <1>0, <1>2, <2>1, <2>2, LeaveKeeps
<1> QED
  BY <1>1, <1>2, Zenon DEF ReadDns, Notes

-----------------------------------------------------------------------------
(* Every step keeps the invariant.                                             *)
LEMMA NextInvariant ==
    ASSUME IInv, [Next]_vars
    PROVE  IInv'
<1>1. CASE ReadFileHeader \/ EndOfFile \/ TrailingBytes \/ PacketTooLong \/ BeginPacket
  BY <1>1, FileStep
<1>2. CASE UnsupportedLink
  BY <1>2, HeaderFacts, LeaveNotingKeeps
     DEF UnsupportedLink, LeaveNoting, Headers, Notes
<1>3. CASE ReadEthernet \/ ReadIpv4 \/ ReadTcp \/ ReadUdp \/ ReadDns
  BY <1>3, EthernetStep, Ipv4Step, TcpStep, UdpStep, DnsStep
<1>4. CASE UNCHANGED vars
  BY <1>4 DEF vars, IInv, Typed, Row, Current, Reached, EndExplained, ReadUpTo, Inside
<1> QED
  BY <1>1, <1>2, <1>3, <1>4 DEF Next, ReadHeader, Returned

LEMMA InvariantAlways == Spec => []IInv
BY InitInvariant, NextInvariant, PTL DEF Spec

(* For all files, of whatever lengths in whatever headers: no header and no    *)
(* payload reaches beyond the one around it, nor a packet beyond the file.     *)
THEOREM AlwaysHeadersInside == Spec => []HeadersInside
<1>1. IInv => HeadersInside
  BY DEF IInv, Row, Current, HeadersInside
<1> QED
  BY <1>1, InvariantAlways, PTL

(* For all files the packets that are read lie side by side.                   *)
THEOREM PacketsAlwaysTile == Spec => []PacketsTile
<1>1. IInv => PacketsTile
  BY DEF IInv, Row, Reached, PacketsTile
<1> QED
  BY <1>1, InvariantAlways, PTL

(* For all files the read comes to their end or says what is left.             *)
THEOREM EndAlwaysExplained == Spec => []EndExplained
<1>1. IInv => EndExplained
  BY DEF IInv, Reached
<1> QED
  BY <1>1, InvariantAlways, PTL

(* The lengths of a packet stay numbers: none goes below zero.                 *)
THEOREM TypeCorrect == Spec => []TypeOK
<1>1. IInv => TypeOK
  <2> SUFFICES ASSUME IInv PROVE TypeOK
    OBVIOUS
  <2>1. offset \in 0 .. file.size
    BY FileTyped DEF IInv, Typed, Reached
  <2> QED
    BY <2>1, PacketTyped DEF IInv, Typed, TypeOK, Answers, Headers
<1> QED
  BY <1>1, InvariantAlways, PTL
-----------------------------------------------------------------------------
(* What the stage says of the packet, beyond the invariant: that no note has   *)
(* been left so far, which headers have been read, and which the frame says    *)
(* come next.  GapsNoted alone is not inductive: whether a packet that leaves  *)
(* counts as what its frame promises is decided by the headers before.         *)
TypeOf(frame) == IF frame.ether_type = "tag" THEN frame.inner ELSE frame.ether_type

Described ==
    stage \in Headers =>
        /\ packet.notes = << >>
        /\ stage \in {"ipv4", "tcp", "udp", "dns"} =>
              packet.ethernet > 0 /\ TypeOf(packet.frame) = "ipv4"
        /\ stage \in {"tcp", "udp", "dns"} => packet.ipv4 > 0
        /\ stage = "tcp" => packet.frame.protocol = "tcp"
        /\ stage \in {"udp", "dns"} => packet.frame.protocol = "udp"
        /\ stage = "dns" => packet.udp > 0 /\ packet.frame.port53

(* A packet that is complete: it has no note if and only if it counts as its   *)
(* frame promises.                                                             *)
Settled(p) == p.notes = << >> <=> CountsAs(p) = Promised(p.frame)

GInv == Described /\ \A k \in DOMAIN packets : Settled(packets[k])

(* While headers are read the packet counts as less than its frame promises.   *)
LEMMA PartlyRead ==
    ASSUME IInv, Described, stage \in Headers
    PROVE  CountsAs(packet) # Promised(packet.frame)
<1>0. /\ packet.tcp = 0 /\ ~packet.dns /\ packet.frame.port53 \in BOOLEAN
  BY HeaderFacts, FrameTyped
<1>1. CASE stage \in {"unsupported", "ethernet"}
  <2>1. packet.ethernet = 0 /\ packet.ipv4 = 0 /\ packet.udp = 0
    BY <1>1 DEF IInv, Current, Headers
  <2>2. CountsAs(packet) = "undecoded"
    BY <1>0, <2>1 DEF CountsAs
  <2> QED
    BY <2>2 DEF Promised
<1>2. CASE stage = "ipv4"
  <2>1. packet.ipv4 = 0 /\ packet.udp = 0
    BY <1>2 DEF IInv, Current, Headers
  <2>2. packet.ethernet > 0 /\ TypeOf(packet.frame) = "ipv4"
    BY <1>2 DEF Described
  <2>3. CountsAs(packet) = "ethernet"
    BY <1>0, <2>1, <2>2 DEF CountsAs
  <2> QED
    BY <2>2, <2>3 DEF Promised, TypeOf
<1>3. CASE stage \in {"tcp", "udp"}
  <2>1. packet.udp = 0
    BY <1>3 DEF IInv, Current, Headers
  <2>2. packet.ipv4 > 0 /\ TypeOf(packet.frame) = "ipv4"
        /\ packet.frame.protocol \in {"tcp", "udp"}
    BY <1>3 DEF Described, Headers
  <2>3. CountsAs(packet) = "ip"
    BY <1>0, <2>1, <2>2 DEF CountsAs
  <2> QED
    BY <2>2, <2>3 DEF Promised, TypeOf
<1>4. CASE stage = "dns"
  <2>1. packet.udp > 0 /\ packet.frame.port53 /\ packet.frame.protocol = "udp"
        /\ TypeOf(packet.frame) = "ipv4"
    BY <1>4 DEF Described, Headers
  <2>2. CountsAs(packet) = "udp"
    BY <1>0, <2>1 DEF CountsAs
  <2> QED
    BY <2>1, <2>2 DEF Promised, TypeOf
<1> QED
  BY <1>1, <1>2, <1>3, <1>4 DEF Headers

LEMMA LeaveSettles ==
    ASSUME IInv, GInv, NEW p, Settled(p), Leave(p)
    PROVE  GInv'
<1>1. stage' \notin Headers
  BY DEF Leave, Headers
<1>2. ASSUME NEW k \in DOMAIN packets'
      PROVE  Settled(packets'[k])
  <2> DEFINE n == Len(packets)
  <2>1. packets \in Seq(Packet) /\ packets' = Append(packets, p)
    BY DEF IInv, Typed, Leave
  <2>2. packets \in Seq(Packet \cup {p})
    BY <2>1
  <2>3. /\ Len(packets') = n + 1 /\ n \in Nat /\ packets'[n + 1] = p
        /\ \A i \in 1 .. n : packets'[i] = packets[i]
        /\ DOMAIN packets' = 1 .. n + 1 /\ DOMAIN packets = 1 .. n
    BY <2>1, <2>2, AppendProperties, LenProperties
  <2>4. k = n + 1 \/ k \in 1 .. n
    BY <2>3
  <2> QED
    BY <2>3, <2>4 DEF GInv
<1>3. \A k \in DOMAIN packets' : Settled(packets'[k])
  BY <1>2
<1>4. (\A k \in DOMAIN packets : Settled(packets[k]))'
  BY <1>3 DEF Settled, CountsAs, Promised
<1>5. Described'
  BY <1>1 DEF Described
<1> QED
  BY <1>4, <1>5 DEF GInv

(* A note is left only behind headers that do not count as promised.           *)
LEMMA LeaveNotingSettles ==
    ASSUME IInv, GInv, stage \in Headers, NEW note \in Notes,
           Leave([packet EXCEPT !.notes = Append(@, note)])
    PROVE  GInv'
<1> DEFINE p == [packet EXCEPT !.notes = Append(@, note)]
<1>1. packet \in Packet /\ packet.notes \in Seq(Notes)
  BY DEF IInv, Typed, Packet
<1>2. /\ p.notes = Append(packet.notes, note) /\ p.frame = packet.frame
      /\ p.dns = packet.dns /\ p.tcp = packet.tcp /\ p.udp = packet.udp
      /\ p.ipv4 = packet.ipv4 /\ p.ethernet = packet.ethernet
  BY <1>1 DEF Packet
<1> HIDE DEF p
<1>3. p.notes # << >>
  BY <1>1, <1>2, AppendProperties, EmptySeq
<1>4. CountsAs(p) = CountsAs(packet)
  BY <1>2 DEF CountsAs
<1>5. CountsAs(p) # Promised(p.frame)
  BY <1>2, <1>4, PartlyRead DEF GInv
<1>6. Settled(p)
  BY <1>3, <1>5 DEF Settled
<1>7. Leave(p)
  BY DEF p
<1> QED
  BY <1>6, <1>7, LeaveSettles

(* The packets read so far stay, and the next header is described.             *)
LEMMA DescendSettles ==
    ASSUME IInv, GInv, NEW p, NEW next, Descend(p, next), Described'
    PROVE  GInv'
BY DEF Descend, GInv, Settled, CountsAs, Promised

LEMMA FileSettles ==
    ASSUME IInv, GInv,
           ReadFileHeader \/ EndOfFile \/ TrailingBytes \/ PacketTooLong \/ BeginPacket
    PROVE  GInv'
<1>1. packets' = packets
  BY DEF ReadFileHeader, EndOfFile, TrailingBytes, PacketTooLong, BeginPacket
<1>2. CASE BeginPacket
  <2>1. packet'.notes = << >> /\ stage' \in {"unsupported", "ethernet"}
    BY <1>2 DEF BeginPacket, NewPacket
  <2> QED
    BY <1>1, <2>1 DEF GInv, Settled, CountsAs, Promised, Described
<1>3. CASE ReadFileHeader \/ EndOfFile \/ TrailingBytes \/ PacketTooLong
  <2>1. stage' \notin Headers
    BY <1>3 DEF ReadFileHeader, EndOfFile, TrailingBytes, PacketTooLong, Headers
  <2> QED
    BY <1>1, <2>1 DEF GInv, Settled, CountsAs, Promised, Described
<1> QED
  BY <1>2, <1>3

LEMMA EthernetSettles ==
    ASSUME IInv, GInv, ReadEthernet
    PROVE  GInv'
<1> DEFINE tagged == packet.frame.ether_type = "tag"
           type == IF tagged THEN packet.frame.inner ELSE packet.frame.ether_type
           with == [packet EXCEPT !.ethernet = IF tagged THEN 18 ELSE 14]
<1>0. stage \in Headers /\ stage = "ethernet" /\ packet.notes = << >>
  BY DEF ReadEthernet, Headers, GInv, Described
<1>1. CASE \E note \in Notes : LeaveNoting(note)
  BY <1>0, <1>1, LeaveNotingSettles DEF LeaveNoting
<1>2. CASE IF type = "ipv4" THEN Descend(with, "ipv4") ELSE Leave(with)
  <2>1. /\ packet.ipv4 = 0 /\ packet.tcp = 0 /\ packet.udp = 0 /\ ~packet.dns
    BY <1>0 DEF IInv, Current
  <2>2. /\ with.ethernet > 0 /\ with.frame = packet.frame /\ with.notes = << >>
        /\ with.ipv4 = 0 /\ with.tcp = 0 /\ with.udp = 0 /\ ~with.dns
    BY <1>0, <2>1, HeaderFacts DEF Packet
  <2>3. TypeOf(with.frame) = type
    BY <2>2 DEF TypeOf
  <2> HIDE DEF with, type
  <2>4. CASE type = "ipv4"
    <3>1. packet' = with /\ stage' = "ipv4" /\ Descend(with, "ipv4")
      BY <1>2, <2>4 DEF Descend
    <3>2. Described'
      BY <2>2, <2>3, <2>4, <3>1 DEF Described, TypeOf
    <3> QED
      BY <3>1, <3>2, DescendSettles
  <2>5. CASE type # "ipv4"
    <3>1. CountsAs(with) = "ethernet"
      BY <2>2 DEF CountsAs
    <3>2. Promised(with.frame) = "ethernet"
      BY <2>3, <2>5 DEF Promised, TypeOf
    <3>3. Settled(with)
      BY <2>2, <3>1, <3>2 DEF Settled
    <3> QED
      BY <1>2, <2>5, <3>3, LeaveSettles
  <2> QED
    BY <2>4, <2>5
<1> QED
  BY <1>1, <1>2, Zenon DEF ReadEthernet, Notes

LEMMA Ipv4Settles ==
    ASSUME IInv, GInv, ReadIpv4
    PROVE  GInv'
<1> DEFINE frame == packet.frame
           size == packet.captured - packet.ethernet
           header == 4 * frame.ihl
           total == IF frame.total_length > size THEN size ELSE frame.total_length
           with == [packet EXCEPT !.ipv4 = header, !.ip_payload = total - header]
<1>0. /\ stage \in Headers /\ stage = "ipv4" /\ packet.notes = << >>
      /\ packet.ethernet > 0 /\ TypeOf(packet.frame) = "ipv4"
  BY DEF ReadIpv4, Headers, GInv, Described
<1>1. CASE \E note \in Notes : LeaveNoting(note)
  BY <1>0, <1>1, LeaveNotingSettles DEF LeaveNoting
<1>2. CASE Leave([packet EXCEPT !.notes = Append(@, "invalid ipv4 total length")])
  BY <1>0, <1>2, LeaveNotingSettles DEF Notes
<1>3. CASE /\ frame.ihl >= 5
           /\ IF frame.protocol = "other" THEN Leave(with) ELSE Descend(with, frame.protocol)
  <2>1. /\ packet.tcp = 0 /\ packet.udp = 0 /\ ~packet.dns
    BY <1>0 DEF IInv, Current
  <2>2. header > 0 /\ frame.protocol \in {"tcp", "udp", "other"}
    <3>1. frame.ihl \in Nat /\ frame.protocol \in Protocols
      BY <1>0, HeaderFacts, FrameTyped
    <3> HIDE DEF frame
    <3> QED
      BY <1>3, <3>1 DEF Protocols
  <2> HIDE DEF header, total
  <2>3. /\ with.ethernet > 0 /\ with.ipv4 > 0 /\ with.frame = frame
        /\ with.notes = << >> /\ with.tcp = 0 /\ with.udp = 0 /\ ~with.dns
    BY <1>0, <2>1, <2>2, HeaderFacts DEF Packet
  <2>4. TypeOf(with.frame) = "ipv4"
    BY <1>0, <2>3
  <2> HIDE DEF with
  <2>5. CASE frame.protocol = "other"
    <3>1. CountsAs(with) = "ip"
      BY <2>3 DEF CountsAs
    <3>2. Promised(with.frame) = "ip"
      BY <2>3, <2>4, <2>5 DEF Promised, TypeOf
    <3>3. Settled(with)
      BY <2>3, <3>1, <3>2 DEF Settled
    <3> QED
      BY <1>3, <2>5, <3>3, LeaveSettles
  <2>6. CASE frame.protocol # "other"
    <3>1. packet' = with /\ stage' = frame.protocol /\ Descend(with, frame.protocol)
      BY <1>3, <2>6 DEF Descend
    <3>2. Described'
      BY <2>2, <2>3, <2>4, <2>6, <3>1 DEF Described, TypeOf
    <3> QED
      BY <3>1, <3>2, DescendSettles
  <2> QED
    BY <2>5, <2>6
<1> QED
  BY <1>1, <1>2, <1>3, Zenon DEF ReadIpv4, Notes

LEMMA TcpSettles ==
    ASSUME IInv, GInv, ReadTcp
    PROVE  GInv'
<1> DEFINE header == 4 * packet.frame.data_offset
           with == [packet EXCEPT !.tcp = header, !.payload = packet.ip_payload - header]
<1>0. /\ stage \in Headers /\ stage = "tcp" /\ packet.notes = << >>
      /\ TypeOf(packet.frame) = "ipv4" /\ packet.frame.protocol = "tcp"
  BY DEF ReadTcp, Headers, GInv, Described
<1>1. CASE \E note \in Notes : LeaveNoting(note)
  BY <1>0, <1>1, LeaveNotingSettles DEF LeaveNoting
<1>2. CASE packet.frame.data_offset >= 5 /\ Leave(with)
  <2>1. header > 0
    <3>1. packet.frame.data_offset \in Nat
      BY <1>0, HeaderFacts, FrameTyped
    <3> QED
      BY <1>2, <3>1
  <2> HIDE DEF header
  <2>2. with.tcp > 0 /\ ~with.dns /\ with.frame = packet.frame /\ with.notes = << >>
    BY <1>0, <2>1, HeaderFacts DEF Packet
  <2> HIDE DEF with
  <2>3. CountsAs(with) = "tcp"
    BY <2>2 DEF CountsAs
  <2>4. Promised(with.frame) = "tcp"
    BY <1>0, <2>2 DEF Promised, TypeOf
  <2>5. Settled(with)
    BY <2>2, <2>3, <2>4 DEF Settled
  <2> QED
    BY <1>2, <2>5, LeaveSettles
<1> QED
  BY <1>1, <1>2, Zenon DEF ReadTcp, Notes

LEMMA UdpSettles ==
    ASSUME IInv, GInv, ReadUdp
    PROVE  GInv'
<1> DEFINE size == packet.ip_payload
           length == packet.frame.udp_length
           rest == (IF length > size THEN size ELSE length) - 8
           with == [packet EXCEPT !.udp = 8, !.payload = rest]
<1>0. /\ stage \in Headers /\ stage = "udp" /\ packet.notes = << >>
      /\ packet.ethernet > 0 /\ packet.ipv4 > 0
      /\ TypeOf(packet.frame) = "ipv4" /\ packet.frame.protocol = "udp"
  BY DEF ReadUdp, Headers, GInv, Described
<1>1. CASE \E note \in Notes : LeaveNoting(note)
  BY <1>0, <1>1, LeaveNotingSettles DEF LeaveNoting
<1>2. CASE IF packet.frame.port53 THEN Descend(with, "dns") ELSE Leave(with)
  <2> HIDE DEF rest
  <2>1. /\ with.udp > 0 /\ with.tcp = 0 /\ ~with.dns /\ with.ethernet > 0 /\ with.ipv4 > 0
        /\ with.frame = packet.frame /\ with.notes = << >>
    BY <1>0, HeaderFacts DEF Packet
  <2> HIDE DEF with
  <2>2. CASE packet.frame.port53
    <3>1. packet' = with /\ stage' = "dns" /\ Descend(with, "dns")
      BY <1>2, <2>2 DEF Descend
    <3>2. Described'
      BY <1>0, <2>1, <2>2, <3>1 DEF Described, TypeOf
    <3> QED
      BY <3>1, <3>2, DescendSettles
  <2>3. CASE ~packet.frame.port53
    <3>1. CountsAs(with) = "udp"
      BY <2>1 DEF CountsAs
    <3>2. Promised(with.frame) = "udp"
      BY <1>0, <2>1, <2>3 DEF Promised, TypeOf
    <3>3. Settled(with)
      BY <2>1, <3>1, <3>2 DEF Settled
    <3> QED
      BY <1>2, <2>3, <3>3, LeaveSettles
  <2> QED
    BY <2>2, <2>3
<1> QED
  BY <1>1, <1>2, Zenon DEF ReadUdp, Notes

LEMMA DnsSettles ==
    ASSUME IInv, GInv, ReadDns
    PROVE  GInv'
<1> DEFINE with == [packet EXCEPT !.dns = TRUE]
<1>0. /\ stage \in Headers /\ stage = "dns" /\ packet.notes = << >>
      /\ TypeOf(packet.frame) = "ipv4" /\ packet.frame.protocol = "udp"
      /\ packet.frame.port53
  BY DEF ReadDns, Headers, GInv, Described
<1>1. CASE \E note \in Notes : LeaveNoting(note)
  BY <1>0, <1>1, LeaveNotingSettles DEF LeaveNoting
<1>2. CASE Leave(with)
  <2>1. with.dns /\ with.frame = packet.frame /\ with.notes = << >>
    BY <1>0, HeaderFacts DEF Packet
  <2> HIDE DEF with
  <2>2. CountsAs(with) = "dns"
    BY <2>1 DEF CountsAs
  <2>3. Promised(with.frame) = "dns"
    BY <1>0, <2>1 DEF Promised, TypeOf
  <2>4. Settled(with)
    BY <2>1, <2>2, <2>3 DEF Settled
  <2> QED
    BY <1>2, <2>4, LeaveSettles
<1> QED
  BY <1>1, <1>2, Zenon DEF ReadDns, Notes

(* For all files: a packet counts as less than its headers promise exactly     *)
(* when a note says why.                                                       *)
THEOREM GapsAlwaysNoted == Spec => []GapsNoted
<1>1. Init => GInv
  <2>1. Init => stage \notin Headers /\ DOMAIN packets = {}
    BY EmptySeq DEF Init, Headers
  <2> QED
    BY <2>1 DEF GInv, Described
<1>2. IInv /\ GInv /\ [Next]_vars => GInv'
  <2> SUFFICES ASSUME IInv, GInv, [Next]_vars PROVE GInv'
    OBVIOUS
  <2>1. CASE ReadFileHeader \/ EndOfFile \/ TrailingBytes \/ PacketTooLong \/ BeginPacket
    BY <2>1, FileSettles
  <2>2. CASE UnsupportedLink
    BY <2>2, LeaveNotingSettles DEF UnsupportedLink, LeaveNoting, Headers, Notes
  <2>3. CASE ReadEthernet \/ ReadIpv4 \/ ReadTcp \/ ReadUdp \/ ReadDns
    BY <2>3, EthernetSettles, Ipv4Settles, TcpSettles, UdpSettles, DnsSettles
  <2>4. CASE UNCHANGED vars
    BY <2>4 DEF vars, GInv, Described, Settled, CountsAs, Promised, TypeOf
  <2> QED
    BY <2>1, <2>2, <2>3, <2>4 DEF Next, ReadHeader, Returned
<1>3. GInv => GapsNoted
  BY DEF GInv, Settled, GapsNoted
<1> QED
  BY <1>1, <1>2, <1>3, InvariantAlways, PTL DEF Spec
-----------------------------------------------------------------------------
(* Where a cut leaves the packets.  The offsets at which the records of a      *)
(* file end are defined one by another; those of the packets that were read    *)
(* are the first of them, since a packet has the length that its record says,  *)
(* and the next one, if there is another, lies behind the end of the file.     *)
AsGiven ==
    /\ \A k \in DOMAIN packets : Holds(packets[k], RecordAt(k))
    /\ stage \in Headers => Holds(packet, NextRecord)
    /\ stage = "ok" => ReadUpTo + 16 + NextRecord.incl_len > file.size

(* A set of numbers that has 0, and with a number the next one, has them all.  *)
LEMMA Climb ==
    ASSUME NEW n \in Nat, NEW S \in SUBSET (0 .. n), 0 \in S,
           \A k \in S : k < n => k + 1 \in S
    PROVE  S = 0 .. n
<1> DEFINE missing == (0 .. n) \ S
           less    == OpToRel(<, Nat)
<1>1. SUFFICES ASSUME missing # {} PROVE FALSE
  OBVIOUS
<1>2. PICK m \in missing : \A k \in missing : ~(<<k, m>> \in less)
  <2> HIDE DEF missing, less
  <2>1. IsWellFoundedOn(less, Nat)
    BY NatLessThanWellFounded DEF less
  <2>2. missing \subseteq Nat
    BY DEF missing
  <2> QED
    BY <1>1, <2>1, <2>2, WFMin
<1>3. m \in 0 .. n /\ m # 0 /\ m - 1 \in Nat /\ m - 1 \in 0 .. n /\ m - 1 < n
  OBVIOUS
<1>4. <<m - 1, m>> \in less
  <2> HIDE DEF missing, less
  <2>1. less = {e \in Nat \X Nat : e[1] < e[2]}
    BY DEF OpToRel, less
  <2>2. m \in Nat /\ m - 1 < m
    BY <1>3
  <2> QED
    BY <1>3, <2>1, <2>2
<1>5. m - 1 \in S
  BY <1>2, <1>3, <1>4
<1>6. m - 1 + 1 \in S
  BY <1>3, <1>5
<1> QED
  BY <1>3, <1>6

(* The offsets at which the records of the file end.                           *)
EndsOf(ends, n) ==
    /\ ends \in [0 .. n -> Nat]
    /\ ends[0] = 24
    /\ \A k \in 1 .. n : ends[k] = ends[k - 1] + 16 + file.records[k].incl_len

LEMMA RecordLengths ==
    ASSUME file \in Files
    PROVE  /\ Len(file.records) \in Nat
           /\ \A k \in 1 .. Len(file.records) :
                 file.records[k].incl_len \in Nat /\ RecordAt(k) = file.records[k]
<1>1. file.records \in Seq(Record)
  BY FilesAssumption
<1>2. DOMAIN file.records = 1 .. Len(file.records) /\ Len(file.records) \in Nat
  BY <1>1, LenProperties
<1>3. \A k \in 1 .. Len(file.records) : RecordAt(k) = file.records[k]
  BY <1>2 DEF RecordAt
<1>4. \A k \in Nat : RecordAt(k).incl_len \in Nat
  BY FileTyped
<1> QED
  BY <1>2, <1>3, <1>4

LEMMA EndsExist ==
    ASSUME file \in Files
    PROVE  \E ends : EndsOf(ends, Len(file.records))
<1> DEFINE n == Len(file.records)
           S == {m \in 0 .. n : \E ends : EndsOf(ends, m)}
<1>1. n \in Nat /\ \A k \in 1 .. n : file.records[k].incl_len \in Nat
  BY RecordLengths
<1> HIDE DEF n
<1>2. 0 \in S
  <2>1. EndsOf([k \in 0 .. 0 |-> 24], 0)
    BY DEF EndsOf
  <2> QED
    BY <1>1, <2>1
<1>3. ASSUME NEW m \in S, m < n
      PROVE  m + 1 \in S
  <2>1. PICK ends : EndsOf(ends, m)
    BY <1>3
  <2>2. m \in Nat /\ m + 1 \in 1 .. n /\ m \in 0 .. m
    BY <1>1, <1>3
  <2> DEFINE next == ends[m] + 16 + file.records[m + 1].incl_len
             longer == [k \in 0 .. m + 1 |-> IF k = m + 1 THEN next ELSE ends[k]]
  <2>3. ends \in [0 .. m -> Nat] /\ ends[m] \in Nat /\ file.records[m + 1].incl_len \in Nat
    BY <1>1, <2>1, <2>2 DEF EndsOf
  <2>4. next \in Nat
    BY <2>3
  <2> HIDE DEF next
  <2>5. \A k \in 0 .. m : longer[k] = ends[k]
    BY <2>2
  <2>6. longer[m + 1] = next
    BY <2>2
  <2>7. longer \in [0 .. m + 1 -> Nat]
    BY <2>2, <2>3, <2>4
  <2> HIDE DEF longer
  <2>8. longer[0] = 24
    BY <2>1, <2>2, <2>5 DEF EndsOf
  <2>9. ASSUME NEW k \in 1 .. m + 1
        PROVE  longer[k] = longer[k - 1] + 16 + file.records[k].incl_len
    <3>1. k - 1 \in 0 .. m
      BY <2>2
    <3>2. CASE k = m + 1
      BY <2>2, <2>5, <2>6, <3>1, <3>2 DEF next
    <3>3. CASE k # m + 1
      <4>1. k \in 1 .. m /\ k \in 0 .. m
        BY <2>2, <3>3
      <4> QED
        BY <2>1, <2>5, <3>1, <4>1 DEF EndsOf
    <3> QED
      BY <3>2, <3>3
  <2>10. EndsOf(longer, m + 1)
    BY <2>7, <2>8, <2>9 DEF EndsOf
  <2> QED
    BY <2>2, <2>10
<1>4. S = 0 .. n
  <2> HIDE DEF S
  <2>1. S \in SUBSET (0 .. n)
    BY DEF S
  <2> QED
    BY <1>1, <1>2, <1>3, <2>1, Climb
<1>5. n \in S
  BY <1>1, <1>4
<1> QED
  BY <1>5 DEF n

(* So the recursive definition in Whole has a meaning.                         *)
LEMMA WholeIsGreatest ==
    ASSUME file \in Files
    PROVE  \E ends : /\ EndsOf(ends, Len(file.records))
                     /\ Whole = Max({k \in 0 .. Len(file.records) : ends[k] <= file.size})
<1> DEFINE n == Len(file.records)
           Rule(ends) == [k \in 0 .. n |-> IF k = 0 THEN 24
                                           ELSE ends[k - 1] + 16 + file.records[k].incl_len]
           E == CHOOSE ends : ends = Rule(ends)
<1>1. PICK ends : EndsOf(ends, n)
  BY EndsExist
<1>2. n \in Nat
  BY RecordLengths
<1>3. Whole = Max({k \in DOMAIN E : E[k] <= file.size})
  BY DEF Whole
<1> HIDE DEF n
<1>4. ends = Rule(ends)
  <2>1. ends = [k \in 0 .. n |-> ends[k]]
    BY <1>1 DEF EndsOf
  <2>2. \A k \in 0 .. n : ends[k] = Rule(ends)[k]
    <3>1. ASSUME NEW k \in 0 .. n PROVE ends[k] = Rule(ends)[k]
      <4>1. k = 0 \/ k \in 1 .. n
        BY <1>2
      <4> QED
        BY <1>1, <4>1 DEF EndsOf
    <3> QED
      BY <3>1
  <2>3. Rule(ends) = [k \in 0 .. n |-> Rule(ends)[k]]
    OBVIOUS
  <2> QED
    BY <2>1, <2>2, <2>3
<1>5. E = Rule(E)
  BY <1>4
<1> HIDE DEF E
<1>6. DOMAIN E = 0 .. n /\ \A k \in 0 .. n :
         E[k] = IF k = 0 THEN 24 ELSE E[k - 1] + 16 + file.records[k].incl_len
  BY <1>5
<1>7. \A k \in 0 .. n : E[k] = ends[k]
  <2> DEFINE S == {k \in 0 .. n : E[k] = ends[k]}
  <2>1. 0 \in S
    BY <1>1, <1>2, <1>6 DEF EndsOf
  <2>2. ASSUME NEW k \in S, k < n PROVE k + 1 \in S
    <3>1. k + 1 \in 1 .. n /\ k + 1 \in 0 .. n /\ k + 1 # 0 /\ (k + 1) - 1 = k /\ E[k] = ends[k]
      BY <1>2, <2>2
    <3>2. ends[k + 1] = ends[(k + 1) - 1] + 16 + file.records[k + 1].incl_len
      BY <1>1, <3>1 DEF EndsOf
    <3>3. E[k + 1] = E[(k + 1) - 1] + 16 + file.records[k + 1].incl_len
      BY <1>6, <3>1
    <3> QED
      BY <3>1, <3>2, <3>3
  <2>3. S = 0 .. n
    <3> HIDE DEF S
    <3>1. S \in SUBSET (0 .. n)
      BY DEF S
    <3> QED
      BY <1>2, <2>1, <2>2, <3>1, Climb
  <2> QED
    BY <2>3
<1>8. {k \in DOMAIN E : E[k] <= file.size} = {k \in 0 .. n : ends[k] <= file.size}
  BY <1>6, <1>7
<1>9. Whole = Max({k \in 0 .. n : ends[k] <= file.size})
  BY <1>3, <1>8
<1> QED
  BY <1>1, <1>9 DEF n

(* The end of each packet is that of its record, as far as there are both.     *)
LEMMA PacketsEnd ==
    ASSUME IInv, AsGiven, NEW ends, EndsOf(ends, Len(file.records)),
           NEW k \in 1 .. Len(packets), k <= Len(file.records)
    PROVE  ends[k] = packets[k].from + packets[k].captured
<1> DEFINE n == Len(file.records)
           EndOf(i) == packets[i].from + packets[i].captured
           S == {i \in 0 .. k : i = 0 \/ ends[i] = EndOf(i)}
<1>1. /\ n \in Nat /\ Len(packets) \in Nat /\ k \in Nat
      /\ DOMAIN packets = 1 .. Len(packets)
  BY RecordLengths, LenProperties DEF IInv, Typed
<1>2. 0 \in S
  BY <1>1
<1>3. ASSUME NEW i \in S, i < k
      PROVE  i + 1 \in S
  <2>1. i \in Nat /\ i + 1 \in 1 .. n /\ i + 1 \in DOMAIN packets /\ (i + 1) - 1 = i
    BY <1>1, <1>3
  <2>2. ends[i + 1] = ends[i] + 16 + file.records[i + 1].incl_len
    BY <2>1 DEF EndsOf
  <2>3. packets[i + 1].captured = file.records[i + 1].incl_len
    BY <2>1, RecordLengths DEF AsGiven, Holds, IInv, Typed
  <2>4. packets[i + 1].from = 16 + IF i + 1 = 1 THEN 24 ELSE EndOf(i)
    BY <2>1 DEF IInv, Row
  <2>5. ends[i] = IF i + 1 = 1 THEN 24 ELSE EndOf(i)
    BY <1>3, <2>1 DEF EndsOf
  <2>6. ends[i] \in Nat /\ file.records[i + 1].incl_len \in Nat
    <3>1. i \in 0 .. n /\ ends \in [0 .. n -> Nat]
      BY <1>1, <2>1 DEF EndsOf
    <3> QED
      BY <2>1, <3>1, RecordLengths DEF IInv, Typed
  <2>7. ends[i + 1] = EndOf(i + 1)
    <3>1. packets[i + 1].from = 16 + ends[i]
      BY <2>4, <2>5
    <3> QED
      BY <2>2, <2>3, <2>6, <3>1
  <2> QED
    BY <1>3, <2>1, <2>7
<1>4. S = 0 .. k
  <2> HIDE DEF S
  <2>1. S \in SUBSET (0 .. k)
    BY DEF S
  <2> QED
    BY <1>1, <1>2, <1>3, <2>1, Climb
<1>5. k \in S /\ k # 0
  BY <1>1, <1>4
<1> QED
  BY <1>5

LEMMA StillBehind ==
    ASSUME NEW x \in Nat, NEW y \in Nat, NEW d \in Nat, x <= y
    PROVE  x <= y + 16 + d
  OBVIOUS

(* Records end one behind another.                                             *)
LEMMA EndsAscend ==
    ASSUME file \in Files, NEW ends, EndsOf(ends, Len(file.records)),
           NEW i \in 0 .. Len(file.records), NEW k \in i .. Len(file.records)
    PROVE  ends[i] <= ends[k]
<1> DEFINE n == Len(file.records)
           S == {j \in 0 .. k - i : ends[i] <= ends[i + j]}
<1>1. n \in Nat /\ i \in Nat /\ k \in Nat /\ k - i \in Nat /\ k <= n
  BY RecordLengths
<1>2. \A j \in 0 .. n : ends[j] \in Nat
  BY DEF EndsOf
<1>3. 0 \in S
  <2>1. i + 0 = i /\ ends[i] \in Nat
    BY <1>1, <1>2
  <2> QED
    BY <1>1, <2>1
<1>4. ASSUME NEW j \in S, j < k - i
      PROVE  j + 1 \in S
  <2>1. j \in Nat /\ i + (j + 1) \in 1 .. n /\ i + j \in 0 .. n /\ (i + (j + 1)) - 1 = i + j
        /\ j + 1 \in 0 .. k - i
    BY <1>1, <1>4
  <2>2. ends[i + (j + 1)] = ends[i + j] + 16 + file.records[i + (j + 1)].incl_len
    BY <2>1 DEF EndsOf
  <2>3. file.records[i + (j + 1)].incl_len \in Nat /\ ends[i + j] \in Nat /\ ends[i] \in Nat
    BY <1>1, <1>2, <2>1, RecordLengths
  <2>4. ends[i] <= ends[i + j]
    BY <1>4
  <2> HIDE DEF S
  <2>5. ends[i] <= ends[i + j] + 16 + file.records[i + (j + 1)].incl_len
    BY <2>3, <2>4, StillBehind
  <2>6. ends[i] <= ends[i + (j + 1)]
    BY <2>2, <2>5, Zenon
  <2> QED
    BY <2>1, <2>6 DEF S
<1>5. S = 0 .. k - i
  <2> HIDE DEF S
  <2>1. S \in SUBSET (0 .. k - i)
    BY DEF S
  <2> QED
    BY <1>1, <1>3, <1>4, <2>1, Climb
<1>6. k - i \in 0 .. k - i /\ i + (k - i) = k
  BY <1>1
<1>7. ends[i] <= ends[i + (k - i)]
  BY <1>5, <1>6
<1> QED
  BY <1>6, <1>7

LEMMA IsMax ==
    ASSUME NEW S \in SUBSET Nat, NEW m \in S, \A k \in S : k <= m
    PROVE  Max(S) = m
<1>1. \A x \in S : (\A y \in S : x >= y) => x = m
  OBVIOUS
<1>2. m \in S /\ \A y \in S : m >= y
  OBVIOUS
<1> QED
  BY <1>1, <1>2 DEF Max

(* The packets that were read are the records that are whole.                  *)
LEMMA GivenWholeRead ==
    ASSUME IInv, AsGiven
    PROVE  WholePacketsRead
<1> SUFFICES ASSUME stage = "ok"
             PROVE  /\ Len(packets) >= Whole
                    /\ \A k \in 1 .. Whole : Holds(packets[k], file.records[k])
  BY DEF WholePacketsRead
<1> DEFINE n == Len(file.records)
           m == Len(packets)
           least == IF m <= n THEN m ELSE n
<1>1. n \in Nat /\ m \in Nat /\ file \in Files /\ file.size \in Nat
      /\ (packets = << >> <=> m = 0)
  BY RecordLengths, FileTyped, LenProperties, EmptySeq DEF IInv, Typed
<1>2. PICK ends : /\ EndsOf(ends, n)
                  /\ Whole = Max({k \in 0 .. n : ends[k] <= file.size})
  BY <1>1, WholeIsGreatest
<1>3. least \in 0 .. n /\ least <= m
  BY <1>1
<1>4. ReadUpTo <= file.size
  BY DEF IInv, Row, Errors
<1>5. m <= n => ends[m] = ReadUpTo
  <2> SUFFICES ASSUME m <= n PROVE ends[m] = ReadUpTo
    OBVIOUS
  <2>1. CASE m = 0
    BY <1>1, <1>2, <2>1 DEF EndsOf, ReadUpTo
  <2>2. CASE m # 0
    <3>1. m \in 1 .. m /\ packets # << >>
      BY <1>1, <2>2
    <3>2. ends[m] = packets[m].from + packets[m].captured
      BY <1>2, <3>1, PacketsEnd
    <3> QED
      BY <3>1, <3>2 DEF ReadUpTo, Last
  <2> QED
    BY <2>1, <2>2
<1>6. ends[least] <= file.size
  <2>1. CASE m <= n
    BY <1>4, <1>5, <2>1
  <2>2. CASE ~(m <= n)
    <3>1. CASE n = 0
      <4>1. ends[n] = 24 /\ packets # << >> /\ 1 \in DOMAIN packets
        BY <1>1, <1>2, <2>2, <3>1, LenProperties DEF EndsOf, IInv, Typed
      <4>2. Inside(packets[1]) /\ packets[1].from = 16 + 24 /\ packets[1] \in Packet
        BY <4>1, ElementOfSeq DEF IInv, Row, Typed
      <4>3. packets[1].captured \in Nat
        BY <4>2, PacketTyped
      <4> QED
        BY <1>1, <2>2, <4>1, <4>2, <4>3 DEF Inside
    <3>2. CASE n # 0
      <4>1. n \in 1 .. m /\ n \in DOMAIN packets
        BY <1>1, <2>2, <3>2, LenProperties DEF IInv, Typed
      <4>2. ends[n] = packets[n].from + packets[n].captured
        BY <1>1, <1>2, <4>1, PacketsEnd
      <4>3. Inside(packets[n])
        BY <4>1 DEF IInv, Row
      <4> QED
        BY <2>2, <4>2, <4>3 DEF Inside
    <3> QED
      BY <3>1, <3>2
  <2> QED
    BY <2>1, <2>2
<1>7. ASSUME NEW k \in 0 .. n, ends[k] <= file.size
      PROVE  k <= least
  <2> SUFFICES ASSUME m < k PROVE FALSE
    BY <1>1
  <2>1. m + 1 \in 1 .. n /\ m \in 0 .. n /\ k \in m + 1 .. n /\ m + 1 \in 0 .. n /\ m <= n
        /\ (m + 1) - 1 = m
    BY <1>1
  <2>2. ends[m + 1] <= ends[k]
    BY <1>1, <1>2, <2>1, EndsAscend
  <2>3. ends[m + 1] = ends[(m + 1) - 1] + 16 + file.records[m + 1].incl_len
    BY <1>2, <2>1 DEF EndsOf
  <2>4. NextRecord.incl_len = file.records[m + 1].incl_len
    BY <1>1, <2>1, RecordLengths DEF NextRecord
  <2>5. ends[m + 1] > file.size
    BY <1>5, <2>1, <2>3, <2>4 DEF AsGiven
  <2>6. ends[k] \in Nat /\ ends[m + 1] \in Nat
    BY <1>2, <2>1 DEF EndsOf
  <2> QED
    BY <1>1, <1>7, <2>2, <2>5, <2>6
<1>8. Whole = least
  <2> DEFINE S == {k \in 0 .. n : ends[k] <= file.size}
  <2>1. S \in SUBSET Nat /\ least \in S /\ \A k \in S : k <= least
    BY <1>3, <1>6, <1>7
  <2> HIDE DEF S, least, n
  <2>2. Max(S) = least
    BY <2>1, IsMax
  <2> QED
    BY <1>2, <2>2 DEF S
<1>9. ASSUME NEW k \in 1 .. Whole
      PROVE  Holds(packets[k], file.records[k])
  <2>1. k \in 1 .. m /\ k \in 1 .. n
    BY <1>1, <1>8
  <2>2. k \in DOMAIN packets /\ k \in DOMAIN file.records
    BY <2>1, RecordLengths, LenProperties DEF IInv, Typed
  <2> QED
    BY <2>2 DEF AsGiven, RecordAt
<1> QED
  BY <1>1, <1>8, <1>9

(* Reading a header changes neither the length nor the bytes of its packet.    *)
Unchanged(p) == p.captured = packet.captured /\ p.frame = packet.frame

LEMMA LeaveAsGiven ==
    ASSUME IInv, AsGiven, stage \in Headers, NEW p, Unchanged(p), Leave(p)
    PROVE  AsGiven'
<1> DEFINE n == Len(packets)
<1>1. packets \in Seq(Packet) /\ packets' = Append(packets, p) /\ file' = file
      /\ stage' = "record"
  BY DEF IInv, Typed, Leave
<1>2. packets \in Seq(Packet \cup {p})
  BY <1>1
<1>3. /\ Len(packets') = n + 1 /\ n \in Nat /\ packets'[n + 1] = p
      /\ \A i \in 1 .. n : packets'[i] = packets[i]
      /\ DOMAIN packets' = 1 .. n + 1 /\ DOMAIN packets = 1 .. n
  BY <1>1, <1>2, AppendProperties, LenProperties
<1>4. ASSUME NEW k \in DOMAIN packets'
      PROVE  Holds(packets'[k], RecordAt(k))
  <2>1. k = n + 1 \/ k \in 1 .. n
    BY <1>3
  <2> QED
    BY <1>3, <2>1 DEF AsGiven, NextRecord, Unchanged, Holds
<1>5. \A k \in DOMAIN packets' : Holds(packets[k], RecordAt(k))'
  BY <1>1, <1>4 DEF RecordAt, Holds
<1> QED
  BY <1>1, <1>5 DEF AsGiven, Headers

LEMMA DescendAsGiven ==
    ASSUME IInv, AsGiven, stage \in Headers, NEW p, NEW next \in Headers,
           Unchanged(p), Descend(p, next)
    PROVE  AsGiven'
BY DEF Descend, AsGiven, NextRecord, RecordAt, Headers, Unchanged, Holds

(* Every header leaves the packet or goes on with it.                          *)
LEMMA HeaderAsGiven ==
    ASSUME IInv, AsGiven, ReadHeader
    PROVE  AsGiven'
<1>1. stage \in Headers
  BY DEF ReadHeader, UnsupportedLink, ReadEthernet, ReadIpv4, ReadTcp, ReadUdp, ReadDns, Headers
<1>2. packet \in Packet
  BY DEF IInv, Typed
<1>3. \A note : Unchanged([packet EXCEPT !.notes = Append(@, note)])
  BY <1>2 DEF Packet, Unchanged
<1>4. ASSUME NEW note, LeaveNoting(note)
      PROVE  AsGiven'
  BY <1>1, <1>3, <1>4, LeaveAsGiven DEF LeaveNoting
<1>5. CASE UnsupportedLink
  BY <1>4, <1>5 DEF UnsupportedLink
<1>6. CASE ReadEthernet
  <2> DEFINE tagged == packet.frame.ether_type = "tag"
             type == IF tagged THEN packet.frame.inner ELSE packet.frame.ether_type
             with == [packet EXCEPT !.ethernet = IF tagged THEN 18 ELSE 14]
  <2>1. \/ \E note : LeaveNoting(note)
        \/ Descend(with, "ipv4") \/ Leave(with)
    BY <1>6, Zenon DEF ReadEthernet
  <2>2. Unchanged(with)
    BY <1>2 DEF Packet, Unchanged
  <2> HIDE DEF with
  <2> QED
    BY <1>1, <1>4, <2>1, <2>2, LeaveAsGiven, DescendAsGiven DEF Headers
<1>7. CASE ReadIpv4
  <2> DEFINE size == packet.captured - packet.ethernet
             header == 4 * packet.frame.ihl
             total == IF packet.frame.total_length > size THEN size
                      ELSE packet.frame.total_length
             with == [packet EXCEPT !.ipv4 = header, !.ip_payload = total - header]
             short == [packet EXCEPT !.notes = Append(@, "invalid ipv4 total length")]
  <2>1. \/ \E note : LeaveNoting(note)
        \/ Leave(short)
        \/ Leave(with)
        \/ packet.frame.protocol # "other" /\ Descend(with, packet.frame.protocol)
    BY <1>7, Zenon DEF ReadIpv4
  <2>2. Unchanged(with) /\ Unchanged(short)
    BY <1>2 DEF Packet, Unchanged
  <2>3. packet.frame.protocol # "other" => packet.frame.protocol \in Headers
    BY <1>2, PacketTyped, FrameTyped DEF Protocols, Headers
  <2> HIDE DEF with, short
  <2> QED
    BY <1>1, <1>4, <2>1, <2>2, <2>3, LeaveAsGiven, DescendAsGiven
<1>8. CASE ReadTcp
  <2> DEFINE header == 4 * packet.frame.data_offset
             with == [packet EXCEPT !.tcp = header, !.payload = packet.ip_payload - header]
  <2>1. (\E note : LeaveNoting(note)) \/ Leave(with)
    BY <1>8, Zenon DEF ReadTcp
  <2>2. Unchanged(with)
    BY <1>2 DEF Packet, Unchanged
  <2> HIDE DEF with
  <2> QED
    BY <1>1, <1>4, <2>1, <2>2, LeaveAsGiven
<1>9. CASE ReadUdp
  <2> DEFINE length == packet.frame.udp_length
             rest == (IF length > packet.ip_payload THEN packet.ip_payload ELSE length) - 8
             with == [packet EXCEPT !.udp = 8, !.payload = rest]
  <2>1. \/ \E note : LeaveNoting(note)
        \/ Descend(with, "dns") \/ Leave(with)
    BY <1>9, Zenon DEF ReadUdp
  <2>2. Unchanged(with)
    BY <1>2 DEF Packet, Unchanged
  <2> HIDE DEF with
  <2> QED
    BY <1>1, <1>4, <2>1, <2>2, LeaveAsGiven, DescendAsGiven DEF Headers
<1>10. CASE ReadDns
  <2> DEFINE with == [packet EXCEPT !.dns = TRUE]
  <2>1. (\E note : LeaveNoting(note)) \/ Leave(with)
    BY <1>10, Zenon DEF ReadDns
  <2>2. Unchanged(with)
    BY <1>2 DEF Packet, Unchanged
  <2> HIDE DEF with
  <2> QED
    BY <1>1, <1>4, <2>1, <2>2, LeaveAsGiven
<1> QED
  BY <1>5, <1>6, <1>7, <1>8, <1>9, <1>10 DEF ReadHeader

LEMMA FileAsGiven ==
    ASSUME IInv, AsGiven,
           ReadFileHeader \/ EndOfFile \/ TrailingBytes \/ PacketTooLong \/ BeginPacket
    PROVE  AsGiven'
<1>1. packets' = packets /\ file' = file
  BY DEF ReadFileHeader, EndOfFile, TrailingBytes, PacketTooLong, BeginPacket
<1>2. /\ ReadUpTo' = ReadUpTo /\ NextRecord' = NextRecord
      /\ (\A k \in DOMAIN packets : Holds(packets[k], RecordAt(k)))'
  BY <1>1 DEF ReadUpTo, NextRecord, RecordAt, AsGiven, Holds
<1>3. /\ file \in Files /\ file.size \in Nat /\ packets \in Seq(Packet) /\ offset \in Nat
      /\ ReadUpTo \in Nat /\ NextRecord.incl_len \in Nat
  BY FileTyped, ReadUpToTyped, LenProperties DEF IInv, Typed, NextRecord
<1>4. stage = "record" => offset = ReadUpTo
  BY DEF IInv, Reached
<1>5. CASE ReadFileHeader
  <2>1. stage' \notin Headers \cup {"ok"}
    BY <1>5 DEF ReadFileHeader, Headers
  <2> QED
    BY <1>2, <2>1 DEF AsGiven
<1>6. CASE EndOfFile \/ TrailingBytes \/ PacketTooLong
  <2>1. stage' = "ok" /\ stage' \notin Headers /\ stage = "record"
    BY <1>6 DEF EndOfFile, TrailingBytes, PacketTooLong, HasRecord, Headers
  <2>2. ReadUpTo + 16 + NextRecord.incl_len > file.size
    BY <1>3, <1>4, <1>6, <2>1 DEF EndOfFile, TrailingBytes, PacketTooLong, HasRecord
  <2> QED
    BY <1>1, <1>2, <2>1, <2>2 DEF AsGiven
<1>7. CASE BeginPacket
  <2>1. stage' # "ok" /\ Holds(packet', NextRecord)
    BY <1>7 DEF BeginPacket, NewPacket, Holds
  <2> QED
    BY <1>2, <2>1 DEF AsGiven
<1> QED
  BY <1>5, <1>6, <1>7

(* For all files: wherever a file was cut, the records before the cut are all  *)
(* read, each as the packet with its number, its length and its bytes.         *)
THEOREM WholePacketsAlwaysRead == Spec => []WholePacketsRead
<1>1. Init => AsGiven
  <2>1. Init => stage \notin Headers \cup {"ok"} /\ DOMAIN packets = {}
    BY EmptySeq DEF Init, Headers
  <2> QED
    BY <2>1 DEF AsGiven
<1>2. IInv /\ AsGiven /\ [Next]_vars => AsGiven'
  <2> SUFFICES ASSUME IInv, AsGiven, [Next]_vars PROVE AsGiven'
    OBVIOUS
  <2>1. CASE ReadFileHeader \/ EndOfFile \/ TrailingBytes \/ PacketTooLong \/ BeginPacket
    BY <2>1, FileAsGiven
  <2>2. CASE ReadHeader
    BY <2>2, HeaderAsGiven
  <2>3. CASE UNCHANGED vars
    BY <2>3 DEF vars, AsGiven, NextRecord, RecordAt, ReadUpTo
  <2> QED
    BY <2>1, <2>2, <2>3 DEF Next, Returned
<1>3. IInv /\ AsGiven => WholePacketsRead
  BY GivenWholeRead
<1> QED
  BY <1>1, <1>2, <1>3, InvariantAlways, PTL DEF Spec
=============================================================================
