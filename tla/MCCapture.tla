------------------------------ MODULE MCCapture ------------------------------
(***************************************************************************)
(* Captures of one or two packets, cut at every length at which something  *)
(* can change, and headers whose lengths are too small, just right, too    *)
(* large for what was captured, or no lengths at all.                      *)
(***************************************************************************)
EXTENDS Capture

(* A query of 12 bytes over UDP: 14 + 20 + 8 + 12.                         *)
Query == [ether_type |-> "ipv4", inner |-> "other", version |-> 4, ihl |-> 5,
          total_length |-> 40, protocol |-> "udp", odd |-> {},
          data_offset |-> 5, udp_length |-> 20, port53 |-> TRUE, dns |-> 12]
(* A tagged segment with options in both headers: 18 + 24 + 24 + 2.        *)
Segment == [Query EXCEPT !.ether_type = "tag", !.inner = "ipv4", !.ihl = 6,
                         !.total_length = 50, !.protocol = "tcp", !.data_offset = 6]

(* The lengths in a header, one or two of them changed.                    *)
SomeFrames ==
    {[Query EXCEPT !.total_length = t, !.udp_length = u, !.ihl = h] :
        t \in {0, 19, 20, 27, 28, 39, 40, 41, 65535}, u \in {0, 7, 8, 19, 20, 21, 65535},
        h \in {5, 6}}
    \cup {[Query EXCEPT !.port53 = FALSE, !.udp_length = u] : u \in {7, 8, 21}}
    \cup {[Query EXCEPT !.version = v, !.ihl = h, !.odd = Oddities] : v \in {4, 6}, h \in {4, 5, 15}}
    \cup {[Segment EXCEPT !.total_length = t, !.data_offset = d, !.odd = o] :
        t \in {23, 24, 43, 44, 48, 50, 65535}, d \in {0, 4, 5, 6, 7, 15}, o \in {{}, Oddities}}
    \cup {[Segment EXCEPT !.inner = i, !.protocol = "other"] : i \in EtherTypes}
    \cup {[Query EXCEPT !.ether_type = "other"]}

(* What is captured of a frame: cut inside and at the end of each header,  *)
(* or with padding behind it.                                              *)
Captured == {0, 13, 14, 17, 18, 33, 34, 38, 41, 42, 53, 54, 60, 61, 65, 66, 68, 70}

OnePacket ==
    {[size |-> 24 + 16 + n, magic |-> TRUE, major |-> 2, link_type |-> 1,
      records |-> <<[incl_len |-> n, frame |-> frame]>>] :
        n \in Captured, frame \in SomeFrames}

(* Two packets, in a file that is cut anywhere or goes on with zeros.      *)
CutFiles ==
    {[size |-> size, magic |-> TRUE, major |-> major, link_type |-> link,
      records |-> <<[incl_len |-> n, frame |-> Query], [incl_len |-> 68, frame |-> Segment]>>] :
        size \in 0 .. 220, major \in {2, 3}, link \in {1, 101}, n \in {0, 54, 60}}

(* The capture of tests/packet/packet_tests.cpp: a query of 29 bytes over  *)
(* UDP, 14 + 20 + 8 + 29 bytes, that is said to be 0x4a long.              *)
TestFile ==
    [size |-> 24 + 16 + 71, magic |-> TRUE, major |-> 2, link_type |-> 1,
     records |-> <<[incl_len |-> 74,
                    frame |-> [Query EXCEPT !.total_length = 60, !.udp_length = 40,
                                            !.dns = 29]]>>]

SomeFiles ==
    OnePacket \cup CutFiles \cup {TestFile}
    \cup {[f EXCEPT !.magic = FALSE] : f \in {c \in CutFiles : c.size \in {23, 24, 40}}}
=============================================================================
