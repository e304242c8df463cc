------------------------------- MODULE Catalog -------------------------------
(***************************************************************************)
(* The tables of src/src/core/security_catalog.cpp and the lookups in      *)
(* them; and the names of services and DNS types that                      *)
(* src/src/packet/packet.cpp gives, and the options that                   *)
(* src/src/rules/rules.cpp knows, independently of the tables.             *)
(*                                                                         *)
(* A table is its stretches in their order: a few entries with names of    *)
(* their own and the run of generated entries that follows them.  A        *)
(* generated name ("tcp-port-26") is "slot"; of the texts of an entry only *)
(* those are kept that a lookup compares or a label tells apart.           *)
(***************************************************************************)
EXTENDS Integers, SequencesExt, FiniteSetsExt

Profile(port, transport, service, category, risk) ==
    [port |-> port, transport |-> transport, service |-> service, category |-> category,
     risk |-> risk]

Slots(first, last, transport, category, risk) ==
    [i \in 1 .. last - first + 1 |-> Profile(first + i - 1, transport, "slot", category, risk)]

Tcp(port, service, category, risk) == Profile(port, "tcp", service, category, risk)
Udp(port, service, category, risk) == Profile(port, "udp", service, category, risk)
TcpSlots(first, last, category, risk) == Slots(first, last, "tcp", category, risk)
UdpSlots(first, last, category, risk) == Slots(first, last, "udp", category, risk)

-----------------------------------------------------------------------------
(* TCP.                                                                    *)

TcpFrom0 ==
    <<Tcp(0, "tcp-reserved-0", "reserved", "high")>>
    \o TcpSlots(1, 19, "system", "medium")

TcpFrom20 ==
    <<Tcp(20, "ftp-data", "file-transfer", "medium"),
      Tcp(21, "ftp", "file-transfer", "medium"), Tcp(22, "ssh", "remote-admin", "medium"),
      Tcp(23, "telnet", "remote-admin", "high")>>
    \o TcpSlots(24, 24, "privileged-service", "medium")

TcpFrom25 == <<Tcp(25, "smtp", "mail", "medium")>> \o TcpSlots(26, 52, "privileged-service", "medium")

TcpFrom53 ==
    <<Tcp(53, "dns", "name-service", "medium")>>
    \o TcpSlots(54, 79, "privileged-service", "medium")

(* Fault: the stretch runs into the next one.                              *)
TcpFrom80Overlapping ==
    <<Tcp(80, "http", "web", "medium")>> \o TcpSlots(81, 110, "privileged-service", "medium")

TcpFrom80 == <<Tcp(80, "http", "web", "medium")>> \o TcpSlots(81, 109, "privileged-service", "medium")

TcpFrom110 ==
    <<Tcp(110, "pop3", "mail", "medium")>>
    \o TcpSlots(111, 134, "privileged-service", "medium")

TcpFrom135 ==
    <<Tcp(135, "msrpc", "windows-rpc", "high")>>
    \o TcpSlots(136, 138, "privileged-service", "medium")

TcpFrom139 ==
    <<Tcp(139, "netbios-ssn", "windows-file-sharing", "high")>>
    \o TcpSlots(140, 142, "privileged-service", "medium")

TcpFrom143 ==
    <<Tcp(143, "imap", "mail", "medium")>>
    \o TcpSlots(144, 388, "privileged-service", "medium")

TcpFrom389 ==
    <<Tcp(389, "ldap", "directory", "medium")>>
    \o TcpSlots(390, 442, "privileged-service", "medium")

TcpFrom443 ==
    <<Tcp(443, "https", "web", "medium")>>
    \o TcpSlots(444, 444, "privileged-service", "medium")

TcpFrom445 ==
    <<Tcp(445, "smb", "windows-file-sharing", "high")>>
    \o TcpSlots(446, 464, "privileged-service", "medium")

TcpFrom465 ==
    <<Tcp(465, "smtps", "mail", "medium")>>
    \o TcpSlots(466, 586, "privileged-service", "medium")

TcpFrom587 ==
    <<Tcp(587, "smtp-client", "mail", "medium")>>
    \o TcpSlots(588, 599, "privileged-service", "medium")

TcpFrom636 ==
    <<Tcp(636, "ldaps", "directory", "medium"), Tcp(993, "imaps", "mail", "medium"),
      Tcp(995, "pop3s", "mail", "medium"), Tcp(1433, "mssql", "database", "high"),
      Tcp(1521, "oracle", "database", "high")>>
    \o TcpSlots(1900, 1900, "registered-service", "low")

TcpFrom3306 ==
    <<Tcp(3306, "mysql", "database", "high"), Tcp(3389, "rdp", "remote-admin", "high")>>
    \o TcpSlots(4500, 4500, "registered-service", "low")
    \o TcpSlots(5353, 5353, "registered-service", "low")

TcpFrom5432 ==
    <<Tcp(5432, "postgres", "database", "high"), Tcp(5900, "vnc", "remote-admin", "high"),
      Tcp(6379, "redis", "database", "high"), Tcp(8080, "http-alt", "web", "medium")>>

-----------------------------------------------------------------------------
(* UDP.                                                                    *)

UdpFrom0 ==
    <<Udp(0, "udp-reserved-0", "reserved", "high")>>
    \o UdpSlots(1, 19, "system", "medium")
    \o UdpSlots(20, 52, "privileged-service", "low")

UdpFrom53 ==
    <<Udp(53, "dns", "name-service", "medium")>>
    \o UdpSlots(54, 66, "privileged-service", "low")

UdpFrom67 ==
    <<Udp(67, "dhcp-server", "addressing", "medium"),
      Udp(68, "dhcp-client", "addressing", "low"), Udp(69, "tftp", "file-transfer", "high")>>
    \o UdpSlots(70, 122, "privileged-service", "low")

UdpFrom123 == <<Udp(123, "ntp", "time", "low")>> \o UdpSlots(124, 136, "privileged-service", "low")

UdpFrom137 ==
    <<Udp(137, "netbios-ns", "windows-name-service", "medium"),
      Udp(138, "netbios-dgm", "windows-name-service", "medium")>>
    \o UdpSlots(139, 160, "privileged-service", "low")

UdpFrom161 ==
    <<Udp(161, "snmp", "management", "high"), Udp(162, "snmptrap", "management", "medium")>>
    \o UdpSlots(163, 499, "privileged-service", "low")

UdpFrom500 == <<Udp(500, "isakmp", "vpn", "medium")>> \o UdpSlots(501, 513, "privileged-service", "low")

UdpFrom514 ==
    <<Udp(514, "syslog", "logging", "medium")>>
    \o UdpSlots(515, 519, "privileged-service", "low")

UdpFrom520 ==
    <<Udp(520, "rip", "routing", "high")>>
    \o UdpSlots(521, 599, "privileged-service", "low")
    \o UdpSlots(636, 636, "privileged-service", "low")
    \o UdpSlots(993, 993, "privileged-service", "low")
    \o UdpSlots(995, 995, "privileged-service", "low")
    \o UdpSlots(1433, 1433, "registered-service", "low")
    \o UdpSlots(1521, 1521, "registered-service", "low")

UdpFrom1900 ==
    <<Udp(1900, "ssdp", "discovery", "medium")>>
    \o UdpSlots(3306, 3306, "registered-service", "low")
    \o UdpSlots(3389, 3389, "registered-service", "low")

UdpFrom4500 ==
    <<Udp(4500, "ipsec-nat", "vpn", "medium"), Udp(5353, "mdns", "discovery", "medium")>>
    \o UdpSlots(5432, 5432, "registered-service", "low")
    \o UdpSlots(5900, 5900, "registered-service", "low")
    \o UdpSlots(6379, 6379, "registered-service", "low")
    \o UdpSlots(8080, 8080, "registered-service", "low")

ServiceProfiles ==
    TcpFrom0 \o TcpFrom20 \o TcpFrom25 \o TcpFrom53 \o TcpFrom80 \o TcpFrom110 \o TcpFrom135
       \o TcpFrom139 \o TcpFrom143 \o TcpFrom389 \o TcpFrom443 \o TcpFrom445 \o TcpFrom465
       \o TcpFrom587 \o TcpFrom636 \o TcpFrom3306 \o TcpFrom5432 \o UdpFrom0 \o UdpFrom53
       \o UdpFrom67 \o UdpFrom123 \o UdpFrom137 \o UdpFrom161 \o UdpFrom500 \o UdpFrom514
       \o UdpFrom520 \o UdpFrom1900 \o UdpFrom4500

-----------------------------------------------------------------------------
(* DNS types.                                                              *)

Type(type, mnemonic, signal) == [type |-> type, mnemonic |-> mnemonic, signal |-> signal]

Unassigned(first, last) ==
    [i \in 1 .. last - first + 1 |-> Type(first + i - 1, "unassigned", "low")]

TypesFrom0 == Unassigned(0, 0)

TypesFrom1 == <<Type(1, "A", "core"), Type(2, "NS", "core")>> \o Unassigned(3, 4)

TypesFrom5 == <<Type(5, "CNAME", "core"), Type(6, "SOA", "core")>> \o Unassigned(7, 11)

TypesFrom12 == <<Type(12, "PTR", "core")>> \o Unassigned(13, 14)

TypesFrom15 == <<Type(15, "MX", "core"), Type(16, "TXT", "high-signal")>> \o Unassigned(17, 27)

TypesFrom28 == <<Type(28, "AAAA", "core")>> \o Unassigned(29, 32)

TypesFrom33 == <<Type(33, "SRV", "high-signal")>> \o Unassigned(34, 42)

TypesFrom43 == <<Type(43, "DS", "dnssec")>> \o Unassigned(44, 45)

TypesFrom46 ==
    <<Type(46, "RRSIG", "dnssec"), Type(47, "NSEC", "dnssec"), Type(48, "DNSKEY", "dnssec")>>
    \o Unassigned(49, 51)

TypesFrom52 == <<Type(52, "TLSA", "high-signal")>> \o Unassigned(53, 64)

TypesFrom65 == <<Type(65, "HTTPS", "high-signal")>> \o Unassigned(66, 254)

TypesFrom255 == <<Type(255, "ANY", "high")>>

DnsTypeProfiles ==
    TypesFrom0 \o TypesFrom1 \o TypesFrom5 \o TypesFrom12 \o TypesFrom15 \o TypesFrom28
       \o TypesFrom33 \o TypesFrom43 \o TypesFrom46 \o TypesFrom52 \o TypesFrom65
       \o TypesFrom255

-----------------------------------------------------------------------------
(* Options of rules and settings of policies.                              *)

Option(name, category, value) == [name |-> name, category |-> category, value |-> value]
Matching(name) == Option(name, "matching", "string-or-flag")
Identity(name) == Option(name, "identity", "string-or-flag")

RuleOptionProfiles ==
    <<Identity("msg"), Matching("content"), Option("sid", "identity", "integer"),
      Option("rev", "identity", "integer"), Identity("classtype"), Identity("reference"),
      Identity("metadata"), Matching("flow"), Option("depth", "matching", "integer"),
      Option("offset", "matching", "integer"), Option("distance", "matching", "integer"),
      Option("within", "matching", "integer"), Matching("nocase"), Matching("fast_pattern"),
      Matching("http_uri"), Matching("http_header"), Matching("http_method"),
      Matching("dns_query"), Matching("byte_test"), Matching("byte_jump"), Matching("pcre"),
      Matching("threshold"), Matching("detection_filter"), Matching("flowbits"),
      Matching("tag"), Option("priority", "identity", "integer")>>

(* The keys: nothing depends on what else the table says of a setting.     *)
PolicySettingProfiles ==
    <<"default_input_action", "default_output_action", "default_forward_action",
      "permit_remote_admin", "minimum_password_length", "mfa_required", "log_dropped_packets",
      "allow_dns_egress", "allow_ntp_egress", "allow_web_egress", "block_cleartext_admin",
      "allow_inbound_smb", "allow_inbound_rdp", "allow_snmp_from_management",
      "drop_invalid_state", "allow_established_related", "deny_all_then_allow",
      "log_policy_changes", "require_change_ticket", "allow_loopback">>

-----------------------------------------------------------------------------
(* Lookups.  Every table is searched from its front, and the first entry   *)
(* with the key is the answer; None if there is none.                      *)

None == [found |-> FALSE]

(* Fault: only the port is compared.                                       *)
LookupServiceProfileByPort(port, transport) ==
    LET at == SelectInSeq(ServiceProfiles, LAMBDA p : p.port = port)
    IN  IF at = 0 THEN None ELSE [found |-> TRUE, profile |-> ServiceProfiles[at]]

LookupServiceProfile(port, transport) ==
    LET at == SelectInSeq(ServiceProfiles, LAMBDA p : p.port = port /\ p.transport = transport)
    IN  IF at = 0 THEN None ELSE [found |-> TRUE, profile |-> ServiceProfiles[at]]

(* Fault: a type is taken for the place of its entry.                      *)
LookupDnsTypeProfileAt(type) ==
    IF type \in DOMAIN DnsTypeProfiles THEN [found |-> TRUE, profile |-> DnsTypeProfiles[type]]
    ELSE None

LookupDnsTypeProfile(type) ==
    LET at == SelectInSeq(DnsTypeProfiles, LAMBDA t : t.type = type)
    IN  IF at = 0 THEN None ELSE [found |-> TRUE, profile |-> DnsTypeProfiles[at]]

LookupRuleOptionProfile(name) ==
    LET at == SelectInSeq(RuleOptionProfiles, LAMBDA o : o.name = name)
    IN  IF at = 0 THEN None ELSE [found |-> TRUE, profile |-> RuleOptionProfiles[at]]

LookupPolicySettingProfile(key) ==
    LET at == SelectInSeq(PolicySettingProfiles, LAMBDA s : s = key)
    IN  IF at = 0 THEN None ELSE [found |-> TRUE, profile |-> PolicySettingProfiles[at]]

ServiceProfilesByRisk(risk) == SelectSeq(ServiceProfiles, LAMBDA p : p.risk = risk)

ServiceProfilesByCategory(category) ==
    SelectSeq(ServiceProfiles, LAMBDA p : p.category = category)

(* The labels: nothing is known of a service without a profile.            *)
ServiceExposureLabel(port, transport) ==
    LET profile == LookupServiceProfile(port, transport)
    IN  IF ~profile.found THEN "unknown"
        ELSE profile.profile.service \o " [" \o profile.profile.risk \o "]"

DnsTypeSignalLabel(type) ==
    LET profile == LookupDnsTypeProfile(type)
    IN  IF ~profile.found THEN "unknown"
        ELSE profile.profile.mnemonic \o " [" \o profile.profile.signal \o "]"

-----------------------------------------------------------------------------
(* The names that packet.cpp gives to services and types.                  *)

TcpNames ==
    20 :> "ftp-data" @@ 21 :> "ftp" @@ 22 :> "ssh" @@ 23 :> "telnet" @@ 25 :> "smtp" @@
    53 :> "dns" @@ 80 :> "http" @@ 110 :> "pop3" @@ 143 :> "imap" @@ 389 :> "ldap" @@
    443 :> "https" @@ 445 :> "smb" @@ 465 :> "smtps" @@ 587 :> "smtp-client" @@
    993 :> "imaps" @@ 995 :> "pop3s" @@ 1433 :> "mssql" @@ 1521 :> "oracle" @@
    3306 :> "mysql" @@ 3389 :> "rdp" @@ 5432 :> "postgres" @@ 5900 :> "vnc" @@
    6379 :> "redis" @@ 8080 :> "http-alt"

UdpNames ==
    53 :> "dns" @@ 67 :> "dhcp-server" @@ 68 :> "dhcp-client" @@ 69 :> "tftp" @@
    123 :> "ntp" @@ 137 :> "netbios-ns" @@ 161 :> "snmp" @@ 500 :> "isakmp" @@
    514 :> "syslog" @@ 1900 :> "ssdp" @@ 4500 :> "ipsec-nat" @@ 5353 :> "mdns"

ServiceName(port, protocol) ==
    LET names == IF protocol = "tcp" THEN TcpNames ELSE IF protocol = "udp" THEN UdpNames ELSE << >>
    IN  IF port \in DOMAIN names THEN names[port] ELSE ""

TypeNames ==
    1 :> "A" @@ 2 :> "NS" @@ 5 :> "CNAME" @@ 6 :> "SOA" @@ 12 :> "PTR" @@ 15 :> "MX" @@
    16 :> "TXT" @@ 28 :> "AAAA" @@ 33 :> "SRV" @@ 65 :> "HTTPS"

(* The options that rules.cpp warns of when they come twice, and those of  *)
(* them that it reads as numbers.                                          *)
SingleOptions == {"sid", "rev", "msg", "classtype", "reference", "metadata"}
NumberOptions == {"sid", "rev"}
=============================================================================
