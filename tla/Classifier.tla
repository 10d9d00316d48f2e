----------------------------- MODULE Classifier -----------------------------
(***************************************************************************)
(* What the scanner makes of the answers of one address: the label of a    *)
(* service from what it says (fingerprint, udpFingerprint and the helpers  *)
(* of banner.go and udp_banner.go), the vendor from the neighbour cache    *)
(* (lookupARP) and the type of the device from all of it (classify), the   *)
(* first of an ordered list of rules. Ports are numbers, what speaks on a  *)
(* port is the name of its protocol, a vendor is the word of the OUI table *)
(* that classify looks for. "" is an answer that was not recognised.       *)
(***************************************************************************)
EXTENDS Integers, Sequences, FiniteSets

(* sshBanner, httpServerHeader and the other strict helpers: the protocols *)
(* whose first bytes each takes for the one it looks for. The answer to    *)
(* postgresProbe is one byte, S or N, which a greeting "SSH-" begins with, *)
(* and redisInfo takes any reply with the first byte of a RESP type, plus  *)
(* and asterisk among them, as in the greetings of POP3 and IMAP. "HTTP"   *)
(* sends a Server header, "HTTPS" that or a certificate with a name.       *)
OpenSSH == {"SSH-OpenSSH", "SSH-OpenSSH_for_Windows"}
SSHServers == OpenSSH \cup {"SSH-dropbear"}

Accepts(label) == {label} \cup (CASE label = "PostgreSQL" -> SSHServers
                                 [] label = "Redis"      -> {"POP3", "IMAP"}
                                 [] OTHER                -> {})

StrictLabel(port) ==
    CASE port \in {80, 8080, 8000, 8888} -> "HTTP"
      [] port \in {443, 8443}            -> "HTTPS"
      [] port = 3306                     -> "MySQL"
      [] port = 5432                     -> "PostgreSQL"
      [] port = 6379                     -> "Redis"
      [] port = 11211                    -> "Memcached"
      [] port = 5900                     -> "VNC"
      [] port = 3389                     -> "RDP"
      [] port = 1433                     -> "MSSQL"
      [] port = 27017                    -> "MongoDB"
      [] OTHER                           -> ""

(* lineBanner puts the label of the port before any line that is sent      *)
(* unasked.                                                                *)
SpeaksFirst == SSHServers \cup {"FTP", "Telnet", "SMTP", "POP3", "IMAP", "MySQL", "VNC"}

LineLabel(port) ==
    CASE port = 21             -> "FTP"
      [] port = 23             -> "Telnet"
      [] port \in {25, 465, 587} -> "SMTP"
      [] port = 110            -> "POP3"
      [] port = 143            -> "IMAP"
      [] OTHER                 -> ""

(* fingerprint. An SSH greeting is kept as it came.                        *)
Fingerprint(port, speaks) ==
    IF port = 22 THEN IF speaks \in SSHServers THEN speaks ELSE ""
    ELSE IF LineLabel(port) # "" THEN IF speaks \in SpeaksFirst THEN LineLabel(port) ELSE ""
    ELSE IF StrictLabel(port) # "" /\ speaks \in Accepts(StrictLabel(port))
         THEN StrictLabel(port) ELSE ""

(* udpFingerprint.                                                         *)
UDPFingerprint(port, speaks) ==
    IF <<port, speaks>> \in {<<53, "DNS">>, <<123, "NTP">>} THEN speaks ELSE ""

-----------------------------------------------------------------------------
(* lookupARP of an entry of the neighbour cache: none, one that was never  *)
(* resolved or is all zero, or the vendor of its address.                  *)
Unresolved == {"absent", "incomplete", "zero"}

LookupARP(entry) == IF entry \in Unresolved THEN "" ELSE entry

-----------------------------------------------------------------------------
Databases == <<<<3306, "database (mysql)">>, <<5432, "database (postgres)">>,
               <<1433, "database (mssql)">>, <<27017, "database (mongodb)">>,
               <<6379, "database (redis)">>, <<11211, "database (memcached)">>>>

Web == {80, 443, 8080, 8443}
Shells == {22, 23, 3389, 445}
WindowsPorts == {445, 5985, 5986}

SSHRules(osfp) == << <<osfp = "SSH-OpenSSH", "linux-host">>,
                     <<osfp = "SSH-OpenSSH_for_Windows", "windows-host">> >>

(* The rules of classify in their order: a condition and its type.         *)
Rules(vendor, osfp, tcp, udp) ==
    LET Some(S) == tcp \cap S # {}
        Every(S) == S \subseteq tcp
    IN  << <<Some({9100, 631, 515}), "printer">>,
           <<vendor = "mikrotik" \/ Some({8728, 8729}), "router">>,
           <<vendor = "cisco" /\ Some({22, 23, 80, 443}), "router">>,
           <<vendor = "vmware" /\ Some({902, 5988, 5989}), "hypervisor">>,
           <<vendor \in {"qemu/kvm", "virtualbox", "hyper-v"} \/ Some({8006}), "hypervisor">>,
           <<Some({6443, 2379, 10250}), "kubernetes-node">>,
           <<Some({2375, 2376}), "container-host">> >>
        \o [i \in 1..Len(Databases) |-> <<Some({Databases[i][1]}), Databases[i][2]>>]
        \o << <<vendor \in {"synology", "western digital", "qnap"} \/ Every({2049, 445}), "nas">>,
              <<Every({88, 389}), "windows-dc">>,
              <<Some(WindowsPorts) /\ Some({80, 443, 25}), "windows-server">>,
              <<Some(WindowsPorts \cup {3389}), "windows-host">>,
              <<Some({25, 465, 587}) /\ Some({143, 993, 110, 995}), "mail-server">>,
              <<53 \in tcp \cup udp /\ ~Some({88, 389}), "dns-server">>,
              <<Some({1883, 8883}), "iot-broker">>,
              <<vendor \in {"raspberry pi", "espressif"}, "embedded">>,
              <<vendor \in {"hikvision", "dahua", "axis"} \/ Some({554}), "camera">> >>
        \o SSHRules(osfp)
        \o << <<Some(Web) /\ ~Some(Shells), "appliance">>,
              <<Some({22}) /\ Cardinality(tcp) <= 3, "linux-host">> >>

(* The type of the first rule whose condition holds.                       *)
FirstType(rules) ==
    LET fired == {i \in 1..Len(rules) : rules[i][1]}
        First == CHOOSE i \in fired : \A j \in fired : i <= j
    IN  IF fired = {} THEN "" ELSE rules[First][2]

(* classify.                                                               *)
DeviceType(vendor, osfp, tcp, udp) == FirstType(Rules(vendor, osfp, tcp, udp))
=============================================================================
