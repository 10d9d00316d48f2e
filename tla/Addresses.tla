------------------------------ MODULE Addresses ------------------------------
(***************************************************************************)
(* How Scan turns a subnet into the list of addresses it probes: the size  *)
(* checks before anything is allocated, and the loop of usableIPs, which   *)
(* counts an address up byte by byte until it leaves the subnet, and drops *)
(* the network and broadcast address of an IPv4 subnet. The addresses of   *)
(* the model have two bytes of a few bits each. Module Profiles starts it. *)
(***************************************************************************)
EXTENDS Integers, Sequences

CONSTANTS
    Byte,            \* values a byte has
    Bits,            \* bits of an address: Byte * Byte = 1 << Bits
    HostBitsLimit    \* 31 in the code: more host bits are refused unseen

(* 1 << n, the addresses of a block of n host bits.                        *)
Size[n \in Nat] == IF n = 0 THEN 1 ELSE 2 * Size[n - 1]

ASSUME BitsAssumption ==
    /\ Byte \in Nat \ {0} /\ Bits \in Nat
    /\ Byte * Byte = Size[Bits] /\ HostBitsLimit \in 1..Bits

VARIABLES
    walk,      \* "idle", "size", "loop", "trim", "probe", "refused"
    subnet,    \* [v4, base, hostBits]: the subnet being scanned
    limit,     \* maxHosts of the scanner
    ip,        \* the loop's address, <<high byte, low byte>>
    ips        \* the addresses so far, as numbers

walkVars == <<walk, subnet, limit, ip, ips>>

(* ParseCIDR has masked the address: base is the first of the block.       *)
Blocks == {s \in [v4 : BOOLEAN, base : 0..(Size[Bits] - 1), hostBits : 0..Bits] :
              s.base % Size[s.hostBits] = 0}

Number(a) == a[1] * Byte + a[2]
Bytes(n) == <<n \div Byte, n % Byte>>

SubnetContains(a) == Number(a) \div Size[subnet.hostBits] = subnet.base \div Size[subnet.hostBits]

NoSubnet == [v4 |-> FALSE, base |-> 0, hostBits |-> 0]

WalkInit == walk = "idle" /\ subnet = NoSubnet /\ limit = 1 /\ ip = <<0, 0>> /\ ips = <<>>

Walking == walk \in {"size", "loop", "trim", "probe"}

StartWalk(s, max) ==
    /\ ~Walking
    /\ walk' = "size" /\ subnet' = s /\ limit' = max /\ ip' = <<0, 0>> /\ ips' = <<>>

Oversized ==
    \/ subnet.hostBits >= HostBitsLimit
    \/ Size[subnet.hostBits] > limit

CheckSize ==
    /\ walk = "size"
    /\ IF Oversized THEN walk' = "refused" /\ UNCHANGED ip
       ELSE walk' = "loop" /\ ip' = Bytes(subnet.base)
    /\ UNCHANGED <<subnet, limit, ips>>

(* incrementIP: the last byte, and the one before it when that wraps.      *)
IncrementIP(a) ==
    IF a[2] + 1 < Byte THEN <<a[1], a[2] + 1>> ELSE <<(a[1] + 1) % Byte, 0>>

Collect ==
    /\ walk = "loop"
    /\ IF SubnetContains(ip)
       THEN ips' = Append(ips, Number(ip)) /\ ip' = IncrementIP(ip) /\ UNCHANGED walk
       ELSE walk' = "trim" /\ UNCHANGED <<ip, ips>>
    /\ UNCHANGED <<subnet, limit>>

SkipEndsAlways == TRUE           \* mutant: /31 and /32 lose their addresses

SkipEnds == subnet.v4 /\ subnet.hostBits >= 2

(* skipEnds, and Scan's second check.                                      *)
Trim ==
    /\ walk = "trim"
    /\ ips' = IF SkipEnds /\ Len(ips) >= 2 THEN SubSeq(ips, 2, Len(ips) - 1) ELSE ips
    /\ walk' = IF Len(ips') > limit THEN "refused" ELSE "probe"
    /\ UNCHANGED <<subnet, limit, ip>>

WalkStep == CheckSize \/ Collect \/ Trim

(* Every address has been probed.                                          *)
EndWalk == walk = "probe" /\ walk' = "idle" /\ UNCHANGED <<subnet, limit, ip, ips>>

-----------------------------------------------------------------------------
WalkTypeOK ==
    /\ walk \in {"idle", "size", "loop", "trim", "probe", "refused"}
    /\ subnet \in Blocks /\ limit \in Nat \ {0}
    /\ ip \in (0..(Byte - 1)) \X (0..(Byte - 1))
    /\ ips \in Seq(0..(Size[Bits] - 1))
    /\ walk = "refused" => ips = <<>>

(* The hosts of a subnet: all of its addresses, without the ends of an     *)
(* IPv4 subnet that has a network and a broadcast address.                 *)
Hosts(s) ==
    IF s.v4 /\ s.hostBits >= 2
    THEN (s.base + 1)..(s.base + Size[s.hostBits] - 2)
    ELSE s.base..(s.base + Size[s.hostBits] - 1)

(* A subnet that is scanned has each of its hosts probed once, in order,   *)
(* also across the carry of a byte, and nothing else.                      *)
EveryHostOnce ==
    walk = "probe" =>
       /\ \A i \in 1..Len(ips), j \in 1..Len(ips) : i < j => ips[i] < ips[j]
       /\ {ips[i] : i \in 1..Len(ips)} = Hosts(subnet)

=============================================================================
