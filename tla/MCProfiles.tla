----------------------------- MODULE MCProfiles -----------------------------
(***************************************************************************)
(* An instance of Sweeps for TLC, with bytes of three bits so that a block *)
(* crosses the carry. Five families of startups. Scanner sections, with    *)
(* nobody at the address: every list of up to three entries, flat, of      *)
(* profiles or both; every combination of the fields of one profile and of *)
(* the global section; one bare profile of every block there is with every *)
(* limit up to 18. Files and environments, with a scanner section that     *)
(* names no subnet. And sweeps of devices under profiles with and without  *)
(* deep probing, UDP and the neighbour cache.                              *)
(***************************************************************************)
EXTENDS Sweeps

MCNames == {"", "a", "b", "not a CIDR"}
MCParseable == {"a", "b"}

Global == [interval : {3}, timeout : {2}, probe : GivenLists, deepOn : {On, Off},
           deep : GivenLists, udp : GivenLists, arpOn : {On, Off}, maxHosts : {1}]
Plain(max) == [interval |-> 3, timeout |-> 2, probe |-> Nil, deepOn |-> Off, deep |-> Nil,
               udp |-> Nil, arpOn |-> Off, maxHosts |-> max]

OneHost == [n \in MCParseable |-> [v4 |-> TRUE, base |-> IF n = "a" THEN 1 ELSE 2,
                                   hostBits |-> 0]]

Profile == [subnet : {"a"}, interval : {0, 1}, timeout : {0, 1}, probe : GivenLists, 
            deepOn : {Unset, On, Off}, deep : GivenLists, udp : GivenLists, arpOn : {Unset, On, Off}]

Texts == UNION {[1..n -> MCNames] : n \in 0..3}
ProfileLists == {[i \in 1..Len(l) |-> Bare(l[i])] : l \in Texts}

ListConfigs == [flat : Texts, profiles : ProfileLists, global : {Plain(1)}, block : {OneHost},
                devices : {{"nobody"}}, faults : {0}]

(* The durations and the switch of the neighbour cache are tried without   *)
(* lists of the profile.                                                   *)
FieldConfigs ==
    {c \in [flat : {<<>>}, profiles : {<<p>> : p \in Profile}, global : Global,
            block : {OneHost}, devices : {{"nobody"}}, faults : {0}] :
        LET p == c.profiles[1]
        IN \/ p.timeout = 0 /\ p.interval = 0 /\ c.global.arpOn = Off /\ p.arpOn = Unset
           \/ {p.udp, p.deep, p.probe} = {Nil}}

BlockConfigs == {[flat |-> <<>>, profiles |-> <<Bare("a")>>, global |-> Plain(max),
                  block |-> [OneHost EXCEPT !["a"] = b], devices |-> {"nobody"},
                  faults |-> 0] :
                    b \in Blocks, max \in 1..18}

NoFile == [state |-> "absent", private |-> FALSE, given |-> <<>>]
PlainFile == [state |-> "loaded", private |-> FALSE, given |-> <<>>]

-----------------------------------------------------------------------------
(* Every address of the two listeners with every source of their tokens;   *)
(* every URL of every kind; the fields that are words.                     *)
Given(field, texts) == {field :> text : text \in texts} \cup {<<>>}

File(private, given) == [state |-> "loaded", private |-> private, given |-> given]

ListenFiles(addr, token) ==
    {File(private, a @@ t) : private \in BOOLEAN, a \in Given(addr, Addrs),
                             t \in Given(token, {"", "t1"})}
ListenEnvs(addr, token) ==
    {a @@ t : a \in Given(addr, {"", ":port", "127.0.0.1:port"}), t \in Given(token, Tokens)}

URLs == {"", "://", "host", "http://host", "http://", "https://host", "udp://host", "udp://",
         "tcp://host", "file:///path"}

OtherFiles ==
    {File(TRUE, g) : g \in Given("peerAddr", URLs) \cup Given("webhook", URLs)
                           \cup Given("syslog", URLs) \cup Given("level", {"", "warn", "loud"})
                           \cup Given("format", {"json", "xml"})}
    \cup {File(p, "peerToken" :> t) : p \in BOOLEAN, t \in Tokens}
    \cup {[state |-> s, private |-> FALSE, given |-> <<>>] :
             s \in {"absent", "unreadable", "malformed"}}
OtherEnvs == Given("level", {"", "debug"}) \cup Given("peerToken", {"t2"})
             \cup Given("adminAddr", {":port"}) \cup Given("db", {"other.db"})

FileStartups ==
    {[file |-> fe[1], env |-> fe[2],
      section |-> [flat |-> <<>>, profiles |-> <<>>, global |-> Plain(1), block |-> OneHost,
                   devices |-> {"nobody"}, faults |-> 0]] :
        fe \in (ListenFiles("healthAddr", "healthToken") \X ListenEnvs("healthAddr", "healthToken"))
               \cup (ListenFiles("adminAddr", "adminToken") \X ListenEnvs("adminAddr", "adminToken"))
               \cup (OtherFiles \X OtherEnvs)}

-----------------------------------------------------------------------------
MCShape ==
    [nobody   |-> [tcp |-> <<>>, udp |-> <<>>, arp |-> "absent"],
     web      |-> [tcp |-> 22 :> "SSH-OpenSSH" @@ 80 :> "HTTP", udp |-> <<>>,
                   arp |-> "incomplete"],
     many     |-> [tcp |-> 22 :> "SSH-dropbear" @@ 80 :> "HTTP" @@ 443 :> "HTTPS"
                           @@ 8080 :> "HTTP",
                   udp |-> <<>>, arp |-> "zero"],
     windows  |-> [tcp |-> 80 :> "HTTP" @@ 445 :> "SMB",
                   udp |-> 53 :> "refused", arp |-> "hyper-v"],
     resolver |-> [tcp |-> 443 :> "HTTPS" @@ 25 :> "POP3", udp |-> 53 :> "DNS",
                   arp |-> "raspberry pi"],
     printer  |-> [tcp |-> 80 :> "HTTP" @@ 9100 :> "JetDirect", udp |-> 53 :> "other",
                   arp |-> "cisco"]]

MCListedPorts == [probe |-> {80, 443}, deep |-> {80, 443, 445}, udp |-> {53}]

Deep(name) == [Bare(name) EXCEPT !.deepOn = On, !.udp = Listed, !.arpOn = On]
Listed3(name) == [Deep(name) EXCEPT !.probe = Listed, !.deep = Listed, !.arpOn = Off]

(* Subnet b holds the address of a as well.                                *)
Overlap == [OneHost EXCEPT !["b"] = [v4 |-> TRUE, base |-> 0, hostBits |-> 1]]

SweepStartups ==
    {[file |-> NoFile, env |-> <<>>,
      section |-> [flat |-> <<>>, profiles |-> s[1], global |-> Plain(1), block |-> Overlap,
                   devices |-> s[2], faults |-> 2]] :
        s \in {<<<<Deep("a")>>, {"nobody", "web", "windows"}>>,
               <<<<Deep("a")>>, {"resolver", "printer"}>>,
               <<<<Deep("a")>>, {"many", "nobody"}>>,
               <<<<Bare("a")>>, {"nobody", "web"}>>,
               <<<<Listed3("a")>>, {"resolver", "windows"}>>,
               <<<<Deep("a"), Bare("b")>>, {"web"}>>}}

MCStartups ==
    SweepStartups \cup FileStartups
    \cup {[file |-> PlainFile, env |-> <<>>, section |-> c] :
             c \in ListConfigs \cup FieldConfigs \cup BlockConfigs}
=============================================================================
