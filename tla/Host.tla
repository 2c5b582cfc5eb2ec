--------------------------------- MODULE Host ---------------------------------
(***************************************************************************)
(* is_internal_host() of util.c: may a url name this host?  A host is what *)
(* inet_pton() makes of it: an IPv4 address (four octets), an IPv6 address *)
(* (eight groups), or neither (a name, its characters in lower case).      *)
(* Brackets around an IPv6 address are gone before it looks.               *)
(***************************************************************************)
EXTENDS Integers, Sequences, Functions

CONSTANT Hosts            \* hosts a url may name, by kind

(* What an IPv4 address and an IPv6 address are made of. *)
Octet == 0..255
Group == 0..65535

(* What the constants have to satisfy. *)
HostConstants ==
    /\ DOMAIN Hosts = {"v4", "v6", "name"}
    /\ Hosts.v4 \subseteq [1..4 -> Octet]
    /\ Hosts.v6 \subseteq [1..8 -> Group]
    /\ Hosts.name \subseteq Seq(STRING)

VARIABLES host_pc,        \* "idle" or "judged"
          host,           \* the argument
          internal        \* the result

hostVars == <<host_pc, host, internal>>

NoHost == [kind |-> "name", is |-> <<>>]

HostTypeOK ==
    /\ host_pc \in {"idle", "judged"}
    /\ host.kind \in {"v4", "v6", "name"}
    /\ internal \in BOOLEAN

Init == host_pc = "idle" /\ host = NoHost /\ internal = FALSE

(* The 32 bits in two halves.  A mask is ones, then zeros. *)
And(half, mask) == half - (half % (65536 - mask))

(* Mask and value of each range, as the code compares them. *)
SharedSpaceWider == {<<65280, 0, 25600, 0>>}      \* 100.0.0.0/8
SharedSpace == {<<65472, 0, 25664, 0>>}                 \* 100.64.0.0/10
Ranges == {
    <<65280,     0,     0,     0>>,
    <<65280,     0,  2560,     0>>,
    <<65280,     0, 32512,     0>>,
    <<65535,     0, 43518,     0>>,
    <<65520,     0, 44048,     0>>,
    <<65535, 65280, 49152,     0>>,
    <<65535, 65280, 49152,   512>>,
    <<65535, 65280, 49240, 25344>>,
    <<65535,     0, 49320,     0>>,
    <<65534,     0, 50706,     0>>,
    <<65535, 65280, 50739, 25600>>,
    <<65535, 65280, 51968, 28928>>,
    <<61440,     0, 57344,     0>>,
    <<61440,     0, 61440,     0>>} \cup SharedSpace

InternalV4(o) ==
    \E r \in Ranges : /\ And(256 * o[1] + o[2], r[1]) = r[3]
                      /\ And(256 * o[3] + o[4], r[2]) = r[4]

(* The address in the last two groups, where the first six say it is one: *)
(* IN6_IS_ADDR_V4MAPPED, IN6_IS_ADDR_V4COMPAT.                              *)
EmbedsV4(g) ==
    /\ \A k \in 1..5 : g[k] = 0
    /\ g[6] = 65535 \/ (g[6] = 0 /\ (g[7] > 0 \/ g[8] > 1))
Embedded(g) == <<g[7] \div 256, g[7] % 256, g[8] \div 256, g[8] % 256>>

InternalV6(g) ==
    \/ \A k \in 1..7 : g[k] = 0 /\ g[8] \in {0, 1}      \* :: and ::1
    \/ And(g[1], 65472) = 65152                         \* fe80::/10
    \/ And(g[1], 65280) = 65280                         \* ff00::/8
    \/ And(g[1], 65024) = 64512                         \* fc00::/7
    \/ EmbedsV4(g) /\ InternalV4(Embedded(g))

Digit == {"0", "1", "9"}
HexDigit == Digit \cup {"a", "f"}
LooksNumeric(s) ==                                \* host_looks_like_ip_obfuscation()
    IF Len(s) > 2 /\ s[1] = "0" /\ s[2] = "x"
    THEN \A p \in 3..Len(s) : s[p] \in HexDigit
    ELSE /\ \A p \in DOMAIN s : s[p] \in Digit \cup {"."}
         /\ \E p \in DOMAIN s : s[p] \in Digit

Known == {<<"localhost">>, <<"metadata.google.internal">>}

is_internal_host(h) ==
    CASE h.kind = "v4" -> InternalV4(h.is)
      [] h.kind = "v6" -> InternalV6(h.is)
      [] h.kind = "name" ->
            \/ h.is \in Known
            \/ LooksNumeric(h.is)

Judge ==
    /\ host_pc = "idle"
    /\ host_pc' = "judged"
    /\ \E kind \in DOMAIN Hosts : \E h \in Hosts[kind] :
        host' = [kind |-> kind, is |-> h]
    /\ internal' = is_internal_host(host')

Forget ==
    /\ host_pc = "judged"
    /\ host_pc' = "idle" /\ host' = NoHost /\ internal' = FALSE

Next == Judge \/ Forget

Spec == Init /\ [][Next]_hostVars
-----------------------------------------------------------------------------
(* The ranges the comments on the masks name. *)
Reserved == {
    <<<<0, 0, 0, 0>>, 8>>,      <<<<10, 0, 0, 0>>, 8>>,
    <<<<100, 64, 0, 0>>, 10>>,  <<<<127, 0, 0, 0>>, 8>>,
    <<<<169, 254, 0, 0>>, 16>>, <<<<172, 16, 0, 0>>, 12>>,
    <<<<192, 0, 0, 0>>, 24>>,   <<<<192, 0, 2, 0>>, 24>>,
    <<<<192, 88, 99, 0>>, 24>>, <<<<192, 168, 0, 0>>, 16>>,
    <<<<198, 18, 0, 0>>, 15>>,  <<<<198, 51, 100, 0>>, 24>>,
    <<<<203, 0, 113, 0>>, 24>>, <<<<224, 0, 0, 0>>, 4>>,
    <<<<240, 0, 0, 0>>, 4>>}

(* The first bits of an address, octet by octet. *)
InCidr(o, base, bits) == \A k \in 1..4 :
    LET n == bits - 8 * (k - 1)
        size == IF n >= 8 THEN 1 ELSE IF n <= 0 THEN 256
                ELSE <<128, 64, 32, 16, 8, 4, 2>>[n]
    IN  o[k] \div size = base[k] \div size
IsReserved(o) == \E r \in Reserved : InCidr(o, r[1], r[2])

(* First groups of fc00::/7, fe80::/10 and ff00::/8. *)
ReservedGroups == 64512..65023 \cup 65152..65215 \cup 65280..65535

(* The first six groups are those of an address that contains an IPv4 one; *)
(* :: and ::1 look like one, too (of 0.0.0.0/8).                           *)
Announces(g) == (\A k \in 1..5 : g[k] = 0) /\ g[6] \in {0, 65535}

Hexadecimal(s) == Len(s) > 2 /\ s[1] = "0" /\ s[2] = "x"

(* An IPv4 address is internal just when it is in one of the ranges named,  *)
(* and an IPv6 address when it is in one of its own or contains an IPv4     *)
(* address that is.  A name with a letter in it is a DNS name, apart from   *)
(* the two that are known and from a hexadecimal number; a number without   *)
(* one is never public ("looks like an IP address encoded to dodge a        *)
(* literal check", says the comment of host_looks_like_ip_obfuscation).     *)
HostsJudged ==
    host_pc = "judged" =>
        /\ host.kind = "v4" => internal = IsReserved(host.is)
        /\ host.kind = "v6" =>
            internal = \/ host.is[1] \in ReservedGroups
                       \/ Announces(host.is) /\ IsReserved(Embedded(host.is))
        /\ host.kind = "name" /\ host.is # <<>> =>
            /\ Range(host.is) \subseteq Digit => internal
            /\ internal => \/ Range(host.is) \subseteq Digit \cup {"."}
                           \/ Hexadecimal(host.is)
                           \/ host.is \in Known
===============================================================================
