------------------------------ MODULE Address ------------------------------
(***************************************************************************)
(* Which addresses the sandbox may not reach (private-address.ts).  An     *)
(* IPv4 address is the sequence of its four octets, an IPv6 address that   *)
(* of its eight words; a name is any other value.  Parsing and the         *)
(* canonical spelling of an address are the URL parser's.                  *)
(***************************************************************************)
EXTENDS Integers, Sequences

Octet == 0 .. 255
LastWord == 65535
Word == 0 .. LastWord
IPv4 == [1 .. 4 -> Octet]
IPv6 == [1 .. 8 -> Word]

ipv4Private(a, b) ==
  \/ a \in {0, 10, 127}
  \/ a = 100 /\ b >= 64 /\ b <= 127
  \/ a = 172 /\ b >= 16 /\ b <= 31
  \/ a = 192 /\ b = 168
  \/ a = 169 /\ b = 254
  \/ a >= 224

(* n & 0xfe00 and the like: the mask clears the bits below size.           *)
Masked(n, size) == (n \div size) * size

Zeros(w, n) == \A i \in 1 .. n : w[i] = 0

(* Mutant: an IPv4 address in an IPv6 one is not looked at.                *)
ipv6PrivateUnwrapped(w) ==
  \/ Zeros(w, 6)
  \/ Masked(w[1], 512) = 64512 \/ Masked(w[1], 64) \in {65152, 65216}
  \/ Masked(w[1], 256) = 65280

(* ::ffff:a.b.c.d is judged as a.b.c.d, ::/96 is refused; then fc00::/7,   *)
(* fe80::/10, fec0::/10 and ff00::/8.                                      *)
ipv6Private(w) ==
  IF Zeros(w, 5) /\ w[6] = 65535
  THEN ipv4Private(w[7] \div 256, w[7] % 256)
  ELSE \/ Zeros(w, 6)
       \/ Masked(w[1], 512) = 64512
       \/ Masked(w[1], 64) = 65152
       \/ Masked(w[1], 64) = 65216
       \/ Masked(w[1], 256) = 65280

(* Whatever is no address is refused.                                      *)
isPrivateIp(ip) ==
  CASE Len(ip) = 4 -> ipv4Private(ip[1], ip[2])
    [] Len(ip) = 8 -> ipv6Private(ip)
    [] OTHER       -> TRUE

-----------------------------------------------------------------------------
(* The ranges that private-address.ts lists (:5-10, :30-36), and no other  *)
(* reserved ones, as intervals of sixteen bits of an address.              *)
Blocks4 == {<<0, 255>>, <<2560, 2815>>, <<32512, 32767>>, <<25664, 25727>>,
            <<44048, 44063>>, <<49320, 49320>>, <<43518, 43518>>, <<57344, 65535>>}
Blocks6 == {<<64512, 65023>>, <<65152, 65215>>, <<65216, 65279>>, <<65280, 65535>>}
InBlock(n, blocks) == \E r \in blocks : r[1] <= n /\ n <= r[2]

Private4(ip) == InBlock(ip[1] * 256 + ip[2], Blocks4)
Private6(w) ==
  \/ Zeros(w, 6)
  \/ Zeros(w, 5) /\ w[6] = 65535 /\ InBlock(w[7], Blocks4)
  \/ InBlock(w[1], Blocks6)
=============================================================================
