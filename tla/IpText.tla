------------------------------- MODULE IpText -------------------------------
(****************************************************************************)
(* The texts that name addresses: the parser of ips_parser.cpp and the line *)
(* that leeloo-aggregate prints for an interval (tools/aggregate.cpp).      *)
(*                                                                          *)
(* An address has four bytes of Radix values, numbers of three digits at    *)
(* most.                                                                    *)
(****************************************************************************)
EXTENDS Intervals, Tokens, SequencesExt

CONSTANTS
    Bits,       \* the bits of a byte, 8 in the code
    PortRadix   \* the values of a port number, 65536 in the code

Radix == 2 ^ Bits

\* What a byte counts that has k bytes below it.
Weight(k) == 2 ^ (k * Bits)

ASSUME TextAssumption ==
    /\ Bits \in Nat \ {0} /\ Radix <= 1000
    /\ Word = Weight(4)
    /\ PortRadix \in Nat \ {0, 1} /\ Word % PortRadix = 0

IsByte(n) == n \in 0 .. Radix - 1

\* The address of four bytes.
Address(b3, b2, b1, b0) == b3 * Weight(3) + b2 * Weight(2) + b1 * Weight(1) + b0

------------------------------------------------------------------------------
(* ipv4toi() *)

\* At least min_dots + 1 bytes, the first one is the highest.
Ipv4ToI(s, min_dots) ==
    LET f == Fields(s)
        byte(k) == IF k <= Len(f) THEN Atoi3(f[k]) ELSE 0
    IN  IF s # <<>> /\ Len(f) \in min_dots + 1 .. 4 /\ \A k \in DOMAIN f : IsByte(byte(k))
          THEN Address(byte(1), byte(2), byte(3), byte(4))
          ELSE Invalid

------------------------------------------------------------------------------
(* __parse_ips(): what the parser hands to the list, as closed ranges. *)

Reads(ranges) == [outcome |-> "read", ranges |-> ranges]
Refused == [outcome |-> "refused", ranges |-> {}]

\* The code reads outside of the text, or shifts by more than a word has bits.
Undefined == [outcome |-> "undefined", ranges |-> {}]

\* 10.4.9.0
ParsedAddress(s) ==
    LET ip == Ipv4ToI(s, 3)
    IN  IF ip = Invalid THEN Refused ELSE Reads({<<ip, ip>>})

\* 10.0.1.4-10.2.4.10, in either order, or 10.4.5.8-20, which replaces the last byte.
ParsedSpan(s) ==
    LET sep == CHOOSE k \in Places(s, Dash) : TRUE
        a == Ipv4ToI(Before(s, sep), 3)
        whole == Ipv4ToI(After(s, sep), 3)
        last == Atoi3(After(s, sep))
        b == IF whole # Invalid THEN whole
             ELSE IF IsByte(last) THEN a - (a % Radix) + last
             ELSE Invalid
    IN  IF a = Invalid \/ b = Invalid THEN Refused
        ELSE Reads({<<Least(a, b), Greatest(a, b)>>})

\* 10.0.1.0/24 and 10/8, by cidr2mask() and insert_cidr().  strtol() reads no
\* number as 0, the prefix of all addresses.
ParsedPrefix(s) ==
    LET slash == CHOOSE k \in Places(s, Slash) : TRUE
        ip == Ipv4ToI(Before(s, slash), 0)
        tail == After(s, slash)
        cidr == IF tail # <<>> /\ tail[1] >= 0 THEN tail[1] ELSE 0
        block == 2 ^ (4 * Bits - cidr)
    IN  IF ip = Invalid THEN Refused
        ELSE IF cidr > 4 * Bits THEN Undefined
        ELSE Reads({<<ip - (ip % block), ip - (ip % block) + block - 1>>})

\* byte_interval: the bytes of one block, in either order.  What atoi3() accepts
\* is cut to a byte.
ByteInterval(f) ==
    LET dashes == Places(f, Dash)
        sep == CHOOSE k \in dashes : \A j \in dashes : k <= j
        a == IF dashes = {} THEN Atoi3(f) ELSE Atoi3(Before(f, sep))
        b == IF dashes = {} THEN a ELSE Atoi3(After(f, sep))
    IN  IF a = Invalid \/ b = Invalid THEN {}
        ELSE Least(a % Radix, b % Radix) .. Greatest(a % Radix, b % Radix)

\* 10.4-5.8-11.0-255.  The length of a last block without a dash is computed from
\* the null pointer of the search for one more dot.
ParsedBlocks(s) ==
    LET f == Fields(s)
        bytes(k) == ByteInterval(f[k])
    IN  IF Len(f) # 4 \/ (\E k \in 1 .. 3 : bytes(k) = {}) THEN Refused
        ELSE IF Places(f[4], Dash) = {} THEN Undefined
        ELSE IF bytes(4) = {} THEN Refused
        ELSE Reads({<<Address(x, y, z, Min(bytes(4))), Address(x, y, z, Max(bytes(4)))>> :
                      x \in bytes(1), y \in bytes(2), z \in bytes(3)})

\* The syntax is chosen by the number of dashes and slashes.
Parsed(s) ==
    LET dashes == Cardinality(Places(s, Dash))
        slashes == Cardinality(Places(s, Slash))
    IN  IF dashes = 0 /\ slashes = 0 THEN ParsedAddress(s)
        ELSE IF dashes = 1 /\ slashes = 0 THEN ParsedSpan(s)
        ELSE IF dashes = 1 \/ slashes > 1 THEN Refused
        ELSE IF dashes = 0 THEN ParsedPrefix(s)
        ELSE ParsedBlocks(s)

------------------------------------------------------------------------------
(* ip_list_intervals: from closed ranges to the half-open intervals of the list. *)

\* A slip: the upper bound is incremented past the last address.
HalfOpenWraps(r) == Itv(r[1], (r[2] + 1) % Word)

\* add(a, b) and remove(a, b): the last address is not incremented, and so it is
\* never held.  A range of this one address becomes an interval without values.
HalfOpen(r) == Itv(r[1], IF r[2] = Word - 1 THEN r[2] ELSE r[2] + 1)

\* The intervals of a set of closed ranges, in the order the parser makes them.
Intervals(ranges) ==
    LET sorted == Ordered(ranges, [r \in ranges |-> r[1]])
    IN  [k \in 1 .. Len(sorted) |-> HalfOpen(sorted[k])]

------------------------------------------------------------------------------
(* port: the protocol is the high half of the integer. *)

Port(value, protocol) == value + protocol * PortRadix

------------------------------------------------------------------------------
(* leeloo-aggregate: the line printed for an interval. *)

Byte(v, k) == (v \div Weight(k)) % Radix

\* ip2str()
Dotted(a) == <<Byte(a, 3), Dot, Byte(a, 2), Dot, Byte(a, 1), Dot, Byte(a, 0)>>

\* A slip: the number of trailing zeros is taken for the prefix.
DisplayedZeros(i) ==
    IF \E p \in 0 .. 4 * Bits - 1 : Width(i) = 2 ^ p
      THEN Dotted(i.lower) \o <<Slash, CHOOSE p \in 0 .. 4 * Bits - 1 : Width(i) = 2 ^ p>>
      ELSE Dotted(i.lower) \o <<Dash>> \o Dotted(i.upper)

\* display(): a width that is a power of two is a prefix.
Displayed(i) ==
    IF \E p \in 0 .. 4 * Bits - 1 : Width(i) = 2 ^ p
      THEN Dotted(i.lower) \o <<Slash, CHOOSE p \in 1 .. 4 * Bits : Width(i) * 2 ^ p = Word>>
      ELSE Dotted(i.lower) \o <<Dash>> \o Dotted(i.upper)

------------------------------------------------------------------------------
(* The syntaxes of the tools' usage texts and of tests/ips_parser.cpp, with the *)
(* addresses they stand for.                                                    *)

Written(text, means) == [text |-> text, means |-> means]

\* 192.168.0.1
SingleAddress(a) == Written(Dotted(a), {a})

\* 192.168.4.0/24, and 10/8 with the first n bytes of the address only.
Cidr(a, n, p) ==
    LET shown == a - (a % Weight(4 - n))
        block == 2 ^ (4 * Bits - p)
    IN  Written(SubSeq(Dotted(a), 1, 2 * n - 1) \o <<Slash, p>>,
                {v \in Value : v \div block = shown \div block})

\* 192.168.4.0-192.168.6.0
Span(a, b) == Written(Dotted(a) \o <<Dash>> \o Dotted(b), Least(a, b) .. Greatest(a, b))

\* 10.4.5.8-20
LastByteSpan(a, n) ==
    LET b == a - Byte(a, 0) + n
    IN  Written(Dotted(a) \o <<Dash, n>>, Least(a, b) .. Greatest(a, b))

\* A block text has a dash in two of its parts or more.
AreParts(parts) ==
    /\ parts \in [1 .. 4 -> Seq(0 .. Radix - 1)] /\ \A k \in 1 .. 4 : Len(parts[k]) \in {1, 2}
    /\ \E j, k \in 1 .. 4 : j # k /\ Len(parts[j]) = 2 /\ Len(parts[k]) = 2

\* 192.168-170.4-8.0: each part is one byte, or two bytes and a dash.
Blocks(parts) ==
    LET holds(k, v) == \E x, y \in Range(parts[k]) : x <= Byte(v, 4 - k) /\ Byte(v, 4 - k) <= y
        part(k) == IF Len(parts[k]) = 1 THEN parts[k] ELSE <<parts[k][1], Dash, parts[k][2]>>
    IN  Written(part(1) \o <<Dot>> \o part(2) \o <<Dot>> \o part(3) \o <<Dot>> \o part(4),
                {v \in Value : \A k \in 1 .. 4 : holds(k, v)})

\* The other texts, of the kinds that tests/ips_parser.cpp has: bytes that are missing,
\* empty or too high, signs that are too many, and letters.
IsBytes(s, n) == Numbered(s, n) /\ \A k \in 1 .. n : IsByte(s[2 * k - 1])
IsNumber(n) == n \in 0 .. 999
NamesBytes(f) ==
    \/ Len(f) = 1 /\ IsNumber(f[1])
    \/ Len(f) = 3 /\ IsNumber(f[1]) /\ f[2] = Dash /\ IsNumber(f[3])

NamesNothing(s) ==
    LET dashes == Places(s, Dash)
        slashes == Places(s, Slash)
        f == Fields(s)
    IN  \/ dashes = {} /\ slashes = {} /\ ~IsBytes(s, 4)
        \/ /\ Cardinality(dashes) = 1 /\ slashes = {}
           /\ \A k \in dashes : \/ ~IsBytes(Before(s, k), 4)
                                \/ \A n \in {1, 4} : ~IsBytes(After(s, k), n)
        \/ /\ dashes = {} /\ Cardinality(slashes) = 1
           /\ \A k \in slashes, n \in 1 .. 4 : ~IsBytes(Before(s, k), n)
        \/ Cardinality(dashes) = 1 /\ slashes # {}
        \/ Cardinality(slashes) > 1
        \/ /\ Cardinality(dashes) > 1
           /\ \/ Len(f) # 4
              \/ \E k \in 1 .. 3 : ~NamesBytes(f[k])
              \/ Places(f[4], Dash) # {} /\ ~NamesBytes(f[4])
==============================================================================
