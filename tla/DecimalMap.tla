----------------------------- MODULE DecimalMap -----------------------------
(***************************************************************************)
(* DecimalMap (src/pkg/scheduler/manager/decimalmap.go): a set of orins as *)
(* a number of zeros and ones, the way a node reports a board as the value *)
(* of an extended resource.  The device plugin builds the number           *)
(* (orin.go:208), the scheduler parses it (cache.go:345).                  *)
(*                                                                         *)
(* Integers have Bits bits, 64 in the code: the powers of ten up to        *)
(* 10^(Places - 1) fit, 10^18 in the code, and so does the sum of all of   *)
(* them.  math.Pow10 returns a float; what the conversion of a float that  *)
(* does not fit gives is left to the platform (Beyond): the smallest       *)
(* integer on amd64, the greatest on arm64, the platforms of the Makefile. *)
(***************************************************************************)
EXTENDS Integers, FiniteSets, FiniteSetsExt

CONSTANTS Bits,       \* width of an int64
          Places,     \* decimal digits of which every combination fits
          Beyond,     \* what the conversion of a greater float may give
          StartBit    \* DefaultOrinStartBit, 1 in the code

ASSUME BitsAssumption ==
  /\ Bits \in Nat \ {0, 1} /\ Places \in Nat \ {0}
  /\ 2 * 10^(Places - 1) < 2^(Bits - 1) /\ 2^(Bits - 1) <= 10^Places
ASSUME StartBitAssumption == StartBit \in Nat

\* Two's complement: the sum of the loop wraps round.
Wrap(x) == ((x + 2^(Bits - 1)) % 2^Bits) - 2^(Bits - 1)

\* Mutant: the position is not shifted by the first orin's.
Pow10Unshifted(k, beyond) == IF k + StartBit < Places THEN 10^(k + StartBit) ELSE beyond

\* int64(math.Pow10(k)): 0 for a fraction.
Pow10(k, beyond) ==
  CASE k < 0 -> 0
    [] k \in 0..(Places - 1) -> 10^k
    [] k >= Places -> beyond

BuildDecimalMap(set, beyond) ==
  FoldSet(LAMBDA n, res : Wrap(res + Pow10(n - StartBit, beyond)), 0, set)

Digit(src, i) == (src \div 10^i) % 10

\* Mutant: every digit but 0 counts.
ParsesUnsigned(src) == src >= 0

\* FormatInt gives digits, and a sign that is no digit of the map.
Parses(src) == src >= 0 /\ \A i \in 0..(Places - 1) : Digit(src, i) \in {0, 1}

Parse(src) == {i + StartBit : i \in {j \in 0..(Places - 1) : Digit(src, j) # 0}}
=============================================================================
