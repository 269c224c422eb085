------------------------------- MODULE RingHash -------------------------------
(***************************************************************************)
(* The hash of a string of bytes (src/hash_ring/hash.rs), in full.         *)
(* A u64 is the sequence of its eight bytes, the lowest first, as in       *)
(* to_le_bytes, and a string the sequence of its UTF-8 bytes.              *)
(***************************************************************************)
EXTENDS Naturals, Sequences

Word == 1 .. 8
Written(f) == <<f[1], f[2], f[3], f[4], f[5], f[6], f[7], f[8]>>

FnvOffsetBasis == <<37, 35, 34, 132, 228, 156, 242, 203>>    \* 0xcbf29ce484222325
FnvPrime == <<179, 1, 0, 0, 0, 1, 0, 0>>                     \* 0x100000001b3
FirstFactor == <<205, 140, 85, 237, 215, 175, 81, 255>>      \* 0xff51afd7ed558ccd
SecondFactor == <<83, 236, 133, 26, 254, 185, 206, 196>>     \* 0xc4ceb9fe1a85ec53

-----------------------------------------------------------------------------
(* arithmetic on u64 *)

\* The exclusive or of two bytes, a bit of weight w at a time.
Xor(x, y) ==
  LET bit(w) == w * (((x \div w) + (y \div w)) % 2)
  IN  bit(1) + bit(2) + bit(4) + bit(8) + bit(16) + bit(32) + bit(64) + bit(128)

\* The sum of the partial products that weigh 256^(k-1).
Column(a, b, k) ==
  LET part(i) == IF i <= k THEN a[i] * b[k - i + 1] ELSE 0
  IN  part(1) + part(2) + part(3) + part(4) + part(5) + part(6) + part(7) + part(8)

\* A column with what the columns below it carry.
Totals(a, b) ==
  LET total[k \in 0 .. 8] == IF k = 0 THEN 0 ELSE (total[k - 1] \div 256) + Column(a, b, k)
  IN  total

Saturating(a, b) ==                                   \* mutant of WrappingMul
  LET total == Totals(a, b)
  IN  IF total[8] > 255 \/ \E i, j \in Word : i + j > 9 /\ a[i] * b[j] > 0
      THEN Written([k \in Word |-> 255]) ELSE Written([k \in Word |-> total[k] % 256])
WrappingMul(a, b) == Written([k \in Word |-> Totals(a, b)[k] % 256])

\* hash ^ (hash >> 33): four bytes and one bit.
Shifted32(h) == [i \in 1 .. 4 |-> h[i + 4]]           \* mutant of Shifted
Shifted(h) == [i \in 1 .. 4 |-> (h[i + 4] \div 2) + (IF i < 4 THEN 128 * (h[i + 5] % 2) ELSE 0)]
XorShift(h) == Written([i \in Word |-> IF i <= 4 THEN Xor(h[i], Shifted(h)[i]) ELSE h[i]])

\* The hash after each byte.
Fnv(bytes) ==
  LET fnv[n \in 0 .. Len(bytes)] ==
        IF n = 0 THEN FnvOffsetBasis
        ELSE WrappingMul([fnv[n - 1] EXCEPT ![1] = Xor(@, bytes[n])], FnvPrime)
  IN  fnv
StableHash(bytes) ==
  LET mixed == XorShift(Fnv(bytes)[Len(bytes)])
  IN  XorShift(WrappingMul(XorShift(WrappingMul(mixed, FirstFactor)), SecondFactor))
=============================================================================
