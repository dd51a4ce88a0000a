------------------------------- MODULE KeyText -------------------------------
(***************************************************************************)
(* The two conversions of a public key: decode_key, from the hexadecimal   *)
(* text of the configuration (apps/linux-client/src/lib.rs), and           *)
(* encode_key, to the base64 that wg takes (core/transport/src/linux.rs).  *)
(* Text is a sequence of UTF-8 bytes, each [kind, digit]: a hexadecimal    *)
(* digit, a plus sign, another ASCII character, or the lead or the tail    *)
(* byte of a two-byte character.                                           *)
(***************************************************************************)
EXTENDS Naturals, Sequences, FiniteSetsExt, Powers

CONSTANT KeyLength   \* 32

ASSUME KeyAssumption == KeyLength \in Nat

Digit(d) == [kind |-> "digit", digit |-> d]
Other(kind) == [kind |-> kind, digit |-> 0]

TextByte == {Digit(d) : d \in 0 .. 15} \cup {Other(k) : k \in {"plus", "ascii", "lead", "tail"}}

PairValue(high, low) == 16 * high.digit + low.digit

(* u8::from_str_radix on two bytes: a slice that cuts a character panics,  *)
(* and a leading plus sign is accepted.                                    *)
PairStatus(high, low) ==
  IF high.kind = "tail" \/ low.kind = "lead" THEN "panic"
  ELSE IF high.kind \in {"digit", "plus"} /\ low.kind = "digit" THEN "ok"
  ELSE "err"

(* decode_key: the first pair that does not convert decides.               *)
DecodeStatus(text) ==
  IF Len(text) # 2 * KeyLength THEN "err"
  ELSE LET bad == {n \in 1 .. KeyLength : PairStatus(text[2 * n - 1], text[2 * n]) # "ok"}
       IN IF bad = {} THEN "ok"
          ELSE LET n == Min(bad) IN PairStatus(text[2 * n - 1], text[2 * n])

DecodedKey(text) == [n \in 1 .. KeyLength |-> PairValue(text[2 * n - 1], text[2 * n])]

Padding == 64

(* Mutant: the low bits of the second byte are dropped.                    *)
SextetsTruncated(key, c) ==
  LET present(n) == 3 * c - 3 + n =< Len(key)
      byte(n) == IF present(n) THEN key[3 * c - 3 + n] ELSE 0
  IN << byte(1) \div 4,
        (byte(1) % 4) * 16 + byte(2) \div 16,
        IF present(2) THEN byte(3) \div 64 ELSE Padding,
        IF present(3) THEN byte(3) % 64 ELSE Padding >>

(* Chunk c of up to three bytes of the key, as indices into ALPHABET.      *)
Sextets(key, c) ==
  LET present(n) == 3 * c - 3 + n =< Len(key)
      byte(n) == IF present(n) THEN key[3 * c - 3 + n] ELSE 0
  IN << byte(1) \div 4,
        (byte(1) % 4) * 16 + byte(2) \div 16,
        IF present(2) THEN (byte(2) % 16) * 4 + byte(3) \div 64 ELSE Padding,
        IF present(3) THEN byte(3) % 64 ELSE Padding >>

EncodeKey(key) ==
  [k \in 1 .. 4 * ((Len(key) + 2) \div 3) |->
     Sextets(key, (k - 1) \div 4 + 1)[((k - 1) % 4) + 1]]

-----------------------------------------------------------------------------
WellFormed(text) ==
  Len(text) = 2 * KeyLength /\ \A n \in DOMAIN text : text[n].kind = "digit"

(* Bit i of a sequence of numbers of a width, the most significant first.  *)
Bit(numbers, width, i) ==
  (numbers[(i - 1) \div width + 1] \div Pow2[width - 1 - ((i - 1) % width)]) % 2

(* Bit i of the key that a text writes.                                    *)
WrittenBit(text, i) == Bit([n \in DOMAIN text |-> text[n].digit], 4, i)
=============================================================================
