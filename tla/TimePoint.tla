------------------------------ MODULE TimePoint ------------------------------
(***************************************************************************)
(* TimePoint (time.ts): a time in femtoseconds, as the status bar shows    *)
(* it, as the user types it and as the protocol carries it.                *)
(*                                                                         *)
(* A text is a sequence of decimal digits and group separators.  The code  *)
(* has Digits = 3 and six units; the model is the same for fewer, so that  *)
(* a time with several of each is within reach.                            *)
(***************************************************************************)
EXTENDS Integers, Sequences, SequencesExt

CONSTANTS
    Digits,  \* decimal digits of a group; units differ by that power of 10
    Units    \* number of units, from femtoseconds to seconds

ASSUME TimePointAssumption ==
    /\ Digits \in Nat \ {0}
    /\ Units \in Nat \ {0, 1}

Comma == -1
SyntaxError == -1

(* base^n, as the recursive function that proofs unfold.                   *)
Power(base, n) ==
    LET power[i \in Nat] == IF i = 0 THEN 1 ELSE base * power[i - 1]
    IN  power[n]

Group == Power(10, Digits)
Scale(unit) == Power(Group, unit - 1)  \* femtoseconds in a unit
RESOLUTION == Scale(Units)

Secs(t) == t \div RESOLUTION
Femtos(t) == t % RESOLUTION

(* The least k, at least 1, for which k digits of the base are enough.     *)
DigitCount(num, base) ==
    CHOOSE k \in 1..(num + 1) : num < Power(base, k) /\ (k = 1 \/ num >= Power(base, k - 1))

(* `${num}'.padStart(width, '0')                                           *)
Decimal(num, width) ==
    LET len == DigitCount(num, 10)
        k == IF len > width THEN len ELSE width
    IN  [i \in 1..k |-> (num \div Power(10, k - i)) % 10]

(* BigInt(text)                                                            *)
Number(text) ==
    LET value[i \in 0..Len(text)] == IF i = 0 THEN 0 ELSE 10 * value[i - 1] + text[i]
    IN  value[Len(text)]

(* Mutant: the lower groups are not padded.                                *)
GroupDecimalsUnpadded(num) ==
    LET k == DigitCount(num, Group)
        group(i) == (num \div Power(Group, k - i)) % Group
    IN  FlattenSeq([i \in 1..k |->
            IF i = 1 THEN Decimal(group(i), 1) ELSE <<Comma>> \o Decimal(group(i), 1)])

GroupDecimals(num) ==
    LET k == DigitCount(num, Group)
        group(i) == (num \div Power(Group, k - i)) % Group
    IN  FlattenSeq([i \in 1..k |->
            IF i = 1 THEN Decimal(group(i), 1) ELSE <<Comma>> \o Decimal(group(i), Digits)])

(* The largest unit the time is a multiple of.                             *)
toString(t) ==
    LET unit == CHOOSE u \in 1..Units :
                    /\ t % Scale(u) = 0
                    /\ \A larger \in (u + 1)..Units : t % Scale(larger) # 0
    IN  [mantissa |-> GroupDecimals(t \div Scale(unit)), unit |-> unit]

(* The elements of a sequence that are in S, in order.                     *)
Filter(s, S) ==
    LET kept[i \in 0..Len(s)] ==
            IF i = 0 THEN <<>>
            ELSE IF s[i] \in S THEN Append(kept[i - 1], s[i])
            ELSE kept[i - 1]
    IN  kept[Len(s)]

RemoveCommas(text) == Filter(text, 0..9)

(* What \d+ matches: no separators.                                        *)
IsNumber(text) == text # <<>> /\ \A i \in DOMAIN text : text[i] # Comma

fromString(value) ==
    IF IsNumber(value.mantissa)
      THEN Number(RemoveCommas(value.mantissa)) * Scale(value.unit)
      ELSE SyntaxError

(* Mutant: the femtoseconds are not padded.                                *)
toCXXRTLUnpadded(t) == <<Decimal(Secs(t), 1), Decimal(Femtos(t), 1)>>

toCXXRTL(t) == <<Decimal(Secs(t), 1), Decimal(Femtos(t), Digits * (Units - 1))>>

(* The text is that of the server, with all the digits of a fraction.      *)
fromCXXRTL(value) ==
    IF IsNumber(value[1]) /\ IsNumber(value[2])
      THEN Number(value[1]) * RESOLUTION + Number(value[2])
      ELSE SyntaxError

OffsetByFemtos(t, femtos) == Secs(t) * RESOLUTION + Femtos(t) + femtos

(* What a text that is shown says to a reader.                             *)
Reads(text) == Number(RemoveCommas(text.mantissa)) * Scale(text.unit)
=============================================================================
