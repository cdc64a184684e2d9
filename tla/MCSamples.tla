----------------------------- MODULE MCSamples -----------------------------
(***************************************************************************)
(* Samples for TLC: chunks of two bits, a flag, a signal of two chunks and *)
(* a memory of two rows of two chunks; the signal's bits start at 2.       *)
(* Groups of two digits and three units, and times whose groups are at     *)
(* their limits.                                                           *)
(***************************************************************************)
EXTENDS Samples

Variable(name, isMemory, width, depth, lsbAt) ==
    [name |-> name, memory |-> isMemory, width |-> width, depth |-> depth, lsbAt |-> lsbAt]

Flag == Variable("flag", FALSE, 1, 1, 0)
Signal == Variable("signal", FALSE, 4, 1, 2)
Ram == Variable("ram", TRUE, 3, 2, 0)

MCVariables == {Flag, Signal, Ram}

MCTimes ==
    LET seconds == <<0, 11>>
        parts == <<0, 1, 20, 99>>
    IN  [i \in 1..32 |-> 10000 * seconds[(i - 1) \div 16 + 1]
                            + 100 * parts[(((i - 1) \div 4) % 4) + 1] + parts[((i - 1) % 4) + 1]]

(* At the samples and between them, after the last one too.               *)
MCCursors == ToSet(MCTimes) \cup {t + 31 : t \in ToSet(MCTimes)}

(* The rows run through all values of four bits in different ways, so that *)
(* no two of them always agree.                                            *)
MCWaveform ==
    [t \in ToSet(MCTimes) |-> [v \in MCVariables |-> [row \in Rows(v) |->
        LET n == t \div 7
        IN  CASE v = Flag -> n % 4
              [] v = Signal -> (n * 3 + 1) % 16
              [] v = Ram -> (n * 5 + 9 * row + 6) % 16]]]
=============================================================================
