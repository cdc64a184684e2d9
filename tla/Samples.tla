------------------------------- MODULE Samples -------------------------------
(***************************************************************************)
(* References and samples (sample.ts, session.ts:153-197): the layout of   *)
(* the variables of a reference in 32-bit chunks, queries for a time       *)
(* interval, how the server fills the samples and how handles take them    *)
(* apart, up to the values and bits the sidebar shows (styling.ts:45-76,   *)
(* sidebar.ts:57-64).                                                      *)
(*                                                                         *)
(* A chunk has ChunkBits bits.  Memories start at row 0, so that a row and *)
(* its index are the same (variable.ts:77, styling.ts:63-67).              *)
(***************************************************************************)
EXTENDS TimePoint

CONSTANTS
    ChunkBits,   \* bits of an element of item_values, 32 in the protocol
    Variables,   \* the design: records with name, memory, width, depth, lsbAt
    Times,       \* the times at which the simulation has a sample, a sequence
    Waveform,    \* what each row of each variable holds at each of them, bits
                 \* beyond the variable's width included
    Cursors,     \* times at which intervals begin, between two samples too, as
                 \* goToTime puts the cursor anywhere (extension.ts:52-61)
    Spans,       \* lengths of the intervals that are queried
    MaxHandles   \* bound: designations added to the reference

(* The attributes of Variable.fromCXXRTL() that matter here.               *)
VariableDescriptions ==
    {v \in [name : STRING, memory : BOOLEAN, width : Nat \ {0}, depth : Nat \ {0}, lsbAt : Nat] :
        v.memory \/ v.depth = 1}

Rows(v) == 0..(v.depth - 1)

ASSUME SamplesAssumption ==
    /\ ChunkBits \in Nat \ {0}
    /\ \A v \in Variables : v \in VariableDescriptions
    /\ Times \in Seq(Nat)
    /\ Times # <<>> /\ Times[1] = 0
    /\ \A i, j \in DOMAIN Times : i < j => Times[i] < Times[j]
    /\ \A t \in ToSet(Times), v \in Variables : Waveform[t][v] \in [Rows(v) -> Nat]
    /\ Cursors \subseteq Nat
    /\ Spans \subseteq Nat
    /\ MaxHandles \in Nat

VARIABLES
    frozen,    \* UnboundReference.frozen
    offset,    \* UnboundReference.offset, in chunks
    handles,   \* UnboundReference.handles
    binding,   \* server: the designations of the reference
    interval,  \* the interval queried last, or NoInterval
    samples    \* the samples of its answer, each with time and variableData

vars == <<frozen, offset, handles, binding, interval, samples>>

NoInterval == [begin |-> 0, end |-> -1]
RangeError == -1

-----------------------------------------------------------------------------
ScalarDesignation(v) == [type |-> "scalar", variable |-> v, first |-> 0, last |-> 0]
MemoryRowDesignation(v, i) == [type |-> "row", variable |-> v, first |-> i, last |-> i]
MemoryRangeDesignation(v, f, l) == [type |-> "range", variable |-> v, first |-> f, last |-> l]

Designations ==
    {ScalarDesignation(v) : v \in {v \in Variables : ~v.memory}} \cup
    UNION {{MemoryRowDesignation(v, i) : i \in Rows(v)} \cup
           {MemoryRangeDesignation(v, f, l) : f, l \in Rows(v)} :
                v \in {v \in Variables : v.memory}}

Stride(v) == (v.width + ChunkBits - 1) \div ChunkBits

Count(d) == IF d.last >= d.first THEN d.last - d.first + 1 ELSE d.first - d.last + 1

DataRange(d) == [stride |-> Stride(d.variable), count |-> Count(d)]

Size(d) == Stride(d.variable) * Count(d)

(* The row at a position of a designation, from first to last.             *)
RowAt(d, k) == IF d.last >= d.first THEN d.first + k ELSE d.first - k

-----------------------------------------------------------------------------
Init ==
    /\ frozen = FALSE
    /\ offset = 0
    /\ handles = <<>>
    /\ binding = <<>>
    /\ interval = NoInterval
    /\ samples = <<>>

(* Mutant: every designation takes a single row.                           *)
AddOneRow(d) ==
    /\ handles' = Append(handles, [designation |-> d, offset |-> offset])
    /\ offset' = offset + Stride(d.variable)

Add(d) ==
    /\ handles' = Append(handles, [designation |-> d, offset |-> offset])
    /\ offset' = offset + Size(d)

(* UnboundReference.add() throws when the reference is frozen.             *)
AddDesignation(d) ==
    /\ ~frozen
    /\ Len(handles) < MaxHandles
    /\ Add(d)
    /\ UNCHANGED <<frozen, binding, interval, samples>>

BindReference ==
    /\ ~frozen
    /\ frozen' = TRUE
    /\ binding' = [i \in DOMAIN handles |-> handles[i].designation]
    /\ UNCHANGED <<offset, handles, interval, samples>>

(* The server: the chunks of a row, the most significant one first, of a   *)
(* designation, row by row, and of a reference, item by item.              *)
Chunk(raw, k, stride) == (raw \div Power(2, ChunkBits * (stride - k))) % Power(2, ChunkBits)

ItemValues(d, t) ==
    LET stride == Stride(d.variable)
    IN  [i \in 1..Size(d) |->
            Chunk(Waveform[t][d.variable][RowAt(d, (i - 1) \div stride)],
                  ((i - 1) % stride) + 1, stride)]

(* The server takes the text of a time to be a decimal fraction of a       *)
(* second, and writes all of its digits.                                   *)
ServerReads(text) ==
    Number(text[1]) * RESOLUTION + Number(text[2]) * Power(10, Digits * (Units - 1) - Len(text[2]))

ServerWrites(t) == <<Decimal(Secs(t), 1), Decimal(Femtos(t), Digits * (Units - 1))>>

(* The samples of an interval begin with the one in effect at its          *)
(* beginning, as observers and steps rely on (observer.ts:92,              *)
(* session.ts:320, 339).                                                   *)
At(t) == CHOOSE i \in DOMAIN Times : Times[i] <= t /\ (i = Len(Times) \/ t < Times[i + 1])

TimesIn(begin, end) == SubSeq(Times, At(begin), At(end))

ServerQuery(begin, end) ==
    LET times == TimesIn(ServerReads(begin), ServerReads(end))
    IN  [i \in DOMAIN times |->
            [time |-> ServerWrites(times[i]),
             item_values |-> FlattenSeq([j \in DOMAIN binding |-> ItemValues(binding[j], times[i])])]]

(* Session.queryInterval(), for the TimePoint of the cursor (Spans has 0)  *)
(* or the interval a step looks at.  Bound: one query for each reference,  *)
(* as nothing in it depends on the ones before.                            *)
QueryInterval(begin, femtos) ==
    /\ frozen
    /\ interval = NoInterval
    /\ interval' = [begin |-> begin, end |-> OffsetByFemtos(begin, femtos)]
    /\ LET response == ServerQuery(toCXXRTL(interval'.begin), toCXXRTL(interval'.end))
       IN  samples' = [i \in DOMAIN response |->
                [time |-> fromCXXRTL(response[i].time), variableData |-> response[i].item_values]]
    /\ UNCHANGED <<frozen, offset, handles, binding>>

Next ==
    \/ \E d \in Designations : AddDesignation(d)
    \/ BindReference
    \/ \E t \in Cursors, femtos \in Spans : QueryInterval(t, femtos)

Spec == Init /\ [][Next]_vars

-----------------------------------------------------------------------------
(* The number made of n chunks after `from', the most significant first.   *)
Joined(data, from, n) ==
    LET value[i \in 0..n] ==
            IF i = 0 THEN 0 ELSE value[i - 1] * Power(2, ChunkBits) + data[from + i]
    IN  value[n]

(* Mutant: the rows of a range are taken to be one chunk apart.            *)
BigintFromRawDense(data, from, range, k) ==
    IF k <= range.count THEN Joined(data, from + k, range.stride) ELSE RangeError

(* DataRange.bigintFromRaw(), on the chunks that follow `from'.            *)
BigintFromRaw(data, from, range, k) ==
    IF k <= range.count THEN Joined(data, from + range.stride * k, range.stride) ELSE RangeError

(* Sample.extract(): the values of a handle, one for each row.  There is   *)
(* one reference, that of the handle and of the sample (sample.ts:187).    *)
Extract(sample, h) ==
    [k \in 0..(Count(h.designation) - 1) |->
        BigintFromRaw(sample.variableData, h.offset, DataRange(h.designation), k)]

(* Mutant: bits beyond the width are shown.                                *)
VariableValueUnmasked(v, value) == value

VariableValue(v, value) == value % Power(2, v.width)

VariableBitIndices(v) == v.lsbAt..(v.lsbAt + v.width - 1)

BitTreeItem(value, bitIndex) == (value \div Power(2, bitIndex)) % 2

-----------------------------------------------------------------------------
Samples == {samples[i] : i \in DOMAIN samples}

(* Handles divide every sample among them: each begins where the one       *)
(* before it ends, and the last one ends with the sample                   *)
(* (sample.ts:139-147).                                                    *)
HandlesTile ==
    /\ \A i \in DOMAIN handles :
         handles[i].offset + Size(handles[i].designation) =
            IF i = Len(handles) THEN offset ELSE handles[i + 1].offset
    /\ \A sample \in Samples : Len(sample.variableData) = offset

(* What a handle extracts from a sample is what the rows of its            *)
(* designation hold at the sample's time, in order, whatever else the      *)
(* reference has (sample.ts:18-27, 108-112, 122-124).                      *)
ExtractsOwn ==
    \A sample \in Samples, i \in DOMAIN handles :
        LET d == handles[i].designation
        IN  /\ sample.time \in ToSet(Times)
            /\ \A k \in 0..(Count(d) - 1) :
                Extract(sample, handles[i])[k] =
                    Waveform[sample.time][d.variable][RowAt(d, k)]
                        % Power(2, ChunkBits * Stride(d.variable))

(* The value shown is the row without the bits that CXXRTL sets by mistake *)
(* (styling.ts:74-76), and the bits shown below it are its bits, provided  *)
(* that the variable's least significant bit is number 0 (sidebar.ts:61).  *)
ShownIsValue ==
    \A sample \in Samples, i \in DOMAIN handles :
        LET d == handles[i].designation
            v == d.variable
            value == Extract(sample, handles[i])[0]
            row == Waveform[sample.time][v][d.first] % Power(2, v.width)
        IN  d.type # "range" =>
              /\ VariableValue(v, value) = row
              /\ v.lsbAt = 0 =>
                   \A bit \in VariableBitIndices(v) : BitTreeItem(value, bit) = (row \div Power(2, bit)) % 2

(* A query yields the sample in effect at the beginning of the interval,   *)
(* wherever the cursor is (observer.ts:92, session.ts:339), and then those *)
(* up to its end, in order: times survive both conversions, which the      *)
(* server reads as fractions of a second (session.ts:174-196,              *)
(* time.ts:97-107).                                                        *)
SamplesInInterval ==
    interval # NoInterval =>
        /\ samples # <<>>
        /\ samples[1].time <= interval.begin
        /\ \A t \in ToSet(Times) :
             (\E i \in DOMAIN samples : samples[i].time = t) <=>
                t = samples[1].time \/ t \in (interval.begin + 1)..interval.end
        /\ \A i, j \in DOMAIN samples : i < j => samples[i].time < samples[j].time

(* The text shown for a time denotes exactly that time (time.ts:41-71),    *)
(* and typed in again it is read as that time, or rejected where it has    *)
(* group separators, which the expression (time.ts:74) does not match.     *)
ShownIsExact ==
    interval # NoInterval => \A t \in {interval.begin, interval.end} :
        /\ Reads(toString(t)) = t
        /\ fromString(toString(t)) \in {t, SyntaxError}
=============================================================================
