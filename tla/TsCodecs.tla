------------------------------ MODULE TsCodecs ------------------------------
(***************************************************************************)
(* The pure algorithms of the demuxer and the muxer: the scan for NAL      *)
(* units and their statistics (crates/mpeg2ts-wasm/src/nal.rs), and the    *)
(* SMPTE 302M coding of samples (aes3.rs of both crates).                  *)
(*                                                                         *)
(* The behaviours build up inputs, byte by byte and sample by sample.  A   *)
(* bit of a sample is its name, not its value: a coding that returns every *)
(* bit to its place does so for all samples.                               *)
(***************************************************************************)
EXTENDS Integers, Sequences, FiniteSets, SequencesExt

CONSTANTS
  Bytes,        \* bytes of the payloads
  MaxBytes,     \* bound: bytes in a payload
  Channels, Depths,
  MaxSamples    \* bound: samples in a frame

VARIABLES payload, frame
vars == <<payload, frame>>

-----------------------------------------------------------------------------
(* scan_nal_ranges: the start codes, of 3 or 4 bytes, from the left.        *)
Is3(p, i) == p[i] = 0 /\ p[i + 1] = 0 /\ p[i + 2] = 1
Is4(p, i) == i + 3 <= Len(p) /\ p[i] = 0 /\ p[i + 1] = 0 /\ p[i + 2] = 0 /\ p[i + 3] = 1

(* Mutant: only 3-byte codes are looked for, which are found in those of 4. *)
StartCodesOf3(p) ==
  LET from[i \in 1..(Len(p) + 3)] ==
        IF i + 2 > Len(p) THEN <<>>
        ELSE IF Is3(p, i) THEN <<[begin |-> i, len |-> 3]>> \o from[i + 3]
        ELSE from[i + 1]
  IN from[1]

StartCodes(p) ==
  LET from[i \in 1..(Len(p) + 4)] ==
        IF i + 2 > Len(p) THEN <<>>
        ELSE IF Is3(p, i) THEN <<[begin |-> i, len |-> 3]>> \o from[i + 3]
        ELSE IF Is4(p, i) THEN <<[begin |-> i, len |-> 4]>> \o from[i + 4]
        ELSE from[i + 1]
  IN from[1]

NalRanges(p) ==
  LET codes == StartCodes(p)
      range(j) == <<codes[j].begin + codes[j].len,
                    IF j < Len(codes) THEN codes[j + 1].begin - 1 ELSE Len(p)>>
  IN SelectSeq([j \in DOMAIN codes |-> range(j)], LAMBDA r : r[1] <= r[2])

NalType(byte, is_hevc) == IF is_hevc THEN (byte \div 2) % 64 ELSE byte % 32
NalTypes(p, is_hevc) ==
  [j \in DOMAIN NalRanges(p) |-> NalType(p[NalRanges(p)[j][1]], is_hevc)]

(* BitReader::read_ue on a sequence of bits: the value and what is left, or *)
(* the value -1 at the end of the input.                                    *)
BitsOf(bytes) == FlattenSeq([i \in DOMAIN bytes |-> [k \in 1..8 |-> (bytes[i] \div 2^(8 - k)) % 2]])
EndOfInput == [value |-> -1, rest |-> <<>>]
ValueOf(bits) == FoldLeft(LAMBDA v, b : 2 * v + b, 0, bits)
(* Mutant: the suffix is one bit shorter than the zeros.                    *)
ReadUeShort(bits) ==
  LET one == SelectInSeq(bits, LAMBDA b : b = 1)
      zeros == one - 1
  IN IF one = 0 \/ zeros >= 32 \/ one + zeros > Len(bits) THEN EndOfInput
     ELSE [value |-> 2^zeros - 1 + ValueOf(SubSeq(bits, one + 1, one + zeros - 1)),
           rest |-> SubSeq(bits, one + zeros, Len(bits))]

ReadUe(bits) ==
  LET one == SelectInSeq(bits, LAMBDA b : b = 1)
      zeros == one - 1
  IN IF one = 0 \/ zeros >= 32 \/ one + zeros > Len(bits) THEN EndOfInput
     ELSE [value |-> 2^zeros - 1 + ValueOf(SubSeq(bits, one + 1, one + zeros)),
           rest |-> SubSeq(bits, one + zeros + 1, Len(bits))]

(* The slice type: the second code of the slice header.                     *)
SliceCode(bytes) ==
  LET first == ReadUe(BitsOf(bytes)) IN IF first.value < 0 THEN -1 ELSE ReadUe(first.rest).value
SliceType(bytes, is_hevc) ==
  LET code == SliceCode(bytes)
      named == IF is_hevc THEN <<"b", "p", "i">> ELSE <<"p", "b", "i">>
      n == IF is_hevc THEN code ELSE code % 5
  IN IF code < 0 \/ n > 2 THEN "unknown" ELSE named[n + 1]

(* Mutant: an IDR picture is not an I slice as well.                        *)
StatIdrOnly(nal, is_hevc) ==
  LET type == NalType(nal[1], is_hevc)
  IN CASE type = 5 -> {"idr"} [] type = 1 -> {"non_idr", SliceType(nal, is_hevc)}
       [] type = 6 -> {"sei"} [] OTHER -> {}

(* parse_nal_stats_from_scan: what one NAL unit counts as.                  *)
Stat(nal, is_hevc) ==
  LET type == NalType(nal[1], is_hevc)
  IN IF is_hevc
     THEN IF Len(nal) < 2 THEN {}
          ELSE CASE type \in {32, 34} -> {"pps"} [] type = 33 -> {"sps"}
                 [] type \in {39, 40} -> {"sei"} [] type \in {19, 20} -> {"idr", "i"}
                 [] type \in {0, 1} -> {"non_idr", SliceType(SubSeq(nal, 3, Len(nal)), TRUE)}
                 [] OTHER -> {}
     ELSE CASE type = 1 -> {"non_idr", SliceType(Tail(nal), FALSE)}
            [] type = 5 -> {"idr", "i"} [] type = 6 -> {"sei"} [] type = 7 -> {"sps"}
            [] type = 8 -> {"pps"} [] type = 9 -> {"aud"} [] OTHER -> {}
StatCount(p, is_hevc, stat) ==
  Cardinality({j \in DOMAIN NalRanges(p) :
    stat \in Stat(SubSeq(p, NalRanges(p)[j][1], NalRanges(p)[j][2]), is_hevc)})

-----------------------------------------------------------------------------
(* The AES3 header, by its fields: 16, 2 and 2 bits.                        *)
BuildHeader(frame_size, channels, depth) ==
  [frame_size |-> frame_size % 65536, ch_idx |-> ((channels - 2) \div 2) % 4,
   bits_idx |-> ((depth - 16) \div 4) % 4]
HeaderChannels(h) == h.ch_idx * 2 + 2
HeaderDepth(h) == h.bits_idx * 4 + 16
HeaderParses(h) == HeaderDepth(h) \in {16, 20, 24}

(* A byte, a sample and a word are functions from their bit numbers to the  *)
(* names of bits, <<>> where there is a 0.                                  *)
ZeroBit == <<>>
Reverse8(byte) == [k \in 0..7 |-> byte[7 - k]]
High(byte) == [k \in 0..7 |-> IF k < 4 THEN byte[k + 4] ELSE ZeroBit]     \* byte >> 4
LowOnly(byte) == [k \in 0..7 |-> IF k < 4 THEN byte[k] ELSE ZeroBit]      \* byte & 0x0F
HighOnly(byte) == [k \in 0..7 |-> IF k < 4 THEN ZeroBit ELSE byte[k]]     \* byte & 0xF0
ByteAt(sample, from, n) ==                \* n bits of the sample, from bit number from
  [k \in 0..7 |-> IF k < n THEN sample[from + k] ELSE ZeroBit]

(* The bytes of a pair of samples, in wrap_smpte302m_pes.                   *)
WrapPair(s1, s2, depth) ==
  CASE depth = 24 -> <<Reverse8(ByteAt(s1, 0, 8)), Reverse8(ByteAt(s1, 8, 8)),
                       Reverse8(ByteAt(s1, 16, 8)), High(Reverse8(ByteAt(s2, 0, 4))),
                       Reverse8(ByteAt(s2, 4, 8)), Reverse8(ByteAt(s2, 12, 8)),
                       Reverse8(ByteAt(s2, 20, 4))>>
    [] depth = 20 -> <<Reverse8(ByteAt(s1, 0, 8)), Reverse8(ByteAt(s1, 8, 8)),
                       Reverse8(ByteAt(s1, 16, 4)), Reverse8(ByteAt(s2, 0, 8)),
                       Reverse8(ByteAt(s2, 8, 8)), Reverse8(ByteAt(s2, 16, 4))>>
    [] depth = 16 -> <<Reverse8(ByteAt(s1, 0, 8)), Reverse8(ByteAt(s1, 8, 8)),
                       High(Reverse8(ByteAt(s2, 0, 4))), Reverse8(ByteAt(s2, 4, 8)),
                       Reverse8(ByteAt(s2, 12, 4))>>
BlockSize(depth) == CASE depth = 24 -> 7 [] depth = 20 -> 6 [] OTHER -> 5

Wrap(samples, channels, depth) ==
  IF channels \notin {2, 4, 6, 8} \/ depth \notin {16, 20, 24} THEN <<>>
  ELSE LET pairs == Len(samples) \div 2
       IN <<BuildHeader(pairs * BlockSize(depth), channels, depth)>> \o
          FlattenSeq([i \in 1..pairs |-> WrapPair(samples[2 * i - 1], samples[2 * i], depth)])

(* Bytes shifted into a word of which the top depth bits are the sample.    *)
Shifted(bytes, shifts, width, depth) ==
  [k \in 0..(depth - 1) |->
     LET at == width - depth + k
         from == {j \in DOMAIN bytes : at - shifts[j] \in 0..7 /\ bytes[j][at - shifts[j]] # ZeroBit}
     IN IF from = {} THEN ZeroBit
        ELSE LET j == CHOOSE j \in from : TRUE IN bytes[j][at - shifts[j]]]
(* Mutant: the nibble of the second sample of 24 bits is not reversed back. *)
UnwrapPairPlain(c, depth) ==
  <<Shifted(<<Reverse8(c[3]), Reverse8(c[2]), Reverse8(c[1])>>, <<24, 16, 8>>, 32, depth),
    Shifted(<<Reverse8(HighOnly(c[Len(c)])), Reverse8(c[Len(c) - 1]), Reverse8(c[Len(c) - 2]),
              LowOnly(c[Len(c) - 3])>>, <<28, 20, 12, 8>>, 32, depth)>>

UnwrapPair(c, depth) ==
  CASE depth = 24 -> <<Shifted(<<Reverse8(c[3]), Reverse8(c[2]), Reverse8(c[1])>>, <<24, 16, 8>>, 32, 24),
                       Shifted(<<Reverse8(HighOnly(c[7])), Reverse8(c[6]), Reverse8(c[5]),
                                 Reverse8(LowOnly(c[4]))>>, <<28, 20, 12, 4>>, 32, 24)>>
    [] depth = 20 -> <<Shifted(<<Reverse8(HighOnly(c[3])), Reverse8(c[2]), Reverse8(c[1])>>,
                               <<28, 20, 12>>, 32, 20),
                       Shifted(<<Reverse8(HighOnly(c[6])), Reverse8(c[5]), Reverse8(c[4])>>,
                               <<28, 20, 12>>, 32, 20)>>
    [] depth = 16 -> <<Shifted(<<Reverse8(c[2]), Reverse8(c[1])>>, <<8, 0>>, 16, 16),
                       Shifted(<<Reverse8(HighOnly(c[5])), Reverse8(c[4]), High(Reverse8(c[3]))>>,
                               <<12, 4, 0>>, 16, 16)>>
Unwrap(pes) ==
  IF pes = <<>> \/ ~HeaderParses(Head(pes)) THEN <<>>
  ELSE LET depth == HeaderDepth(Head(pes))
           size == BlockSize(depth)
           pairs == (Len(pes) - 1) \div size
       IN FlattenSeq([i \in 1..pairs |->
            UnwrapPair(SubSeq(pes, 2 + (i - 1) * size, 1 + i * size), depth)])

-----------------------------------------------------------------------------
NoFrame == [channels |-> 0, depth |-> 0, samples |-> <<>>]
Sample(n, depth) == [k \in 0..(depth - 1) |-> <<n, k>>]
Init == payload = <<>> /\ frame = NoFrame

GrowPayload(byte) ==
  /\ frame = NoFrame /\ Len(payload) < MaxBytes
  /\ payload' = Append(payload, byte)
  /\ UNCHANGED frame
StartFrame(channels, depth) ==
  /\ payload = <<>> /\ frame = NoFrame
  /\ frame' = [channels |-> channels, depth |-> depth, samples |-> <<>>]
  /\ UNCHANGED payload
GrowFrame ==
  /\ frame # NoFrame /\ Len(frame.samples) < MaxSamples
  /\ frame' = [frame EXCEPT !.samples = Append(@, Sample(Len(@) + 1, frame.depth))]
  /\ UNCHANGED payload

Next ==
  \/ \E byte \in Bytes : GrowPayload(byte)
  \/ \E channels \in Channels, depth \in Depths : StartFrame(channels, depth)
  \/ GrowFrame
Spec == Init /\ [][Next]_vars

-----------------------------------------------------------------------------
(* What the units are, without a scan: the bytes from the end of a start    *)
(* code to the next one, less the zero that makes that a code of 4 bytes.   *)
Ones == {i \in 3..Len(payload) : Is3(payload, i - 2)}
CodeBegin(one) == IF one > 3 /\ payload[one - 3] = 0 THEN one - 3 ELSE one - 2
UnitEnd(one) ==
  LET later == {o \in Ones : o > one}
  IN IF later = {} THEN Len(payload)
     ELSE CodeBegin(CHOOSE o \in later : \A other \in later : o <= other) - 1
Units == {<<one + 1, UnitEnd(one)>> : one \in {o \in Ones : o < UnitEnd(o)}}
UnitBytes(u) == SubSeq(payload, u[1], u[2])
UnitsOf(types) == {u \in Units : NalType(payload[u[1]], FALSE) \in types}

(* The ue(v) code: as many zeros as v + 1 has binary digits after the first.*)
Digits(v) == CHOOSE k \in 0..29 : 2^k <= v + 1 /\ v + 1 < 2^(k + 1)
Encode(v) == [i \in 1..(2 * Digits(v) + 1) |->
                IF i <= Digits(v) THEN 0 ELSE ((v + 1) \div 2^(2 * Digits(v) + 1 - i)) % 2]
SmallCodes == 0..31
StartsWithCodes(bits, codes) ==
  \E first \in SmallCodes, second \in codes : IsPrefix(Encode(first) \o Encode(second), bits)

-----------------------------------------------------------------------------
(* scan_nal_ranges (nal.rs:86) finds every unit and nothing else, whatever  *)
(* zeros stand around the start codes, and in order, without overlap.       *)
NalUnitsFound ==
  LET ranges == NalRanges(payload)
  IN /\ {ranges[j] : j \in DOMAIN ranges} = Units
     /\ \A j \in 1..(Len(ranges) - 1) : ranges[j][2] < ranges[j + 1][1]

(* BitReader::read_ue (nal.rs:39) reads one code and stops at its end: what *)
(* it read, coded again, is what it took; a code that is there is read.     *)
ExpGolombRead ==
  LET bits == BitsOf(payload)
      read == ReadUe(bits)
  IN IF read.value >= 0 THEN bits = Encode(read.value) \o read.rest
     ELSE \A v \in SmallCodes : ~IsPrefix(Encode(v), bits)

(* parse_nal_stats_from_scan (nal.rs:160) of an H.264 payload: a unit is    *)
(* counted under its type once, and a slice under at most one of I, P, B,   *)
(* the one its header names.                                                *)
SlicesCounted ==
  LET count(stat) == StatCount(payload, FALSE, stat)
      slices == UnitsOf({1})
      of(codes) == Cardinality({u \in slices : StartsWithCodes(BitsOf(Tail(UnitBytes(u))), codes)})
  IN /\ count("idr") = Cardinality(UnitsOf({5})) /\ count("non_idr") = Cardinality(slices)
     /\ count("sei") = Cardinality(UnitsOf({6}))
     /\ count("p") >= of({0, 5}) /\ count("b") >= of({1, 6})
     /\ count("i") >= count("idr") + of({2, 7})
     /\ count("i") + count("p") + count("b") <= count("idr") + count("non_idr")

(* unwrap_smpte302m_pes (aes3.rs:71) gives back the samples that            *)
(* wrap_smpte302m_pes coded, every bit in its place, and of a PES that was  *)
(* cut short a beginning of them; parameters out of range give nothing.     *)
PcmRoundTrip ==
  LET pes == Wrap(frame.samples, frame.channels, frame.depth)
      even == SubSeq(frame.samples, 1, (Len(frame.samples) \div 2) * 2)
  IN frame # NoFrame =>
       /\ Unwrap(pes) = (IF pes = <<>> THEN <<>> ELSE even)
       /\ \A n \in 0..Len(pes) : IsPrefix(Unwrap(SubSeq(pes, 1, n)), even)
       /\ pes # <<>> => HeaderChannels(Head(pes)) = frame.channels
=============================================================================
