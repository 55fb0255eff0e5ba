------------------------------- MODULE Repack -------------------------------
(***************************************************************************)
(* The tensor side of r9v-format: how the ggml block types are taken apart *)
(* (ggml.rs, iq.rs), laid out in tiles with their scale records beside     *)
(* them (repack.rs) and put together again.                                *)
(*                                                                         *)
(* A block is not modelled by its bytes but by where its bits go: a value  *)
(* bit or a record byte is named by the place of the wire block it is read *)
(* from.  A tensor of blocks moves whole values and whole records.         *)
(***************************************************************************)
EXTENDS TileLayout

VARIABLES
    job,     \* the tensor at hand: its ggml type, rows n and columns k
    packed,  \* the repacked tensor, or NoTensor
    wire     \* the wire blocks unpack_repacked gives back, or NoTensor

repackVars == <<job, packed, wire>>

NoTensor == [values |-> {}, scales |-> {}]

-----------------------------------------------------------------------------
(* Inside a block: the bit of the wire block (byte * 8 + bit) from which   *)
(* bit b of value i is read, and the one it is written back to.            *)

IndexTypes == {"IQ3_XXS", "IQ3_S", "IQ2_XXS", "IQ2_XS", "IQ2_S", "IQ1_S", "IQ1_M"}

IqTypes == IndexTypes \cup {"IQ4_NL", "IQ4_XS"}

ValueCount(g) ==
    IF g \in IndexTypes THEN BlockLen(g) \div IndexGranularity(GgmlTypes[g].scheme)
    ELSE BlockLen(g)

ValueBits(g) == IF GgmlTypes[g].scheme = "none" THEN 16 ELSE Schemes[GgmlTypes[g].scheme].bits

\* The first byte of the low bits and of the high bits of the values.
LowAt(g) ==
    CASE g \in {"F16", "BF16", "IQ1_M", "Q6_K"} -> 0
      [] g \in {"Q4_0", "Q8_0", "IQ4_NL"} \cup (IndexTypes \ {"IQ1_M"}) -> 2
      [] g = "Q4_1" -> 4
      [] g = "Q5_0" -> 6
      [] g \in {"Q5_1", "IQ4_XS"} -> 8
      [] g \in {"Q4_K", "Q2_K"} -> 16
      [] g = "Q5_K" -> 48
      [] g = "Q3_K" -> 32

HighAt(g) ==
    CASE g = "Q5_0" -> 2
      [] g = "Q5_1" -> 4
      [] g = "Q5_K" -> 16
      [] g = "Q6_K" -> 128
      [] g = "Q3_K" -> 0

\* block_values: the 32-value types and the halves, the k-quants of 4 to 6
\* bits, those of 2 and 3 bits; parse_block and unpack_nibbles: the iq types.
Read32(g, i, b) ==
    CASE g \in {"F16", "BF16"} -> 16 * i + b
      [] g = "Q8_0" -> 8 * (LowAt(g) + i) + b
      [] g \in {"Q5_0", "Q5_1"} /\ b = 4 -> 8 * HighAt(g) + i
      [] OTHER -> 8 * (LowAt(g) + (i % 16)) + 4 * (i \div 16) + b

ReadK456(g, i, b) ==
    CASE g # "Q6_K" /\ b < 4 ->
            8 * (LowAt(g) + (i \div 64) * 32 + (i % 32)) + 4 * ((i \div 32) % 2) + b
      [] g = "Q5_K" /\ b = 4 -> 8 * (HighAt(g) + (i % 32)) + i \div 32
      [] g = "Q6_K" /\ b < 4 -> 8 * ((i \div 128) * 64 + (i % 64)) + 4 * ((i % 128) \div 64) + b
      [] g = "Q6_K" /\ b >= 4 ->
            8 * (HighAt(g) + (i \div 128) * 32 + (i % 32)) + 2 * ((i \div 32) % 4) + (b - 4)

ReadK23(g, i, b) ==
    IF b < 2 THEN 8 * (LowAt(g) + (i \div 128) * 32 + (i % 32)) + 2 * ((i % 128) \div 32) + b
    ELSE 8 * (i % 32) + i \div 32

ReadIq(g, i, b) ==
    CASE g \in IndexTypes -> 8 * (LowAt(g) + i) + b
      [] g = "IQ4_NL" -> 8 * (LowAt(g) + (i % 16)) + 4 * (i \div 16) + b
      [] g = "IQ4_XS" -> 8 * (LowAt(g) + (i \div 32) * 16 + (i % 16)) + 4 * ((i % 32) \div 16) + b

ReadBit(g, i, b) ==
    CASE g \in {"Q4_K", "Q5_K", "Q6_K"} -> ReadK456(g, i, b)
      [] g \in {"Q2_K", "Q3_K"} -> ReadK23(g, i, b)
      [] g \in IqTypes -> ReadIq(g, i, b)
      [] OTHER -> Read32(g, i, b)

\* write_wire_block and write_block: one 16- or 32-value pass at a time.
Write32(g, i, b) ==
    CASE g \in {"F16", "BF16"} -> 8 * (2 * i + b \div 8) + (b % 8)
      [] g = "Q8_0" -> 8 * (2 + i) + b
      [] g \in {"Q5_0", "Q5_1"} /\ b = 4 ->
            8 * HighAt(g) + (IF i < 16 THEN i ELSE (i - 16) + 16)
      [] OTHER -> IF i < 16 THEN 8 * (LowAt(g) + i) + b ELSE 8 * (LowAt(g) + (i - 16)) + 4 + b

\* Mutant: the high bits of q6_k are put back a group of 64 at a time, as
\* its low bits are.
WriteK456HighByGroup(g, i, b) ==
    IF g = "Q6_K" /\ b >= 4
    THEN 8 * (HighAt(g) + (i \div 128) * 32 + (i % 32)) + 2 * ((i \div 64) % 2) + (b - 4)
    ELSE ReadK456(g, i, b)

WriteK456(g, i, b) ==
    LET big == (i \div 16) \div 2
        bigp == ((i \div 16) % 2) * 16 + (i % 16)
        flat == big * 32 + bigp
    IN CASE g # "Q6_K" /\ b < 4 ->
                8 * (LowAt(g) + (big \div 2) * 32 + (i % 32)) + (IF big % 2 = 0 THEN 0 ELSE 4) + b
         [] g = "Q5_K" /\ b = 4 -> 8 * (16 + (i % 32)) + i \div 32
         [] g = "Q6_K" /\ b < 4 ->
                8 * ((flat \div 128) * 64 + (flat % 64)) + 4 * ((flat % 128) \div 64) + b
         [] g = "Q6_K" /\ b >= 4 -> 8 * (128 + (big \div 4) * 32 + bigp) + 2 * (big % 4) + (b - 4)

WriteK23(g, i, b) ==
    LET j == i \div 16 IN
    IF b < 2 THEN 8 * (LowAt(g) + (j \div 8) * 32 + ((j % 8) % 2) * 16 + (i % 16))
                    + 2 * ((j % 8) \div 2) + b
    ELSE 8 * ((j % 2) * 16 + (i % 16)) + j \div 2

WriteIq(g, i, b) ==
    CASE g \in IndexTypes -> 8 * (LowAt(g) + i) + b
      [] g = "IQ4_NL" -> IF i < 16 THEN 8 * (2 + i) + b ELSE 8 * (2 + (i - 16)) + 4 + b
      [] g = "IQ4_XS" -> 8 * (8 + (i \div 32) * 16 + (i % 16)) + (IF i % 32 < 16 THEN 0 ELSE 4) + b

WriteBit(g, i, b) ==
    CASE g \in {"Q4_K", "Q5_K", "Q6_K"} -> WriteK456(g, i, b)
      [] g \in {"Q2_K", "Q3_K"} -> WriteK23(g, i, b)
      [] g \in IqTypes -> WriteIq(g, i, b)
      [] OTHER -> Write32(g, i, b)

\* The third bit of q3_k is stored inverted and inverted back.
ReadInverted(g, b) == g = "Q3_K" /\ b = 2

WriteInverted(g, b) == g = "Q3_K" /\ b = 2

RecordBytes(g) == IF GgmlTypes[g].scheme = "none" THEN 0 ELSE Schemes[GgmlTypes[g].scheme].rec

\* The spans <<wire byte, record byte, length>> of the scale record, as
\* parse_block (the iq types) and copy_block_record take them from a block.
IqRecordSpans(g) ==
    CASE g \in {"IQ4_NL", "IQ2_XXS"} -> {<<0, 0, 2>>}
      [] g = "IQ4_XS" -> {<<0, 0, 8>>}
      [] g = "IQ3_XXS" -> {<<0, 0, 2>>, <<66, 2, 32>>}
      [] g = "IQ3_S" -> {<<0, 0, 2>>, <<66, 2, 8>>, <<74, 10, 32>>, <<106, 42, 4>>}
      [] g = "IQ2_XS" -> {<<0, 0, 2>>, <<66, 2, 8>>}
      [] g = "IQ2_S" -> {<<0, 0, 2>>, <<34, 2, 32>>, <<66, 34, 8>>, <<74, 42, 8>>}
      [] g = "IQ1_S" -> {<<0, 0, 2>>, <<34, 2, 16>>}
      [] g = "IQ1_M" -> {<<32, 0, 16>>, <<48, 16, 8>>}

RecordSpans(g) ==
    CASE g \in {"F16", "BF16"} -> {}
      [] g \in {"Q8_0", "Q4_0", "Q5_0"} -> {<<0, 0, 2>>}
      [] g \in {"Q4_1", "Q5_1"} -> {<<0, 0, 4>>}
      [] g \in {"Q4_K", "Q5_K"} -> {<<0, 0, 16>>}
      [] g = "Q6_K" -> {<<208, 0, 2>>, <<192, 2, 16>>}
      [] g = "Q3_K" -> {<<96, 0, 14>>}
      [] g = "Q2_K" -> {<<0, 0, 16>>, <<80, 16, 4>>}
      [] g \in IqTypes -> IqRecordSpans(g)

\* The same triples as write_block and write_wire_block fill a block from
\* the record.
IqWriteSpans(g) ==
    CASE g \in {"IQ4_NL", "IQ2_XXS"} -> {<<0, 0, 2>>}
      [] g = "IQ4_XS" -> {<<0, 0, 8>>}
      [] g = "IQ3_XXS" -> {<<0, 0, 2>>, <<66, 2, 32>>}
      [] g = "IQ3_S" -> {<<0, 0, 2>>, <<66, 2, 8>>, <<74, 10, 32>>, <<106, 42, 4>>}
      [] g = "IQ2_XS" -> {<<0, 0, 2>>, <<66, 2, 8>>}
      [] g = "IQ2_S" -> {<<0, 0, 2>>, <<34, 2, 32>>, <<66, 34, 8>>, <<74, 42, 8>>}
      [] g = "IQ1_S" -> {<<0, 0, 2>>, <<34, 2, 16>>}
      [] g = "IQ1_M" -> {<<32, 0, 16>>, <<48, 16, 8>>}

WriteSpans(g) ==
    CASE g \in {"F16", "BF16"} -> {}
      [] g \in {"Q8_0", "Q4_0", "Q4_1", "Q5_0", "Q5_1"} -> {<<0, 0, RecordBytes(g)>>}
      [] g \in {"Q4_K", "Q5_K"} -> {<<0, 0, 16>>}
      [] g = "Q6_K" -> {<<192, 2, 16>>, <<208, 0, 2>>}
      [] g = "Q3_K" -> {<<96, 0, RecordBytes(g)>>}
      [] g = "Q2_K" -> {<<0, 0, 16>>, <<80, 16, 4>>}
      [] g \in IqTypes -> IqWriteSpans(g)

\* Sub-scale and sub-minimum j of the 12-byte k-quant payload: the bits of
\* sc[j] and mn[j], low bit first.
K4ScaleBits(j) ==
    IF j < 4 THEN [b \in 0..5 |-> 8 * j + b]
    ELSE [b \in 0..5 |-> IF b < 4 THEN 8 * (j + 4) + b ELSE 8 * (j - 4) + 2 + b]

K4MinBits(j) ==
    IF j < 4 THEN [b \in 0..5 |-> 8 * (j + 4) + b]
    ELSE [b \in 0..5 |-> IF b < 4 THEN 8 * (j + 4) + 4 + b ELSE 8 * j + 2 + b]

Q3ScaleBits(j) ==
    [b \in 0..5 |-> IF b < 4 THEN 8 * (j % 8) + 4 * (j \div 8) + b
                    ELSE 8 * (8 + (j % 4)) + 2 * (j \div 4) + (b - 4)]

\* Where the scale d, the minimum m, the sub-scales, the high index bits and
\* the signs begin: in the wire block (source_block, dequant_block) and in
\* the scale record (repacked_block, dequant_parsed).
IqSourceScaleAt(g) ==
    CASE g \in {"IQ4_NL", "IQ2_XXS"} -> [d |-> 0]
      [] g = "IQ4_XS" -> [d |-> 0, high |-> 2, sub |-> 4]
      [] g \in {"IQ2_XS", "IQ3_XXS"} -> [d |-> 0, sub |-> 66]
      [] g = "IQ2_S" -> [d |-> 0, sign |-> 34, high |-> 66, sub |-> 74]
      [] g = "IQ3_S" -> [d |-> 0, high |-> 66, sign |-> 74, sub |-> 106]
      [] g = "IQ1_S" -> [d |-> 0, high |-> 34]
      [] g = "IQ1_M" -> [high |-> 32, sub |-> 48]

SourceScaleAt(g) ==
    CASE g \in {"Q8_0", "Q4_0", "Q5_0"} -> [d |-> 0]
      [] g \in {"Q4_1", "Q5_1"} -> [d |-> 0, m |-> 2]
      [] g \in {"Q4_K", "Q5_K"} -> [d |-> 0, m |-> 2, sub |-> 4]
      [] g = "Q6_K" -> [d |-> 208, sub |-> 192]
      [] g = "Q3_K" -> [d |-> 108, sub |-> 96]
      [] g = "Q2_K" -> [d |-> 80, m |-> 82, sub |-> 0]
      [] g \in IqTypes -> IqSourceScaleAt(g)

IqRecordScaleAt(g) ==
    CASE g \in {"IQ4_NL", "IQ2_XXS"} -> [d |-> 0]
      [] g = "IQ4_XS" -> [d |-> 0, high |-> 2, sub |-> 4]
      [] g \in {"IQ2_XS", "IQ3_XXS"} -> [d |-> 0, sub |-> 2]
      [] g = "IQ2_S" -> [d |-> 0, sign |-> 2, high |-> 34, sub |-> 42]
      [] g = "IQ3_S" -> [d |-> 0, high |-> 2, sign |-> 10, sub |-> 42]
      [] g = "IQ1_S" -> [d |-> 0, high |-> 2]
      [] g = "IQ1_M" -> [high |-> 0, sub |-> 16]

RecordScaleAt(g) ==
    CASE g \in {"Q8_0", "Q4_0", "Q5_0"} -> [d |-> 0]
      [] g \in {"Q4_1", "Q5_1"} -> [d |-> 0, m |-> 2]
      [] g \in {"Q4_K", "Q5_K"} -> [d |-> 0, m |-> 2, sub |-> 4]
      [] g = "Q6_K" -> [d |-> 0, sub |-> 2]
      [] g = "Q3_K" -> [d |-> 12, sub |-> 0]
      [] g = "Q2_K" -> [d |-> 16, m |-> 18, sub |-> 0]
      [] g \in IqTypes -> IqRecordScaleAt(g)

-----------------------------------------------------------------------------
(* Repacking a tensor and giving its wire blocks back.  A value of the     *)
(* wire tensor is <<row, block, index>>, a scale record <<row, block>>; a  *)
(* region is the set of its <<position, content>> pairs that are not       *)
(* padding.                                                                *)

\* wire_geometry: whole blocks in every row.
WireOK(j) == j.n > 0 /\ j.k > 0 /\ j.k % BlockLen(j.g) = 0

Blocks(j) == j.k \div BlockLen(j.g)

Dims(j) == PaddedDims(j.n, j.k, SuperblockK(j.g))

ValueDims(j) ==
    IF j.g \in IndexTypes
    THEN PaddedDims(j.n, j.k \div IndexGranularity(GgmlTypes[j.g].scheme), 0)
    ELSE Dims(j)

WireValues(j) == (0..j.n - 1) \X (0..Blocks(j) - 1) \X (0..ValueCount(j.g) - 1)

WireRecords(j) ==
    IF GgmlTypes[j.g].scheme = "none" THEN {} ELSE (0..j.n - 1) \X (0..Blocks(j) - 1)

\* block_values, then pack_logical: value i of a block is column
\* block * count + i of its row.
PackValues(j) ==
    {<<L1Forward(v[1], v[2] * ValueCount(j.g) + v[3], ValueDims(j)), v>> : v \in WireValues(j)}

PackScales(j) == {<<RecordAt(GgmlTypes[j.g].scheme, Dims(j), r[1], r[2]), r>> : r \in WireRecords(j)}

UnpackValues(j, region) ==
    {LET c == L1Inverse(p[1], ValueDims(j)) IN
        <<<<c[1], c[2] \div ValueCount(j.g), c[2] % ValueCount(j.g)>>, p[2]>> : p \in region}

UnpackScales(j, region) ==
    UNION {{<<r, p[2]>> : p \in {q \in region :
                q[1] = RecordAt(GgmlTypes[j.g].scheme, Dims(j), r[1], r[2])}} : r \in WireRecords(j)}

-----------------------------------------------------------------------------

Repack ==
    /\ packed = NoTensor /\ WireOK(job)
    /\ packed' = [values |-> PackValues(job), scales |-> PackScales(job)]
    /\ UNCHANGED <<job, wire>>

UnpackRepacked ==
    /\ packed # NoTensor /\ wire = NoTensor
    /\ wire' = [values |-> UnpackValues(job, packed.values),
                scales |-> UnpackScales(job, packed.scales)]
    /\ UNCHANGED <<job, packed>>

RepackNext == Repack \/ UnpackRepacked

-----------------------------------------------------------------------------
(* Properties. *)

BlockBits(g) == 0..8 * BlockBytes(g) - 1

Span(s) == {<<s[1] + x, s[2] + x>> : x \in 0..s[3] - 1}

\* <<place, origin, inverted>> of every bit write_wire_block puts in a block
\* from the values and the record that were read from one.
RewrittenBits(g) ==
    {<<WriteBit(g, i, b), ReadBit(g, i, b), ReadInverted(g, b) # WriteInverted(g, b)>> :
        i \in 0..ValueCount(g) - 1, b \in 0..ValueBits(g) - 1}
    \cup UNION {UNION {{<<8 * to[1] + b, 8 * from[1] + b, FALSE>> : b \in 0..7} :
                    from \in {f \in UNION {Span(s) : s \in RecordSpans(g)} : f[2] = to[2]}} :
                to \in UNION {Span(s) : s \in WriteSpans(g)}}

\* Splitting a block into values and record and writing it back gives every
\* bit of the block its own place again: none is lost, moved, inverted or
\* written from two sources (block_values, copy_block_record, parse_block
\* against write_wire_block, write_block).
BlocksRoundTrip == RewrittenBits(job.g) = {<<p, p, FALSE>> : p \in BlockBits(job.g)}

\* The same for a whole tensor, rows and columns that are not whole tiles
\* included: unpack_repacked returns every value and every record to the
\* block it came from.
TensorRoundTrip ==
    wire # NoTensor =>
        /\ wire.values = {<<v, v>> : v \in WireValues(job)}
        /\ wire.scales = {<<r, r>> : r \in WireRecords(job)}

\* The L1 entry the container reserves for a scheme is what repacking the
\* ggml type of that scheme fills, value for value and record for record,
\* and its L0 entry is as long as the wire blocks.
EntriesHoldRepacked ==
    LET s == GgmlTypes[job.g].scheme
        l1 == EntryRegions(s, "l1", job.n, job.k)
    IN  (packed # NoTensor /\ s # "none") =>
        /\ l1.values = ValueRegion(ValueDims(job), ValueBits(job.g))
        /\ l1.scales = ScaleRecords(s, Dims(job)) * RecordBytes(job.g)
        /\ \A p \in packed.values : 8 * l1.values > ValueBits(job.g) * p[1]
        /\ \A p \in packed.scales : l1.scales > RecordBytes(job.g) * p[1]
        /\ EntryRegions(s, "l0", job.n, job.k).values = job.n * Blocks(job) * BlockBytes(job.g)

\* The regions of an entry follow one another on their boundaries and never
\* overlap; a sparse entry has two index bits for every value it can keep
\* and a scale record for every outer block of the dense tensor.
RegionsOrdered ==
    \A s \in DOMAIN Schemes, layout \in {"l0", "l1", "l1s"} :
        EntryOK(s, layout, job.n, job.k) =>
        LET r == EntryRegions(s, layout, job.n, job.k) IN
        /\ r.values <= r.scalesAt /\ r.scalesAt + r.scales <= r.indicesAt
        /\ r.indicesAt + r.indices <= r.entry
        /\ r.scalesAt % ScaleAlign = 0 /\ r.entry % NativeAlignment = 0
        /\ layout = "l1s" =>
            /\ 8 * r.indices = 2 * Elems(EntryValueDims(s, layout, job.n, job.k))
            /\ 2 * Elems(EntryValueDims(s, layout, job.n, job.k)) >= job.n * job.k
            /\ r.scales = EntryRegions(s, "l1", job.n, job.k).scales

\* Packing a lane uses each bit of its bytes exactly once, whatever the
\* width of its values; so do the kept indices of a sparse lane.
LanesPackTightly ==
    LET bits == ValueBits(job.g) IN
    /\ {LaneBit(bits, j, b) : j \in 0..LaneK - 1, b \in 0..bits - 1} = 0..8 * LaneBytes(bits) - 1
    /\ {SparseIndexBit(m, b) : m \in 0..LaneK - 1, b \in 0..1} =
            0..(8 * SparseIndexBytesPerTile) \div LanesPerTile - 1

\* The repacked decode reads the scale, the minimum and the sub-scales the
\* source decode reads: every field's place in the record is the place its
\* wire bytes were copied to.
DecodersAgree ==
    job.g \notin {"F16", "BF16"} =>
        /\ DOMAIN RecordScaleAt(job.g) = DOMAIN SourceScaleAt(job.g)
        /\ \A f \in DOMAIN SourceScaleAt(job.g) :
            <<SourceScaleAt(job.g)[f], RecordScaleAt(job.g)[f]>> \in UNION {Span(s) : s \in RecordSpans(job.g)}

BitsOf(f) == {f[b] : b \in DOMAIN f}

\* The 12-byte sub-scale payloads of the k-quants are read without two
\* sub-scales sharing a bit and without a bit unread.
SubScalesPartition ==
    /\ job.g \in {"Q4_K", "Q5_K"} =>
            UNION {BitsOf(K4ScaleBits(j)) \cup BitsOf(K4MinBits(j)) : j \in 0..7} = 0..95
    /\ job.g = "Q3_K" => UNION {BitsOf(Q3ScaleBits(j)) : j \in 0..15} = 0..95

\* Repacking loses, moves and misreads nothing: blocks, tensors, lanes, and the
\* fields both decoders take their scales from.
RepackExact ==
    /\ BlocksRoundTrip /\ TensorRoundTrip /\ LanesPackTightly
    /\ DecodersAgree /\ SubScalesPartition

\* The container's entry is what repacking fills, region by region.
EntriesExact == EntriesHoldRepacked /\ RegionsOrdered

=============================================================================
