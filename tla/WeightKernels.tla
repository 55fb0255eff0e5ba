--------------------------- MODULE WeightKernels ---------------------------
(***************************************************************************)
(* The reference kernels of r9v-t0 that decode packed weights: matmul,     *)
(* embed_gather, ngram_gather_device and the down projection of moe_ffn.   *)
(* A call is checked, then it writes one output (a row of outputs, for the *)
(* gathers) after another.  Numbers are left out: the model keeps which    *)
(* bytes of which buffer every term of an output is made of, in the order  *)
(* the terms are added.                                                    *)
(***************************************************************************)
EXTENDS TileLayout, SequencesExt

CONSTANT KernelCalls    \* the calls made

VARIABLE kernel         \* the call, the outputs it has written, its status

-----------------------------------------------------------------------------
(* Tensor views (buffer.rs). *)

\* raw: backed by bytes, and len counts bytes; otherwise len counts elements.
View(dtype, quant, layout, shape, raw, len) ==
    [dtype |-> dtype, quant |-> quant, layout |-> layout, shape |-> shape, raw |-> raw, len |-> len]

\* An optional operand that is not given.
Absent == View("absent", "none", "contiguous", <<0>>, FALSE, 0)

Present(v) == v # Absent

NumElements(v) == FoldLeft(LAMBDA a, d : a * d, 1, v.shape)

ElementSize == [F32 |-> 4, U32 |-> 4, F16 |-> 2, Bf16 |-> 2, I8 |-> 1, E4m3 |-> 1]

\* Elements are counted in the units of the backing.
ElementWidth(v) == IF v.raw THEN ElementSize[v.dtype] ELSE 1

\* validate_backing
Backed(v) ==
    LET n == NumElements(v) IN
    v.len >= IF ~v.raw THEN n
             ELSE IF v.dtype = "I4" THEN (n \div 2) + (n % 2)
             ELSE n * ElementWidth(v)

Rank(v) == Len(v.shape)

RowMajorView(v) == v.layout \in {"contiguous", "l0"}

WeightLayout(v) == v.layout \in {"contiguous", "l0", "l1"}

FloatOut == {"F16", "Bf16", "F32"}

-----------------------------------------------------------------------------
(* Weights: scheme, sizes and the carrier of separate scale records. *)

\* Not a scheme the container alone knows.
NativeQuant(v) ==
    v.quant \in {"none", "per_row", "per_token", "per_block32", "i8_r", "i8_b128", "i4_k", "e4m3_b128"}

\* "none" for halves, "refused" for what no kernel reads.
WeightScheme(w) ==
    CASE w.dtype = "F16" /\ w.quant = "none" -> "none"
      [] w.dtype = "I8" /\ w.quant \in {"per_row", "i8_r"} -> "i8_r"
      [] w.dtype = "I8" /\ w.quant = "i8_b128" -> "i8_b128"
      [] w.dtype = "I4" /\ w.quant = "i4_k" -> "i4_k"
      [] w.dtype = "E4m3" /\ w.quant = "e4m3_b128" -> "e4m3_b128"
      [] OTHER -> "refused"

Block128 == {"i8_b128", "e4m3_b128"}

WholeBlocks(scheme, k) ==
    /\ scheme = "i4_k" => k % 256 = 0
    /\ scheme \in Block128 => k % 128 = 0

WeightDims(scheme, n, k) ==
    PaddedDims(n, k, IF scheme = "i4_k" THEN 256 ELSE IF scheme \in Block128 THEN 128 ELSE 16)

\* Bytes of so many values.
ValueBytes(scheme, count) ==
    IF scheme = "none" THEN 2 * count ELSE IF scheme = "i4_k" THEN count \div 2 ELSE count

L0ValuesBytes(scheme, n, k) == ValueBytes(scheme, n * k)

L1ValuesBytes(scheme, n, k) == ValueBytes(scheme, Elems(WeightDims(scheme, n, k)))

ValuesBytes(scheme, l1, n, k) ==
    IF l1 THEN L1ValuesBytes(scheme, n, k) ELSE L0ValuesBytes(scheme, n, k)

ScaleRecordBytes(scheme) == Schemes[scheme].rec

RecordsPerRow(scheme, k) ==
    CASE scheme = "i8_r" -> 1 [] scheme = "i4_k" -> k \div 256 [] OTHER -> k \div 128

ScaleRegionBytes(scheme, n, k) ==
    ScaleRecords(scheme, WeightDims(scheme, n, k)) * ScaleRecordBytes(scheme)

\* The carrier contract of separate scales.
CarrierShape(scheme, l1, n, k) ==
    LET d == WeightDims(scheme, n, k)
        words == IF scheme = "i4_k" THEN <<4>> ELSE <<>>
    IN  IF l1 THEN <<d.np \div TileN, KBlocks(scheme, d), TileN>> \o words
        ELSE IF scheme = "i8_r" THEN <<n>>
        ELSE <<n, RecordsPerRow(scheme, k)>> \o words

CarrierBytes(scheme, l1, n, k) ==
    IF l1 THEN ScaleRegionBytes(scheme, n, k) ELSE n * RecordsPerRow(scheme, k) * ScaleRecordBytes(scheme)

CarrierOK(ws, scheme, l1, n, k) ==
    /\ ws.layout = "contiguous" /\ ws.raw
    /\ ws.dtype = IF scheme = "i4_k" THEN "U32" ELSE "F16"
    /\ ws.shape = CarrierShape(scheme, l1, n, k)
    /\ ws.len = CarrierBytes(scheme, l1, n, k)

\* Bytes of values and scale records in one buffer.
InlineBytes(scheme, l1, n, k) ==
    IF l1 THEN L1ValuesBytes(scheme, n, k) + ScaleRegionBytes(scheme, n, k)
    ELSE n * (ValueBytes(scheme, k) + RecordsPerRow(scheme, k) * ScaleRecordBytes(scheme))

\* What matmul and embed_gather ask of the weight's buffers.
WeightBytesOK(w, ws, scheme, n, k) ==
    LET l1 == w.layout = "l1" IN
    /\ w.raw
    /\ IF Present(ws)
       THEN scheme # "none" /\ w.len >= ValuesBytes(scheme, l1, n, k) /\ CarrierOK(ws, scheme, l1, n, k)
       ELSE w.len >= IF scheme = "none" THEN ValuesBytes(scheme, l1, n, k) ELSE InlineBytes(scheme, l1, n, k)

-----------------------------------------------------------------------------
(* matmul: the checks. *)

MatmulN(c) == IF c.transpose_w THEN c.w.shape[2] ELSE c.w.shape[1]
MatmulK(c) == c.x.shape[2]

MatmulViewsOK(c) ==
    /\ \A v \in {c.x, c.w, c.y, c.xs, c.ws, c.bias, c.residual} : Backed(v)
    /\ Rank(c.x) = 2 /\ Rank(c.w) = 2 /\ Rank(c.y) = 2
    /\ \A v \in {c.x, c.y, c.xs, c.bias, c.residual} : RowMajorView(v)
    /\ WeightLayout(c.w) /\ WeightLayout(c.ws)

EpilogueOK(c) ==
    /\ Present(c.bias) <=> c.epilogue = "bias"
    /\ Present(c.residual) <=> c.epilogue = "residual"
    /\ c.epilogue = "bias" => Rank(c.bias) = 1 /\ c.bias.dtype = "F32"
    /\ c.epilogue = "residual" => Rank(c.residual) = 2 /\ c.residual.dtype \in FloatOut
    /\ c.out_dtype \in FloatOut /\ c.y.dtype = c.out_dtype

ActivationOK(x) ==
    <<x.dtype, x.quant>> \in {<<"F16", "none">>, <<"Bf16", "none">>, <<"I8", "per_token">>,
                              <<"I8", "per_block32">>, <<"E4m3", "per_token">>}

PairOK(x, scheme) ==
    /\ scheme = "e4m3_b128" => x.dtype # "I8"
    /\ scheme \in {"i8_r", "i8_b128", "i4_k"} => x.dtype # "E4m3"

\* finite: every activation scale is finite and not negative.
ActivationScaleOK(x, xs, finite, m, k) ==
    /\ Present(xs) <=> x.quant # "none"
    /\ Present(xs) => xs.dtype = "F32" /\ finite
    /\ x.quant = "per_token" => xs.shape = <<m>>
    /\ x.quant = "per_block32" => k % 32 = 0 /\ xs.shape = <<m, k \div 32>>

MatmulShapesOK(c) ==
    LET m == c.x.shape[1]
        n == MatmulN(c)
    IN  /\ m > 0 /\ MatmulK(c) > 0 /\ n > 0
        /\ MatmulK(c) = IF c.transpose_w THEN c.w.shape[1] ELSE c.w.shape[2]
        /\ c.y.shape = <<m, n>>
        /\ Present(c.bias) => c.bias.shape = <<n>>
        /\ Present(c.residual) => c.residual.shape = <<m, n>>

MatmulOK(c) ==
    LET scheme == WeightScheme(c.w) IN
    /\ MatmulViewsOK(c) /\ EpilogueOK(c) /\ NativeQuant(c.x) /\ NativeQuant(c.w) /\ ActivationOK(c.x)
    /\ scheme # "refused" /\ PairOK(c.x, scheme)
    /\ MatmulShapesOK(c)
    /\ c.transpose_w => scheme = "none" /\ c.w.layout # "l1"
    /\ ActivationScaleOK(c.x, c.xs, c.finite, c.x.shape[1], MatmulK(c))
    /\ WholeBlocks(scheme, MatmulK(c))
    /\ WeightBytesOK(c.w, c.ws, scheme, MatmulN(c), MatmulK(c))

-----------------------------------------------------------------------------
(* embed_gather, ngram_gather_device and the down projection: the checks.   *)

EmbedViewsOK(c) ==
    /\ Backed(c.ids) /\ Backed(c.w) /\ Backed(c.ws) /\ Backed(c.y)
    /\ Rank(c.ids) = 1 /\ Rank(c.w) = 2 /\ Rank(c.y) = 2
    /\ RowMajorView(c.ids) /\ WeightLayout(c.w) /\ WeightLayout(c.ws) /\ RowMajorView(c.y)
    /\ c.ids.dtype = "U32" /\ c.y.dtype = c.out_dtype /\ c.out_dtype \in FloatOut
    /\ c.scale = "positive"

EmbedScheme(w) == IF WeightScheme(w) = "e4m3_b128" THEN "refused" ELSE WeightScheme(w)

EmbedShapesOK(c, scheme) ==
    LET t == c.ids.shape[1]
        n == c.w.shape[1]
        k == c.w.shape[2]
    IN  /\ t > 0 /\ n > 0 /\ k > 0
        /\ c.y.shape = <<t, k>>
        /\ WholeBlocks(scheme, k)
        /\ \A i \in 1..t : c.tokens[i] < n

\* Separate records: the values alone must fit the table.
EmbedCarrierOK(c, scheme) ==
    LET n == c.w.shape[1]
        k == c.w.shape[2]
        l1 == c.w.layout = "l1"
    IN  scheme # "none" /\ c.w.len >= ValuesBytes(scheme, l1, n, k) /\ CarrierOK(c.ws, scheme, l1, n, k)

EmbedInlineOK(c, scheme) ==
    LET n == c.w.shape[1]
        k == c.w.shape[2]
        l1 == c.w.layout = "l1"
    IN  c.w.len >= IF scheme = "none" THEN ValuesBytes(scheme, l1, n, k) ELSE InlineBytes(scheme, l1, n, k)

EmbedOK(c) ==
    LET scheme == EmbedScheme(c.w) IN
    /\ EmbedViewsOK(c) /\ scheme # "refused"
    /\ EmbedShapesOK(c, scheme)
    /\ c.w.raw
    /\ IF Present(c.ws) THEN EmbedCarrierOK(c, scheme) ELSE EmbedInlineOK(c, scheme)

\* The device table of the n-gram heads may also be F32 or Bf16.
NgramScheme(w) ==
    IF w.quant = "none" /\ w.dtype \in FloatOut THEN "none"
    ELSE IF WeightScheme(w) \in {"i8_r", "i8_b128", "i4_k"} THEN WeightScheme(w) ELSE "refused"

TableSizesSum(c) == FoldLeft(+, 0, c.table_sizes)

\* Unlike the carrier of the other kernels, one record per row is always
\* shaped [entries], whatever the scheme.
NgramCarrierShape(scheme, n, k) ==
    IF scheme = "i8_b128" /\ k = 128 THEN <<n>> ELSE CarrierShape(scheme, FALSE, n, k)

TableScalesOK(c, scheme, n, k) ==
    IF scheme = "none" THEN ~Present(c.ws)
    ELSE /\ c.w.raw /\ Present(c.ws)
         /\ c.ws.layout = "contiguous" /\ c.ws.raw
         /\ c.ws.dtype = IF scheme = "i4_k" THEN "U32" ELSE "F16"
         /\ c.ws.shape = NgramCarrierShape(scheme, n, k)
         /\ c.ws.len = CarrierBytes(scheme, FALSE, n, k)

NgramViewsOK(c) ==
    LET heads == Len(c.table_sizes) IN
    /\ Backed(c.ids) /\ Backed(c.w) /\ Backed(c.ws) /\ Backed(c.y)
    /\ c.source = "device"
    /\ Rank(c.ids) = 1 /\ c.ids.dtype = "U32"
    /\ Rank(c.w) = 2 /\ RowMajorView(c.w) /\ Rank(c.y) = 2
    /\ c.y.dtype = c.out_dtype /\ c.out_dtype \in FloatOut
    /\ heads > 0 /\ Len(c.orders) = heads /\ \A h \in 1..heads : c.orders[h] = 1

\* rows[t][head]: the row the hash chooses in the head's table.
NgramRowsOK(c) ==
    LET heads == Len(c.table_sizes)
        k == c.w.shape[2]
    IN  /\ \A t \in 1..c.ids.shape[1], h \in 1..heads : c.rows[t][h] < c.table_sizes[h]
        /\ c.y.shape = <<c.ids.shape[1], IF c.combine = "concat" THEN heads * k ELSE k>>

NgramOK(c) ==
    LET scheme == NgramScheme(c.w)
        n == c.w.shape[1]
        k == c.w.shape[2]
    IN  /\ NgramViewsOK(c) /\ scheme # "refused"
        /\ c.ids.shape[1] > 0 /\ n > 0 /\ k > 0
        /\ TableSizesSum(c) = n
        /\ WholeBlocks(scheme, k)
        /\ TableScalesOK(c, scheme, n, k)
        /\ NgramRowsOK(c)

\* resolve_weight_scheme
DownScheme(w) == WeightScheme(w)

\* The rows of all experts, one after the other.
DownRows(c) == c.w.shape[1] * c.w.shape[2]

\* With separate scales, or none, only the length of row-major values is asked
\* for, also of tiled weights.
DownCarrierOK(c, scheme, n, k) ==
    scheme # "none" /\ c.w.len >= L0ValuesBytes(scheme, n, k) /\ CarrierOK(c.ws, scheme, c.w.layout = "l1", n, k)

DownInlineOK(c, scheme, n, k) ==
    c.w.len >= IF scheme = "none" THEN L0ValuesBytes(scheme, n, k) ELSE InlineBytes(scheme, c.w.layout = "l1", n, k)

DownOK(c) ==
    LET scheme == DownScheme(c.w)
        n == DownRows(c)
        k == c.w.shape[3]
    IN  /\ Backed(c.w) /\ Backed(c.ws)
        /\ Rank(c.w) = 3 /\ WeightLayout(c.w) /\ WeightLayout(c.ws)
        /\ scheme # "refused" /\ n > 0 /\ k > 0
        /\ WholeBlocks(scheme, k)
        /\ c.w.raw
        /\ IF Present(c.ws) THEN DownCarrierOK(c, scheme, n, k) ELSE DownInlineOK(c, scheme, n, k)

-----------------------------------------------------------------------------
(* Weight matrices as the kernels see them, and where one weight is read.   *)

KernelOK(c) ==
    CASE c.op = "matmul" -> MatmulOK(c) [] c.op = "embed" -> EmbedOK(c)
      [] c.op = "ngram" -> NgramOK(c) [] OTHER -> DownOK(c)

KernelScheme(c) ==
    CASE c.op = "ngram" -> NgramScheme(c.w) [] c.op = "embed" -> EmbedScheme(c.w)
      [] c.op = "down" -> DownScheme(c.w) [] OTHER -> WeightScheme(c.w)

KernelN(c) ==
    CASE c.op = "matmul" -> MatmulN(c) [] c.op = "down" -> DownRows(c) [] OTHER -> c.w.shape[1]

KernelK(c) ==
    CASE c.op = "matmul" -> MatmulK(c) [] c.op = "down" -> c.w.shape[3] [] OTHER -> c.w.shape[2]

Tiled(c) == c.w.layout = "l1"

Separate(c) == Present(c.ws)

KernelDims(c) == WeightDims(KernelScheme(c), KernelN(c), KernelK(c))

\* The byte and nibble of a value, the byte of its scale record in the buffer
\* that holds it, and the sub-block of that record.
Read(byte, nibble, scale, sub) == [byte |-> byte, nibble |-> nibble, scale |-> scale, sub |-> sub]

\* Offset of a record in the scale region of tiled weights.
RecordOffset(c, row, kb) ==
    RecordAt(KernelScheme(c), KernelDims(c), row, kb) * ScaleRecordBytes(KernelScheme(c))

DecodeF16(c, row, k) ==
    IF Tiled(c) THEN Read(L1Forward(row, k, KernelDims(c)) * 2, 0, 0, 0)
    ELSE IF c.op = "matmul" /\ c.transpose_w THEN Read((k * KernelN(c) + row) * 2, 0, 0, 0)
    ELSE Read((row * KernelK(c) + k) * 2, 0, 0, 0)

DecodeI8R(c, row, k) ==
    IF Tiled(c) THEN Read(L1Forward(row, k, KernelDims(c)), 0, RecordOffset(c, row, 0), 0)
    ELSE LET stride == KernelK(c) + IF Separate(c) THEN 0 ELSE 2 IN
         Read(row * stride + k, 0, IF Separate(c) THEN row * 2 ELSE row * stride + KernelK(c), 0)

\* The record is the one of the block the loop is in.
DecodeB128(c, row, k, b) ==
    IF Tiled(c) THEN Read(L1Forward(row, k, KernelDims(c)), 0, RecordOffset(c, row, b), 0)
    ELSE LET blocks == KernelK(c) \div 128
             stride == KernelK(c) + IF Separate(c) THEN 0 ELSE blocks * 2
         IN  Read(row * stride + k, 0,
                  IF Separate(c) THEN (row * blocks + b) * 2 ELSE row * stride + KernelK(c) + b * 2, 0)

DecodeI4K(c, row, k, sb, sub) ==
    IF Tiled(c)
    THEN LET elem == L1Forward(row, k, KernelDims(c)) IN
         Read(elem \div 2, elem % 2, RecordOffset(c, row, sb), sub)
    ELSE LET superblocks == KernelK(c) \div 256
             values == KernelK(c) \div 2
             stride == values + IF Separate(c) THEN 0 ELSE superblocks * 16
         IN  Read(row * stride + k \div 2, k % 2,
                  IF Separate(c) THEN (row * superblocks + sb) * 16 ELSE row * stride + values + sb * 16, sub)

-----------------------------------------------------------------------------
(* The loops: the blocks of columns an output is accumulated in, the scale   *)
(* record and sub-block of each, and the activation scale it is times.       *)

NoScale == -1

Block(from, len, rec, sub, xs) == [from |-> from, len |-> len, rec |-> rec, sub |-> sub, xs |-> xs]

\* Mutant: the record follows the sub-block in blocks of 128.
BranchA3Of128(c, m) ==
    [b \in 1..(KernelK(c) \div 32) |-> Block((b - 1) * 32, 32, (b - 1) \div 4, (b - 1) % 8, m)]

\* i8 activations with one scale per token.
BranchA1(c, m) == <<Block(0, KernelK(c), 0, 0, m)>>

BranchA2(c, m) == [b \in 1..(KernelK(c) \div 128) |-> Block((b - 1) * 128, 128, b - 1, 0, m)]

BranchA3(c, m) ==
    [b \in 1..(KernelK(c) \div 32) |-> Block((b - 1) * 32, 32, (b - 1) \div 8, (b - 1) % 8, m)]

\* i8 activations with a scale per 32 columns.
BranchBI8R(c, m) ==
    LET blocks == KernelK(c) \div 32 IN
    [b \in 1..blocks |-> Block((b - 1) * 32, 32, 0, 0, m * blocks + b - 1)]

BranchBI8B128(c, m) ==
    LET blocks == KernelK(c) \div 32 IN
    [b \in 1..blocks |-> Block((b - 1) * 32, 32, (b - 1) \div 4, 0, m * blocks + b - 1)]

BranchBI4K(c, m) ==
    LET blocks == KernelK(c) \div 32 IN
    [b \in 1..blocks |-> Block((b - 1) * 32, 32, (b - 1) \div 8, (b - 1) % 8, m * blocks + b - 1)]

\* e4m3 activations and weights.
BranchC(c, m) == [b \in 1..(KernelK(c) \div 128) |-> Block((b - 1) * 128, 128, b - 1, 0, m)]

\* Every other pair, one column at a time: first the activation scale.
BranchDActivation(c, m, k) ==
    CASE c.x.quant = "per_token" -> m
      [] c.x.quant = "per_block32" -> m * (KernelK(c) \div 32) + k \div 32
      [] OTHER -> NoScale

\* One column of a scheme's weights at a time (also the down projection).
ColumnBlock(scheme, k, xs) ==
    CASE scheme \in Block128 -> Block(k, 1, k \div 128, 0, xs)
      [] scheme = "i4_k" -> Block(k, 1, k \div 256, (k % 256) \div 32, xs)
      [] OTHER -> Block(k, 1, 0, 0, xs)

BranchD(c, m) ==
    [k \in 1..KernelK(c) |-> ColumnBlock(KernelScheme(c), k - 1, BranchDActivation(c, m, k - 1))]

MatmulBlocks(c, m) ==
    LET scheme == KernelScheme(c) IN
    CASE c.x.quant = "per_token" /\ c.x.dtype = "I8" /\ scheme = "i8_r" -> BranchA1(c, m)
      [] c.x.quant = "per_token" /\ c.x.dtype = "I8" /\ scheme = "i8_b128" -> BranchA2(c, m)
      [] c.x.quant = "per_token" /\ c.x.dtype = "I8" /\ scheme = "i4_k" -> BranchA3(c, m)
      [] c.x.quant = "per_block32" /\ scheme = "i8_r" -> BranchBI8R(c, m)
      [] c.x.quant = "per_block32" /\ scheme = "i8_b128" -> BranchBI8B128(c, m)
      [] c.x.quant = "per_block32" /\ scheme = "i4_k" -> BranchBI4K(c, m)
      [] c.x.dtype = "E4m3" /\ scheme = "e4m3_b128" -> BranchC(c, m)
      [] OTHER -> BranchD(c, m)

\* A row of the table in row-major order, by scheme, and in tiles.
EmbedPlainRow(c) == <<Block(0, KernelK(c), 0, 0, NoScale)>>

EmbedBlockRow(c) ==
    [b \in 1..(KernelK(c) \div 128) |-> Block((b - 1) * 128, 128, b - 1, 0, NoScale)]

EmbedSuperblockRow(c) ==
    [b \in 1..8 * (KernelK(c) \div 256) |-> Block((b - 1) * 32, 32, (b - 1) \div 8, (b - 1) % 8, NoScale)]

EmbedTiledRow(c) ==
    CASE KernelScheme(c) = "i4_k" -> EmbedSuperblockRow(c)
      [] KernelScheme(c) = "i8_b128" -> EmbedBlockRow(c)
      [] OTHER -> EmbedPlainRow(c)

EmbedBlocks(c) ==
    CASE Tiled(c) -> EmbedTiledRow(c)
      [] KernelScheme(c) = "i8_b128" -> EmbedBlockRow(c)
      [] KernelScheme(c) = "i4_k" -> EmbedSuperblockRow(c)
      [] OTHER -> EmbedPlainRow(c)

ColumnBlocks(c) == [k \in 1..KernelK(c) |-> ColumnBlock(KernelScheme(c), k - 1, NoScale)]

KernelBlocks(c, at) ==
    CASE c.op = "matmul" -> MatmulBlocks(c, at \div KernelN(c))
      [] c.op = "embed" -> EmbedBlocks(c)
      [] OTHER -> ColumnBlocks(c)

\* decode_device_entry
DecodeEntry(c, entry, d) ==
    LET flat == entry * KernelK(c) + d
        scheme == KernelScheme(c)
    IN  CASE scheme = "none" -> Read(flat * ElementWidth(c.w), 0, 0, 0)
          [] scheme = "i8_r" -> Read(flat, 0, entry * 2, 0)
          [] scheme = "i8_b128" -> Read(flat, 0, (entry * (KernelK(c) \div 128) + d \div 128) * 2, 0)
          [] OTHER -> Read(flat \div 2, flat % 2, (entry * (KernelK(c) \div 256) + d \div 256) * 16, (d % 256) \div 32)

\* down_weight_f32, which finds the block of a column itself.
DownPlainRead(c, row, k) == IF KernelScheme(c) = "none" THEN DecodeF16(c, row, k) ELSE DecodeI8R(c, row, k)

DownBlockRead(c, row, k) ==
    IF KernelScheme(c) = "i4_k" THEN DecodeI4K(c, row, k, k \div 256, (k % 256) \div 32)
    ELSE DecodeB128(c, row, k, k \div 128)

\* Column k of a weight row, in the given block of the loop.
KernelRead(c, row, k, block) ==
    CASE c.op = "ngram" -> DecodeEntry(c, row, k)
      [] c.op = "down" -> IF KernelScheme(c) \in {"none", "i8_r"} THEN DownPlainRead(c, row, k) ELSE DownBlockRead(c, row, k)
      [] KernelScheme(c) = "none" -> DecodeF16(c, row, k)
      [] KernelScheme(c) = "i8_r" -> DecodeI8R(c, row, k)
      [] KernelScheme(c) = "i4_k" -> DecodeI4K(c, row, k, block.rec, block.sub)
      [] OTHER -> DecodeB128(c, row, k, block.rec)

\* First row of a head's table.
TableBase(c, head) == FoldLeft(+, 0, SubSeq(c.table_sizes, 1, head - 1))

\* The weight row of an output.
KernelRow(c, at) ==
    LET heads == Len(c.table_sizes) IN
    CASE c.op = "matmul" -> at % KernelN(c)
      [] c.op = "embed" -> c.tokens[at + 1]
      [] c.op = "ngram" -> TableBase(c, (at % heads) + 1) + c.rows[(at \div heads) + 1][(at % heads) + 1]
      [] OTHER -> c.expert * c.w.shape[2] + (at % c.w.shape[2])

Outputs(c) ==
    CASE c.op = "matmul" -> c.x.shape[1] * KernelN(c)
      [] c.op = "embed" -> Len(c.tokens)
      [] c.op = "ngram" -> c.ids.shape[1] * Len(c.table_sizes)
      [] OTHER -> c.w.shape[2]

-----------------------------------------------------------------------------
(* The calls. *)

NoCall == [op |-> "none"]

KernelInit == kernel = [call |-> NoCall, at |-> 0, status |-> "idle"]

CallKernel ==
    /\ kernel.status = "idle"
    /\ \E c \in KernelCalls :
         kernel' = [call |-> c, at |-> 0, status |-> IF KernelOK(c) THEN "running" ELSE "refused"]

\* A read past the end of a buffer ends the call.
ReadsInside(c, r, scheme) ==
    /\ r.byte + (IF scheme = "none" THEN ElementWidth(c.w) ELSE 1) <= c.w.len
    /\ scheme # "none" =>
         IF Separate(c) THEN r.scale + ScaleRecordBytes(scheme) <= c.ws.len
         ELSE r.scale + ScaleRecordBytes(scheme) + (IF Tiled(c) THEN L1ValuesBytes(scheme, KernelN(c), KernelK(c)) ELSE 0) <= c.w.len

OutputReadable(c, at) ==
    LET row == KernelRow(c, at)
        scheme == KernelScheme(c)
        blocks == KernelBlocks(c, at)
    IN  \A i \in DOMAIN blocks : \A j \in 0..blocks[i].len - 1 :
            ReadsInside(c, KernelRead(c, row, blocks[i].from + j, blocks[i]), scheme)

WriteOutput ==
    /\ kernel.status = "running"
    /\ LET c == kernel.call IN
       kernel' = IF ~OutputReadable(c, kernel.at) THEN [kernel EXCEPT !.status = "short"]
                 ELSE IF kernel.at + 1 < Outputs(c) THEN [kernel EXCEPT !.at = @ + 1]
                 ELSE [kernel EXCEPT !.at = @ + 1, !.status = "done"]

KernelNext == CallKernel \/ WriteOutput

KernelSpec == KernelInit /\ [][KernelNext]_kernel

-----------------------------------------------------------------------------
(* The properties. *)

\* The column and row whose value the format keeps at a byte and nibble.
HoldsValue(c, r, row, k) ==
    LET scheme == KernelScheme(c)
        pos == CASE scheme = "none" -> r.byte \div ElementWidth(c.w) [] scheme = "i4_k" -> 2 * r.byte + r.nibble [] OTHER -> r.byte
        bits == IF scheme = "none" THEN 16 ELSE Schemes[scheme].bits
        stride == IF scheme = "none" THEN KernelK(c) * ElementWidth(c.w)
                  ELSE IF Separate(c) THEN ValueBytes(scheme, KernelK(c)) ELSE RowBytes(scheme, KernelK(c))
        column == r.byte % stride
    IN  IF Tiled(c)
        THEN /\ L1Inverse(pos, KernelDims(c)) = <<row, k>>
             /\ (pos \div LaneK) * LaneBytes(bits) * 8 + LaneBit(bits, pos % LaneK, 0) = 8 * r.byte + 4 * r.nibble
        ELSE IF c.op = "matmul" /\ c.transpose_w THEN pos = k * KernelN(c) + row
        ELSE /\ r.byte \div stride = row
             /\ k = CASE scheme = "none" -> column \div ElementWidth(c.w) [] scheme = "i4_k" -> 2 * column + r.nibble [] OTHER -> column

\* The row and block whose scale record the format keeps at a byte.
HoldsRecord(c, r, row, k) ==
    LET scheme == KernelScheme(c)
        n == KernelN(c)
        d == KernelDims(c)
        kb == k \div OuterBlock(scheme, d)
        blocks == KBlocks(scheme, d)
        region == IF Separate(c) THEN r.scale
                  ELSE L1ValuesBytes(scheme, n, KernelK(c)) + r.scale - EntryRegions(scheme, "l1", n, KernelK(c)).scalesAt
        rec == ScaleRecordBytes(scheme)
        row_bytes == RowBytes(scheme, KernelK(c))
    IN  IF Tiled(c)
        THEN region % rec = 0 /\ row = ((region \div rec) \div (blocks * TileN)) * TileN + ((region \div rec) % TileN)
                              /\ kb = ((region \div rec) \div TileN) % blocks
        ELSE IF Separate(c) THEN r.scale = (row * RecordsPerRow(scheme, KernelK(c)) + kb) * rec
        ELSE /\ r.scale \div row_bytes = row
             /\ (r.scale % row_bytes) - ValueBytes(scheme, KernelK(c)) = kb * rec

\* The token, and the 32 columns, whose activation scale a block is times.
HoldsActivationScale(c, block, m, k) ==
    CASE c.x.quant = "none" -> block.xs = NoScale
      [] c.x.quant = "per_token" -> block.xs = m
      [] OTHER -> LET blocks == KernelK(c) \div 32 IN block.xs \div blocks = m /\ block.xs % blocks = k \div 32

\* Every output of an accepted call is the sum over all columns, each once and
\* in ascending order, of the value the file format keeps for that row and
\* column, with the scale record and sub-block of its row and block and the
\* activation scale of its token and block, whatever the kernel, the scheme,
\* the layout and the carrier of the scales.  Buffers laid out by the format
\* are accepted, and only the down projection, which stages its result, finds
\* a buffer short after it has begun.
WeightsDecodeExact ==
    LET c == kernel.call
        row == KernelRow(c, kernel.at)
        blocks == KernelBlocks(c, kernel.at)
    IN  /\ kernel.status = "running" =>
             /\ blocks[1].from = 0
             /\ \A i \in DOMAIN blocks :
                  blocks[i].from + blocks[i].len = IF i = Len(blocks) THEN KernelK(c) ELSE blocks[i + 1].from
             /\ \A i \in DOMAIN blocks : \A k \in blocks[i].from..(blocks[i].from + blocks[i].len - 1) :
                  LET r == KernelRead(c, row, k, blocks[i]) IN
                  /\ HoldsValue(c, r, row, k)
                  /\ KernelScheme(c) # "none" => HoldsRecord(c, r, row, k)
                  /\ KernelScheme(c) = "i4_k" => r.sub = (k % 256) \div 32
                  /\ c.op = "matmul" => HoldsActivationScale(c, blocks[i], kernel.at \div KernelN(c), k)
        /\ kernel.status = "refused" => ~c.packed
        /\ kernel.status = "short" => c.op = "down" /\ ~c.packed
=============================================================================
