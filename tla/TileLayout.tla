----------------------------- MODULE TileLayout -----------------------------
(***************************************************************************)
(* The tables of the 21 ggml block types and of the 22 weight schemes      *)
(* (ggml.rs, scheme.rs, geometry.rs, iq.rs), the tiles weights are laid    *)
(* out in (layout.rs, permute.rs, sparse.rs) and the regions of a tensor's *)
(* entry in the file (entry_regions of container.rs).                      *)
(***************************************************************************)
EXTENDS Integers, Sequences, FiniteSets

-----------------------------------------------------------------------------
(* The type tables. *)

\* Block length, block bytes and the scheme of each ggml type.
Row(len, bytes, scheme) == [len |-> len, bytes |-> bytes, scheme |-> scheme]

GgmlTypes ==
    [F16 |-> Row(1, 2, "none"), BF16 |-> Row(1, 2, "none"),
     Q4_0 |-> Row(32, 18, "i4_b32f"), Q4_1 |-> Row(32, 20, "i4_b32fm"),
     Q5_0 |-> Row(32, 22, "i5_b32f"), Q5_1 |-> Row(32, 24, "i5_b32fm"),
     Q8_0 |-> Row(32, 34, "i8_b32f"), Q2_K |-> Row(256, 84, "i2_k"),
     Q3_K |-> Row(256, 110, "i3_k"), Q4_K |-> Row(256, 144, "i4_k"),
     Q5_K |-> Row(256, 176, "i5_k"), Q6_K |-> Row(256, 210, "i6_k"),
     IQ4_NL |-> Row(32, 18, "i4_nl"), IQ4_XS |-> Row(256, 136, "i4_xs"),
     IQ3_XXS |-> Row(256, 98, "iq3_xxs"), IQ3_S |-> Row(256, 110, "iq3_s"),
     IQ2_XXS |-> Row(256, 66, "iq2_xxs"), IQ2_XS |-> Row(256, 74, "iq2_xs"),
     IQ2_S |-> Row(256, 82, "iq2_s"), IQ1_S |-> Row(256, 50, "iq1_s"),
     IQ1_M |-> Row(256, 56, "iq1_m")]

Ggml == DOMAIN GgmlTypes

BlockLen(g) == GgmlTypes[g].len

BlockBytes(g) == GgmlTypes[g].bytes

\* Zero stands for None: the halves have no superblock.
SuperblockK(g) == IF g \in {"F16", "BF16"} THEN 0 ELSE BlockLen(g)

\* Record bytes, outer block (0: the whole row), bits of a packed value and
\* wire bits of a block (0: by the formula of bits_per_weight).
Scheme(rec, outer, bits, wirebits) ==
    [rec |-> rec, outer |-> outer, bits |-> bits, wirebits |-> wirebits]

Schemes ==
    [i8_r |-> Scheme(2, 0, 8, 0), i8_b128 |-> Scheme(2, 128, 8, 1040),
     e4m3_b128 |-> Scheme(2, 128, 8, 1040), i4_k |-> Scheme(16, 256, 4, 1152),
     i8_b32f |-> Scheme(2, 32, 8, 272), i4_b32f |-> Scheme(2, 32, 4, 144),
     i4_b32fm |-> Scheme(4, 32, 4, 160), i5_b32f |-> Scheme(2, 32, 5, 176),
     i5_b32fm |-> Scheme(4, 32, 5, 192), i4_nl |-> Scheme(2, 32, 4, 144),
     i5_k |-> Scheme(16, 256, 5, 1408), i6_k |-> Scheme(18, 256, 6, 1680),
     i3_k |-> Scheme(14, 256, 3, 880), i2_k |-> Scheme(20, 256, 2, 672),
     i4_xs |-> Scheme(8, 256, 4, 1088), iq3_xxs |-> Scheme(34, 256, 8, 784),
     iq3_s |-> Scheme(46, 256, 8, 880), iq2_xxs |-> Scheme(2, 256, 8, 528),
     iq2_xs |-> Scheme(10, 256, 8, 592), iq2_s |-> Scheme(50, 256, 8, 656),
     iq1_s |-> Scheme(18, 256, 8, 400), iq1_m |-> Scheme(24, 256, 8, 448)]

\* Weights per stored index of the iq schemes (1 for every other scheme).
IndexGranularity(scheme) ==
    CASE scheme \in {"iq3_xxs", "iq3_s", "iq2_xxs", "iq2_xs"} -> 4
      [] scheme \in {"iq2_s", "iq1_s", "iq1_m"} -> 8
      [] OTHER -> 1

\* Bytes of one row in the L0 layout; k must be whole blocks.
RowBytes(scheme, k) ==
    IF scheme = "i8_r" THEN (8 * k + 16) \div 8
    ELSE ((k \div Schemes[scheme].outer) * Schemes[scheme].wirebits) \div 8

RowOK(scheme, k) == k > 0 /\ (scheme # "i8_r" => k % Schemes[scheme].outer = 0)

-----------------------------------------------------------------------------
(* Tiles (layout.rs, permute.rs). *)

TileN == 16
TileK == 16
LaneK == 8
ElemsPerTile == TileN * TileK
LanesPerTile == ElemsPerTile \div LaneK

RoundUp(x, a) == ((x + a - 1) \div a) * a

PaddedDims(n, k, superblock) ==
    [n |-> n, k |-> k, np |-> RoundUp(n, TileN),
     kp |-> RoundUp(k, IF superblock = 0 THEN TileK ELSE superblock)]

KTiles(d) == d.kp \div TileK

TileCount(d) == (d.np \div TileN) * KTiles(d)

Elems(d) == d.np * d.kp

L1Forward(n, k, d) ==
    LET tile == (n \div TileN) * KTiles(d) + k \div TileK
        lane == ((k % TileK) \div LaneK) * TileN + (n % TileN)
    IN  tile * ElemsPerTile + lane * LaneK + (k % LaneK)

L1Inverse(pos, d) ==
    LET tile == pos \div ElemsPerTile
        lane == (pos % ElemsPerTile) \div LaneK
    IN  <<(tile \div KTiles(d)) * TileN + (lane % TileN),
          (tile % KTiles(d)) * TileK + (lane \div TileN) * LaneK + (pos % LaneK)>>

\* Bytes of a value region of the given bits per value.
LaneBytes(bits) == bits

ValueRegion(d, bits) == TileCount(d) * LaneBytes(bits) * LanesPerTile

\* The bit of a packed lane in which bit b of its element j is kept: pairs
\* of nibbles, whole bytes, halves, or planes of 2, 3, 5 or 6 bits.
LaneBit(bits, j, b) ==
    CASE bits = 4 -> 8 * (j \div 2) + 4 * (j % 2) + b
      [] bits = 8 -> 8 * j + b
      [] bits = 16 -> 16 * j + b
      [] OTHER -> j * bits + b

\* The two index bits of each kept value of a 2:4 sparse lane.
SparseIndexBytesPerTile == 64

SparseIndexBit(m, b) == 2 * m + b

\* The columns a sparse value region keeps: half of them, in half a superblock.
L1sOK(k, superblock) == k % 2 = 0 /\ superblock % 32 = 0

L1sValueDims(n, k, superblock) == PaddedDims(n, k \div 2, superblock \div 2)

\* Scale records: one per row of a tile row and outer block.
OuterBlock(scheme, d) == IF Schemes[scheme].outer = 0 THEN d.kp ELSE Schemes[scheme].outer

KBlocks(scheme, d) == d.kp \div OuterBlock(scheme, d)

ScaleRecords(scheme, d) == (d.np \div TileN) * KBlocks(scheme, d) * TileN

RecordAt(scheme, d, row, kb) ==
    ((row \div TileN) * KBlocks(scheme, d) + kb) * TileN + (row % TileN)

-----------------------------------------------------------------------------
(* The entry of a tensor in the file (entry_regions). *)

NativeAlignment == 4096
ScaleAlign == 256

SparseSchemes == {"i8_r", "i8_b128", "i4_k", "e4m3_b128"}

\* What the value region of a tiled entry holds: for the index schemes one
\* byte per index, for a sparse entry half the columns.
EntryValueDims(scheme, layout, n, k) ==
    IF layout = "l1s" THEN L1sValueDims(n, k, Schemes[scheme].outer)
    ELSE IF IndexGranularity(scheme) > 1 THEN PaddedDims(n, k \div IndexGranularity(scheme), 0)
    ELSE PaddedDims(n, k, Schemes[scheme].outer)

EntryOK(scheme, layout, n, k) ==
    /\ n > 0 /\ k > 0
    /\ layout = "l0" => RowOK(scheme, k)
    /\ layout = "l1s" => scheme \in SparseSchemes /\ L1sOK(k, Schemes[scheme].outer)
    /\ layout = "l1" => k % IndexGranularity(scheme) = 0

\* Mutant: the scales of a sparse entry follow the values it keeps.
ScaleBytesKept(scheme, layout, n, k) ==
    ScaleRecords(scheme, EntryValueDims(scheme, layout, n, k)) * Schemes[scheme].rec

\* The scale region follows the weights the tensor stands for, not the
\* values it keeps.
ScaleBytes(scheme, layout, n, k) ==
    ScaleRecords(scheme, PaddedDims(n, k, Schemes[scheme].outer)) * Schemes[scheme].rec

EntryRegions(scheme, layout, n, k) ==
    IF layout = "l0"
    THEN LET entry == RoundUp(n * RowBytes(scheme, k), NativeAlignment) IN
         [values |-> n * RowBytes(scheme, k), scalesAt |-> entry, scales |-> 0,
          indicesAt |-> entry, indices |-> 0, entry |-> entry]
    ELSE LET vd == EntryValueDims(scheme, layout, n, k)
             values == ValueRegion(vd, Schemes[scheme].bits)
             scales == ScaleBytes(scheme, layout, n, k)
             indices == IF layout = "l1s" THEN TileCount(vd) * SparseIndexBytesPerTile ELSE 0
             scalesAt == RoundUp(values, ScaleAlign)
             entry == RoundUp(scalesAt + scales + indices, NativeAlignment)
         IN  [values |-> values, scalesAt |-> scalesAt, scales |-> scales,
              indicesAt |-> IF layout = "l1s" THEN scalesAt + scales ELSE entry,
              indices |-> indices, entry |-> entry]
=============================================================================
