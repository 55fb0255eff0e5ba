----------------------------- MODULE GgufReader -----------------------------
(***************************************************************************)
(* What GgufFile::parse makes of a container file (container.rs): the      *)
(* metadata table, the size of every tensor entry and the rules validate   *)
(* applies.  A file is                                                     *)
(*                                                                         *)
(*   version, kvs (sequence of [key, val]), tensors (sequence of           *)
(*   [name, dims, kind, scheme, offset], dims innermost first), len.       *)
(*                                                                         *)
(* A key is a tuple: its name, and for r9v.tensor.* the tensor and the     *)
(* suffix.  A value is [ty, elem, n, s]: its numbers n or its strings s,   *)
(* one unless it is an array.  Problems are not listed: a rule holds or    *)
(* the file is refused.  A size of 0 is an error, since no entry is empty. *)
(***************************************************************************)
EXTENDS TileLayout, SequencesExt

-----------------------------------------------------------------------------
(* The tensor types and the values of the metadata table. *)

\* The types of the wire table that have no repack behaviour.
PlainTypes ==
    [F32 |-> Row(1, 4, "none"), Q8_1 |-> Row(32, 40, "none"), Q8_K |-> Row(256, 292, "none"),
     I8 |-> Row(1, 1, "none"), I16 |-> Row(1, 2, "none"), I32 |-> Row(1, 4, "none"),
     I64 |-> Row(1, 8, "none"), F64 |-> Row(1, 8, "none"), TQ1_0 |-> Row(256, 54, "none"),
     TQ2_0 |-> Row(256, 66, "none"), MXFP4 |-> Row(32, 17, "none"),
     NVFP4 |-> Row(64, 36, "none"), Q1_0 |-> Row(128, 18, "none")]

WireTypes == Ggml \cup DOMAIN PlainTypes

QuantSize(kind) == IF kind \in Ggml THEN GgmlTypes[kind] ELSE PlainTypes[kind]

Product(dims) == FoldLeft(LAMBDA a, b : a * b, 1, dims)

DimsOK(dims) == dims # <<>> /\ \A i \in DOMAIN dims : dims[i] > 0

\* Bytes of a tensor in wire blocks; R9V and unknown types have none.
DataNbytes(kind, dims) ==
    IF /\ kind \in WireTypes
       /\ DimsOK(dims)
       /\ dims[1] % QuantSize(kind).len = 0
    THEN (Product(dims) \div QuantSize(kind).len) * QuantSize(kind).bytes
    ELSE 0

\* Lookups find the first entry of a key, as kv_index does.
Keys(f) == {f.kvs[i].key : i \in DOMAIN f.kvs}

Kv(f, key) == f.kvs[Min({i \in DOMAIN f.kvs : f.kvs[i].key = key})].val

\* Bytes of an encoded value; every string is as long as StrLen.
StrLen == 12

ScalarLen(ty) ==
    CASE ty \in {"u8", "i8", "bool"} -> 1
      [] ty \in {"u16", "i16"} -> 2
      [] ty \in {"u32", "i32", "f32"} -> 4
      [] ty \in {"u64", "i64", "f64"} -> 8
      [] ty = "str" -> 8 + StrLen

EncodedLen(val) ==
    IF val.ty = "array" THEN 12 + ScalarLen(val.elem) * (Len(val.n) + Len(val.s)) ELSE ScalarLen(val.ty)

\* Where the cursor stands after header, metadata and tensor table.
TableEnd(kvs, tensors) ==
    LET kvLen(n, e) == n + 8 + StrLen + 4 + EncodedLen(e.val)
        tiLen(n, t) == n + 8 + StrLen + 4 + 8 * Len(t.dims) + 12
    IN  FoldLeft(tiLen, FoldLeft(kvLen, 24, kvs), tensors)

TensorKey(t, suffix) == <<"r9v.tensor", t.name, suffix>>

\* The file-level keys that only have a type (meta.rs).
MetaFileTypes ==
    [k \in {"r9v.arch_hint", "r9v.quant_tool.version", "r9v.quant_tool.preset",
            "r9v.quant_tool.target", "r9v.calibration.name", "r9v.calibration.hash",
            "r9v.calibration.mix", "r9v.quality.holdout_hash", "r9v.quality.engine_version"} |-> "str"]
    @@ [k \in {"r9v.quant_tool.seed", "r9v.calibration.tokens"} |-> "u64"]
    @@ [k \in {"r9v.smoothing.alpha", "r9v.quality.kl_mean", "r9v.quality.kl_p99",
               "r9v.quality.top1", "r9v.quality.top5", "r9v.quality.ppl"} |-> "f32"]
    @@ ("r9v.smoothing.folded" :> "bool")

R9vKeys == {"r9v.format_version", "r9v.layout_id", "r9v.tensor"} \cup DOMAIN MetaFileTypes

SplitKeys == {"split.no", "split.count", "split.tensors.count"}

\* A key that starts with "split.": one of the three that are read, or any other.
HasSplitDecl(f) == \E k \in Keys(f) : k[1] \in SplitKeys \cup {"split.other"}

IsNative(f) ==
    \/ \E k \in Keys(f) : k[1] \in R9vKeys
    \/ \E i \in DOMAIN f.tensors : f.tensors[i].kind = "R9v"

\* The value of a key is absent or a string of the set.
StrIn(f, key, set) == key \in Keys(f) => Kv(f, key).ty = "str" /\ Kv(f, key).s[1] \in set

-----------------------------------------------------------------------------
(* Per-tensor metadata. *)

RoleSets == {<<"matmul">>, <<"embed">>, <<"lm_head">>, <<"ngram_table">>, <<"vector">>, <<"embed", "lm_head">>}

RolesOK(f, t) ==
    LET key == TensorKey(t, "roles") IN
    key \in Keys(f) => /\ Kv(f, key).ty = "array" /\ Kv(f, key).elem = "str"
                       /\ Kv(f, key).s \in RoleSets

\* No roles are the empty sequence.
Roles(f, t) == IF TensorKey(t, "roles") \in Keys(f) THEN Kv(f, TensorKey(t, "roles")).s ELSE <<>>

\* Declared region offsets must be the derived ones.
RegionsOK(f, t, offsets) ==
    LET key == TensorKey(t, "regions") IN
    key \in Keys(f) =>
        /\ Kv(f, key).ty = "array" /\ Kv(f, key).elem = "u64" /\ Len(Kv(f, key).n) = 3
        /\ LET r == Kv(f, key).n IN r[1] = 0 /\ r[1] <= r[2] /\ r[2] <= r[3] /\ r[2] % 256 = 0
        /\ Kv(f, key).n = offsets

Offsets(r) == <<0, r.scalesAt, r.indicesAt>>

Rows(t) == Product(Tail(t.dims))

\* The spellings of r9v.layout_id.
LayoutNames == [l0 |-> "l0", L0 |-> "l0", l1 |-> "l1", L1 |-> "l1", l1s |-> "l1s", L1S |-> "l1s"]

IsSparse(f, t) == TensorKey(t, "sparse") \in Keys(f) /\ Kv(f, TensorKey(t, "sparse")).s = <<"s24">>

\* The layout of an entry follows its sparsity, its rank and its roles, and
\* without them the file's layout; "none" when the file names none.
LayoutOf(f, t) ==
    CASE IsSparse(f, t) -> "l1s"
      [] Len(t.dims) = 1 -> "l0"
      [] Roles(f, t) = <<"embed", "lm_head">> -> "l1"
      [] Roles(f, t) # <<>> -> IF ToSet(Roles(f, t)) \cap {"embed", "ngram_table", "vector"} # {}
                               THEN "l0" ELSE "l1"
      [] /\ <<"r9v.layout_id">> \in Keys(f)
         /\ Kv(f, <<"r9v.layout_id">>).ty = "str"
         /\ Kv(f, <<"r9v.layout_id">>).s[1] \in DOMAIN LayoutNames
            -> LayoutNames[Kv(f, <<"r9v.layout_id">>).s[1]]
      [] OTHER -> "none"

-----------------------------------------------------------------------------
(* tensor_nbytes. *)

R9vNbytes(f, t) ==
    LET layout == LayoutOf(f, t)
        regions == EntryRegions(t.scheme, layout, Rows(t), t.dims[1])
        ok == /\ StrIn(f, TensorKey(t, "scheme"), {t.scheme})
              /\ StrIn(f, TensorKey(t, "sparse"), {"none", "s24"})
              /\ RolesOK(f, t)
              /\ Len(t.dims) = 1 => ~IsSparse(f, t) /\ Roles(f, t) \in {<<>>, <<"vector">>}
              /\ IsSparse(f, t) => Roles(f, t) \in {<<>>, <<"matmul">>} /\ t.scheme \in SparseSchemes
              /\ layout # "none"
              /\ EntryOK(t.scheme, layout, Rows(t), t.dims[1])
              /\ RegionsOK(f, t, Offsets(regions))
    IN  IF ok THEN regions.entry ELSE 0

\* Entries kept in halves are values only, in rows or in tiles.
HalfEntry(t, layout) ==
    IF layout = "l0" THEN RoundUp(Product(t.dims) * 2, NativeAlignment)
    ELSE RoundUp(ValueRegion(PaddedDims(Rows(t), t.dims[1], 0), 16), NativeAlignment)

RetainedOK(f, t) ==
    /\ TensorKey(t, "scheme") \notin Keys(f)
    /\ StrIn(f, TensorKey(t, "sparse"), {"none"})
    /\ RolesOK(f, t)

HalfNbytes(f, t) ==
    LET layout == LayoutOf(f, t)
        entry == HalfEntry(t, layout)
        ok == /\ RetainedOK(f, t)
              /\ Len(t.dims) = 1 => Roles(f, t) \in {<<>>, <<"vector">>}
              /\ layout \in {"l0", "l1"}
              /\ RegionsOK(f, t, <<0, entry, entry>>)
    IN  IF ok THEN entry ELSE 0

F32Nbytes(f, t) ==
    LET entry == RoundUp(Product(t.dims) * 4, NativeAlignment)
        ok == /\ RetainedOK(f, t)
              /\ Len(t.dims) = 1 /\ Roles(f, t) = <<"vector">>
              /\ RegionsOK(f, t, <<0, entry, entry>>)
    IN  IF ok THEN entry ELSE 0

TensorNbytes(f, t) ==
    CASE ~IsNative(f) -> DataNbytes(t.kind, t.dims)
      [] ~DimsOK(t.dims) -> 0
      [] t.kind = "R9v" -> R9vNbytes(f, t)
      [] t.kind \in {"F16", "BF16"} -> HalfNbytes(f, t)
      [] t.kind = "F32" -> F32Nbytes(f, t)
      [] OTHER -> 0

-----------------------------------------------------------------------------
(* validate. *)

FormatVersion == 1

PowersOfTwo == {2^i : i \in 0..16}

NamesUnique(f) ==
    /\ \A i, j \in DOMAIN f.kvs : f.kvs[i].key = f.kvs[j].key => i = j
    /\ \A i, j \in DOMAIN f.tensors : f.tensors[i].name = f.tensors[j].name => i = j

AlignmentOK(f) ==
    LET key == <<"general.alignment">> IN
    key \in Keys(f) => Kv(f, key).ty = "u32" /\ Kv(f, key).n[1] \in PowersOfTwo

Alignment(f) ==
    IF <<"general.alignment">> \in Keys(f) /\ AlignmentOK(f) THEN Kv(f, <<"general.alignment">>).n[1] ELSE 32

\* What a native file must declare, in the reader's words.
NativeKeysOK(f) ==
    LET v == <<"r9v.format_version">>
        l == <<"r9v.layout_id">>
    IN  /\ {v, l} \subseteq Keys(f)
        /\ Kv(f, v).ty = "u32" /\ Kv(f, v).n[1] <= FormatVersion
        /\ StrIn(f, l, DOMAIN LayoutNames)

\* A file that says anything about its split says all of it.
SplitOK(f) ==
    LET no == <<"split.no">>
        count == <<"split.count">>
        total == <<"split.tensors.count">>
    IN  HasSplitDecl(f) =>
        /\ {no, count, total} \subseteq Keys(f)
        /\ Kv(f, no).ty = "u16" /\ Kv(f, count).ty = "u16" /\ Kv(f, total).ty = "i32"
        /\ Kv(f, no).n[1] < Kv(f, count).n[1]
        /\ Kv(f, total).n[1] >= 0
        /\ IF Kv(f, count).n[1] = 1 THEN Kv(f, no).n[1] = 0 /\ Kv(f, total).n[1] = Len(f.tensors)
           ELSE Len(f.tensors) <= Kv(f, total).n[1]

DataStart(f) == RoundUp(TableEnd(f.kvs, f.tensors), Alignment(f))

\* An explicit size below the data section, or a native file without tensors
\* that ends before it, is refused.
SizeOK(f, size, explicit) ==
    (explicit \/ (IsNative(f) /\ f.tensors = <<>>)) => size >= DataStart(f)

TensorSpan(f, i) ==
    LET start == DataStart(f) + f.tensors[i].offset IN <<start, start + TensorNbytes(f, f.tensors[i])>>

Spans(f) == [i \in DOMAIN f.tensors |-> TensorSpan(f, i)]

\* Spans are visited in order of start, end and row, with the furthest end
\* so far; a span that starts before it is refused.
SpanBefore(a, b) == a[1] < b[1] \/ (a[1] = b[1] /\ (a[2] < b[2] \/ (a[2] = b[2] /\ a[3] < b[3])))

PastMaxEnd(m, span) == [ok |-> m.ok /\ span[1] >= m.max_end, max_end |-> Max({m.max_end, span[2]})]

\* A span without bytes stands for an entry whose size is refused.
RangesOK(f, spans, size) ==
    LET sorted == SortSeq([i \in DOMAIN spans |-> <<spans[i][1], spans[i][2], i>>], SpanBefore)
    IN  /\ \A i \in DOMAIN spans :
            /\ f.tensors[i].offset % Alignment(f) = 0
            /\ spans[i][1] < spans[i][2]
            /\ spans[i][2] <= size
        /\ FoldLeft(PastMaxEnd, [ok |-> TRUE, max_end |-> 0], sorted).ok

\* The entries of a native file follow one another in table order and end
\* with the file.
ExpectedOffset(f, spans, i) ==
    FoldLeft(LAMBDA n, s : n + RoundUp(s[2] - s[1], Alignment(f)), 0, SubSeq(spans, 1, i - 1))

\* Mutant: trailing bytes are not looked at.
SequenceOKOpenEnd(f, spans, size) ==
    \A i \in DOMAIN f.tensors : f.tensors[i].offset = ExpectedOffset(f, spans, i)

SequenceOK(f, spans, size) ==
    /\ \A i \in DOMAIN f.tensors : f.tensors[i].offset = ExpectedOffset(f, spans, i)
    /\ size <= DataStart(f) + ExpectedOffset(f, spans, Len(f.tensors) + 1)

SpansOK(f, spans, size) ==
    /\ RangesOK(f, spans, size)
    /\ IsNative(f) => Alignment(f) = NativeAlignment /\ NativeKeysOK(f) /\ SequenceOK(f, spans, size)

ValidateOK(f, size, explicit) ==
    /\ NamesUnique(f) /\ AlignmentOK(f) /\ SplitOK(f)
    /\ SizeOK(f, size, explicit)
    /\ SpansOK(f, Spans(f), size)

\* parse reads the table from the bytes there are and takes their number as
\* the size; parse_metadata_only is given the size.
ParseOK(f, bytes, size, explicit) ==
    /\ f.version \in {2, 3}
    /\ TableEnd(f.kvs, f.tensors) <= bytes
    /\ ValidateOK(f, size, explicit)

\* The slice tensor_bytes returns for a name, <<0, 0>> for an error.
TensorBytes(f, name, bytes) ==
    LET rows == {i \in DOMAIN f.tensors : f.tensors[i].name = name}
        in(i, s) == f.tensors[i].offset % Alignment(f) = 0 /\ s[1] < s[2] /\ s[2] <= bytes
        slice(i, s) == IF in(i, s) THEN s ELSE <<0, 0>>
    IN  IF rows = {} THEN <<0, 0>> ELSE slice(Min(rows), TensorSpan(f, Min(rows)))

-----------------------------------------------------------------------------
(* parse_r9v_meta (meta.rs), for a file that parsed. *)

\* The keys with a fixed vocabulary and the ones that only have a type.
MetaNames ==
    [act |-> {"i8/PerToken", "i8/PerBlock32", "e4m3/PerToken", "f16/None"},
     interleave |-> {"none", "gate_up", "qkv"}, sparse |-> {"none", "s24"},
     placement_hint |-> {"device", "host", "tiered"}, residency_unit |-> {"tensor", "expert", "row"},
     scheme |-> DOMAIN Schemes]

MetaTypes == [xxh3 |-> "u64", eps_int4 |-> "f32", eps_int8 |-> "f32"]

MetaValueOK(suffix, val) ==
    CASE suffix \in DOMAIN MetaNames -> val.ty = "str" /\ val.s[1] \in MetaNames[suffix]
      [] suffix \in DOMAIN MetaTypes -> val.ty = MetaTypes[suffix]
      [] suffix = "roles" -> val.ty = "array" /\ val.elem = "str" /\ val.s \in RoleSets
      [] suffix = "regions" ->
            /\ val.ty = "array" /\ val.elem = "u64" /\ Len(val.n) = 3
            /\ val.n[1] = 0 /\ val.n[1] <= val.n[2] /\ val.n[2] <= val.n[3] /\ val.n[2] % 256 = 0
      [] suffix = "hot_hint" -> val.ty = "array" /\ val.elem = "f32"

\* A suffix outside this set is ignored.
MetaSuffixes == DOMAIN MetaNames \cup DOMAIN MetaTypes \cup {"roles", "regions", "hot_hint"}

\* File-level keys: the required two, and the type of the others.
MetaFileOK(f) ==
    /\ Alignment(f) = NativeAlignment /\ NativeKeysOK(f)
    /\ \A k \in DOMAIN MetaFileTypes : <<k>> \in Keys(f) => Kv(f, <<k>>).ty = MetaFileTypes[k]

\* What the table says of a tensor against its type.
MetaTensorOK(f, t) ==
    CASE t.kind = "R9v" -> StrIn(f, TensorKey(t, "scheme"), {t.scheme})
      [] t.kind \in {"F16", "BF16"} -> TensorKey(t, "scheme") \notin Keys(f)
      [] t.kind = "F32" -> /\ Len(t.dims) = 1
                           /\ TensorKey(t, "scheme") \notin Keys(f)
                           /\ Roles(f, t) = <<"vector">>
      [] OTHER -> FALSE

ParseMetaOK(f) ==
    IsNative(f) =>
        /\ MetaFileOK(f)
        /\ \A i \in DOMAIN f.kvs :
            LET k == f.kvs[i].key IN
            (k[1] = "r9v.tensor" /\ k[3] \in MetaSuffixes) =>
                                   /\ \E j \in DOMAIN f.tensors : f.tensors[j].name = k[2]
                                   /\ MetaValueOK(k[3], f.kvs[i].val)
        /\ \A i \in DOMAIN f.tensors : MetaTensorOK(f, f.tensors[i])
=============================================================================
