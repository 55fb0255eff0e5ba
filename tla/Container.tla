----------------------------- MODULE Container ------------------------------
(***************************************************************************)
(* GgufWriter (add_kv, add_tensor, emit) against the reader of GgufReader, *)
(* over files other tools wrote, truncated or edited, and ShardSet::open   *)
(* over several files (container.rs).                                      *)
(***************************************************************************)
EXTENDS GgufReader

CONSTANTS KvArgs,       \* arguments of add_kv: [key, val]
          TensorArgs,   \* arguments of add_tensor: [name, dims, kind, scheme, len]
          Alignments,   \* arguments of with_alignment
          MaxKvs,       \* add_kv calls after the preamble
          MaxTensors,
          ShardFiles,   \* files a shard set is made of
          MaxShards

VARIABLES writer,       \* [alignment, kvs, tensors, added]
          file,         \* the emitted file, or NoFile
          edited,       \* another tool changed the file
          verdict,      \* of the last parse: "none", "accepted", "refused"
          shards        \* files given to ShardSet::open

containerVars == <<writer, file, edited, verdict, shards>>

NoFile == [version |-> 0, kvs |-> <<>>, tensors |-> <<>>, len |-> 0]

-----------------------------------------------------------------------------
(* The writer. *)

WithAlignment(a) ==
    /\ file = NoFile /\ writer.tensors = <<>>
    /\ a \in PowersOfTwo /\ a # writer.alignment
    /\ writer' = [writer EXCEPT !.alignment = a]
    /\ UNCHANGED <<file, edited, verdict, shards>>

\* Items of an array have its element type, which is no array.
AddKv(e) ==
    /\ file = NoFile /\ writer.added < MaxKvs
    /\ e.key \notin Keys(writer)
    /\ e.val.ty = "array" => e.val.elem # "array"
    /\ writer' = [writer EXCEPT !.kvs = Append(@, e), !.added = @ + 1]
    /\ UNCHANGED <<file, edited, verdict, shards>>

\* The lengths add_tensor accepts, before it is known whether the file is
\* native and how the tensor is laid out.
LengthOK(t) ==
    LET wire == DataNbytes(t.kind, t.dims) IN
    CASE t.kind = "R9v" -> t.len > 0 /\ t.len % NativeAlignment = 0
      [] t.kind \in {"F16", "BF16"} -> wire > 0 /\ t.len \in {wire, HalfEntry(t, "l0"), HalfEntry(t, "l1")}
      [] t.kind = "F32" -> /\ wire > 0
                           /\ \/ t.len = wire
                              \/ Len(t.dims) = 1 /\ t.len = RoundUp(wire, NativeAlignment)
      [] OTHER -> wire > 0 /\ t.len = wire

AddTensor(t) ==
    /\ file = NoFile /\ Len(writer.tensors) < MaxTensors
    /\ \A i \in DOMAIN writer.tensors : writer.tensors[i].name # t.name
    /\ DimsOK(t.dims) /\ LengthOK(t)
    /\ writer' = [writer EXCEPT !.tensors = Append(@, t)]
    /\ UNCHANGED <<file, edited, verdict, shards>>

\* emit derives the length of every native entry again, from the writer's own
\* tables.
WriterLayout(w, t) ==
    CASE IsSparse(w, t) -> "l1s"
      [] Len(t.dims) = 1 -> "l0"
      [] Roles(w, t) = <<"embed", "lm_head">> -> "l1"
      [] \E i \in DOMAIN Roles(w, t) : Roles(w, t)[i] \in {"embed", "ngram_table", "vector"} -> "l0"
      [] Roles(w, t) # <<>> -> "l1"
      [] OTHER -> LayoutNames[Kv(w, <<"r9v.layout_id">>).s[1]]

EmitR9v(w, t) ==
    LET layout == WriterLayout(w, t)
        r == EntryRegions(t.scheme, layout, Rows(t), t.dims[1])
    IN  /\ StrIn(w, TensorKey(t, "scheme"), {t.scheme})
        /\ StrIn(w, TensorKey(t, "sparse"), {"none", "s24"})
        /\ RolesOK(w, t)
        /\ Len(t.dims) = 1 => ~IsSparse(w, t) /\ Roles(w, t) \in {<<>>, <<"vector">>}
        /\ IsSparse(w, t) => Roles(w, t) \in {<<>>, <<"matmul">>} /\ t.scheme \in SparseSchemes
        /\ EntryOK(t.scheme, layout, Rows(t), t.dims[1])
        /\ RegionsOK(w, t, Offsets(r))
        /\ t.len = r.entry

EmitHalf(w, t) ==
    LET entry == HalfEntry(t, WriterLayout(w, t)) IN
    /\ RetainedOK(w, t)
    /\ Len(t.dims) = 1 => Roles(w, t) \in {<<>>, <<"vector">>}
    /\ WriterLayout(w, t) # "l1s"
    /\ RegionsOK(w, t, <<0, entry, entry>>)
    /\ t.len = entry

EmitF32(w, t) ==
    LET entry == RoundUp(t.dims[1] * 4, NativeAlignment) IN
    /\ RetainedOK(w, t)
    /\ Len(t.dims) = 1 /\ Roles(w, t) = <<"vector">>
    /\ RegionsOK(w, t, <<0, entry, entry>>)
    /\ t.len = entry

EmitTensorOK(w, t) ==
    CASE t.kind = "R9v" -> EmitR9v(w, t)
      [] t.kind \in {"F16", "BF16"} -> EmitHalf(w, t)
      [] t.kind = "F32" -> EmitF32(w, t)
      [] OTHER -> FALSE

EmitOK(w) ==
    IF IsNative(w)
    THEN /\ w.alignment = NativeAlignment
         /\ NativeKeysOK(w)
         /\ \A i \in DOMAIN w.tensors : EmitTensorOK(w, w.tensors[i])
    ELSE \A i \in DOMAIN w.tensors :
            LET t == w.tensors[i] IN DataNbytes(t.kind, t.dims) \in {0, t.len}

\* Mutant: offsets advance by the bare size.
EmitOffsetUnpadded(w, i) == FoldLeft(LAMBDA n, t : n + t.len, 0, SubSeq(w.tensors, 1, i - 1))

\* Offsets advance by padded sizes.
EmitOffset(w, i) ==
    FoldLeft(LAMBDA n, t : n + RoundUp(t.len, w.alignment), 0, SubSeq(w.tensors, 1, i - 1))

EmitStart(w) == RoundUp(TableEnd(w.kvs, w.tensors), w.alignment)

\* Where emit put the bytes of the i-th tensor: each after the padding of the
\* one before.
WrittenAt(w, i) ==
    LET start == FoldLeft(LAMBDA n, t : n + RoundUp(t.len, w.alignment), EmitStart(w),
                          SubSeq(w.tensors, 1, i - 1))
    IN  <<start, start + w.tensors[i].len>>

EmittedFile(w) ==
    [version |-> 3, kvs |-> w.kvs,
     tensors |-> [i \in DOMAIN w.tensors |->
                    LET t == w.tensors[i] IN
                    [name |-> t.name, dims |-> t.dims, kind |-> t.kind, scheme |-> t.scheme,
                     offset |-> EmitOffset(w, i)]],
     len |-> IF w.tensors = <<>> THEN EmitStart(w)
             ELSE RoundUp(WrittenAt(w, Len(w.tensors))[2] - EmitStart(w), w.alignment) + EmitStart(w)]

Emit ==
    /\ file = NoFile /\ EmitOK(writer)
    /\ file' = EmittedFile(writer)
    /\ UNCHANGED <<writer, edited, verdict, shards>>

-----------------------------------------------------------------------------
(* Other tools, and the reader. *)

\* Lengths a copy that stopped or went on too long can have.
CutPoints(f) ==
    {23, TableEnd(f.kvs, f.tensors) - 1, TableEnd(f.kvs, f.tensors), DataStart(f), f.len - 1, f.len + 1,
     f.len + 4096} \cup {TensorSpan(f, i)[2] - 1 : i \in DOMAIN f.tensors}

EditedFiles(f) ==
    {[f EXCEPT !.len = n] : n \in CutPoints(f)}
    \cup {[f EXCEPT !.version = v] : v \in {1, 2}}
    \cup {[f EXCEPT !.kvs = RemoveAt(@, i)] : i \in DOMAIN f.kvs}
    \cup {[f EXCEPT !.kvs = Append(@, @[i])] : i \in DOMAIN f.kvs}
    \cup {[f EXCEPT !.tensors = Append(@, @[i])] : i \in DOMAIN f.tensors}
    \cup {[f EXCEPT !.tensors = Reverse(@)]}
    \cup {[f EXCEPT !.tensors[i].offset = @ + d] : i \in DOMAIN f.tensors, d \in {16, 32, 4096}}
    \cup {[f EXCEPT !.tensors[i].offset = 0] : i \in DOMAIN f.tensors}
    \cup {[f EXCEPT !.tensors[i].dims = <<0>>] : i \in DOMAIN f.tensors}
    \cup {[f EXCEPT !.tensors[i].kind = "Unknown"] : i \in DOMAIN f.tensors}

EditFile ==
    /\ file # NoFile /\ ~edited /\ verdict = "none"
    /\ file' \in EditedFiles(file) \ {file}
    /\ edited' = TRUE
    /\ UNCHANGED <<writer, verdict, shards>>

Parse ==
    /\ file # NoFile /\ verdict = "none"
    /\ verdict' = IF ParseOK(file, file.len, file.len, FALSE) THEN "accepted" ELSE "refused"
    /\ UNCHANGED <<writer, file, edited, shards>>

\* The table alone is read, and the size is the caller's.
ParseMetadataOnly ==
    /\ file # NoFile /\ verdict = "none"
    /\ verdict' = IF ParseOK(file, TableEnd(file.kvs, file.tensors), file.len, TRUE)
                  THEN "accepted" ELSE "refused"
    /\ UNCHANGED <<writer, file, edited, shards>>

ContainerNext ==
    \/ \E a \in Alignments : WithAlignment(a)
    \/ \E e \in KvArgs : AddKv(e)
    \/ \E t \in TensorArgs : AddTensor(t)
    \/ Emit
    \/ EditFile
    \/ Parse
    \/ ParseMetadataOnly

-----------------------------------------------------------------------------
(* ShardSet::open. *)

OpenOK(s) ==
    /\ s # <<>>
    /\ \A i, j \in DOMAIN s : i # j => {t.name : t \in ToSet(s[i].tensors)}
                                        \cap {t.name : t \in ToSet(s[j].tensors)} = {}
    /\ (Len(s) > 1 \/ \E i \in DOMAIN s : HasSplitDecl(s[i])) =>
        \A i \in DOMAIN s :
            /\ {<<k>> : k \in SplitKeys} \subseteq Keys(s[i])
            /\ Kv(s[i], <<"split.count">>).ty = "u16" /\ Kv(s[i], <<"split.no">>).ty = "u16"
            /\ Kv(s[i], <<"split.tensors.count">>).ty = "i32"
            /\ Kv(s[i], <<"split.count">>).n = <<Len(s)>>
            /\ Kv(s[i], <<"split.no">>).n = <<i - 1>>
            /\ Kv(s[i], <<"split.tensors.count">>).n =
                    <<FoldLeft(LAMBDA n, f : n + Len(f.tensors), 0, s)>>

\* The merged table: <<shard, row>> in shard order.
MergedOrder(s) ==
    FoldLeft(LAMBDA o, i : o \o [j \in 1..Len(s[i].tensors) |-> <<i, j>>], <<>>, [i \in DOMAIN s |-> i])

\* The first shard that has the name.
FindTensor(s, name) ==
    LET i == Min({x \in DOMAIN s : \E j \in DOMAIN s[x].tensors : s[x].tensors[j].name = name}) IN
    <<i, Min({j \in DOMAIN s[i].tensors : s[i].tensors[j].name = name})>>

\* The caller collects parsed shards and opens them in that order.
AddShard(f) ==
    /\ Len(shards) < MaxShards
    /\ ParseOK(f, f.len, f.len, FALSE)
    /\ shards' = Append(shards, f)
    /\ UNCHANGED <<writer, file, edited, verdict>>

ShardNext == \E f \in ShardFiles : AddShard(f)

-----------------------------------------------------------------------------
(* Properties. *)

\* The writer's tables say what emit does: the declared alignment is the one
\* emit pads to, and the split keys describe the file.  emit checks neither.
Consistent(w) == AlignmentOK(w) /\ Alignment(w) = w.alignment /\ SplitOK(w)

\* A file emit wrote is accepted by both parses and each tensor is read back
\* from the bytes it was written to; and emit refuses a native table of whole
\* pages exactly when the reader would refuse the file: the two derivations of layouts,
\* entry lengths and offsets (emit, tensor_nbytes) agree.
EmittedReadsBack ==
    Consistent(writer) =>
        /\ (file # NoFile /\ ~edited) =>
            /\ verdict # "refused"
            /\ \A i \in DOMAIN writer.tensors :
                TensorBytes(file, writer.tensors[i].name, file.len) = WrittenAt(writer, i)
        /\ (/\ file = NoFile /\ IsNative(writer)
            /\ \A i \in DOMAIN writer.tensors : writer.tensors[i].len % NativeAlignment = 0) =>
            LET f == EmittedFile(writer) IN EmitOK(writer) = ParseOK(f, f.len, f.len, FALSE)

\* A file the reader accepts, whoever wrote it: tensors lie in the data
\* section, on their alignment and clear of one another, and the entries of a
\* native file fill it to the last byte, so a copy that lost or gained bytes
\* is refused.
RangesSound ==
    (verdict = "accepted") =>
        \E spans \in {Spans(file)} :
            /\ \A i \in DOMAIN spans :
                LET s == spans[i] IN
                DataStart(file) <= s[1] /\ s[1] < s[2] /\ s[2] <= file.len /\ s[1] % Alignment(file) = 0
            /\ \A i, j \in DOMAIN spans : i # j => spans[i][2] <= spans[j][1] \/ spans[j][2] <= spans[i][1]
            /\ IsNative(file) =>
                FoldLeft(LAMBDA n, s : n + s[2] - s[1], DataStart(file), spans) = file.len

\* parse_r9v_meta reads again what parse has checked; it refuses an accepted
\* file only for a key parse does not look at.
MetaAgrees ==
    (verdict = "accepted" /\ IsNative(file)) =>
        (ParseMetaOK(file) <=>
            /\ \A k \in DOMAIN MetaFileTypes : <<k>> \in Keys(file) => Kv(file, <<k>>).ty = MetaFileTypes[k]
            /\ \A i \in DOMAIN file.kvs :
                LET k == file.kvs[i].key IN
                (k[1] = "r9v.tensor" /\ k[3] \in MetaSuffixes) =>
                    /\ \E j \in DOMAIN file.tensors : file.tensors[j].name = k[2]
                    /\ k[3] \notin {"roles", "regions", "scheme", "sparse"} =>
                            MetaValueOK(k[3], file.kvs[i].val))

\* An opened shard set: every shard is in its declared place, each name is in
\* one shard and found there, and the merged table has the declared length.
ShardsSound ==
    OpenOK(shards) =>
        /\ \A i \in DOMAIN MergedOrder(shards) :
            LET at == MergedOrder(shards)[i] IN FindTensor(shards, shards[at[1]].tensors[at[2]].name) = at
        /\ Len(shards) > 1 =>
            \A i \in DOMAIN shards :
                /\ Kv(shards[i], <<"split.no">>).n = <<i - 1>>
                /\ Kv(shards[i], <<"split.tensors.count">>).n = <<Len(MergedOrder(shards))>>

\* What the reader accepts is sound: ranges, metadata and shard sets.
AcceptedIsSound == RangesSound /\ MetaAgrees /\ ShardsSound
=============================================================================
