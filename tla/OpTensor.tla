------------------------------ MODULE OpTensor ------------------------------
(***************************************************************************)
(* Tensors of the op IR (r9v-ir tensor.rs, numerics.rs) and the checks the *)
(* op validators share (op.rs).  A dimension is an integer: positive for a *)
(* concrete extent, negative for a shape symbol.  A float attribute is a   *)
(* small integer, NonFinite standing for NaN and the infinities.           *)
(***************************************************************************)
EXTENDS Integers, Sequences, FiniteSets

CONSTANT MaxU32          \* the largest u32, lowered in the runs

ASSUME MaxU32Assumption == MaxU32 \in Nat \ {0}

DTypes == {"f32", "f16", "bf16", "e4m3", "e5m2", "i8", "i4", "i32", "u32", "bool"}
Quants == {"None", "PerRow", "PerToken", "PerBlock32", "Scheme"}
Layouts == {"CONTIGUOUS", "L1", "L1S"}
Classes == {"Weight", "Activation", "State", "Staging", "Param"}
Devices == {"dev0", "dev1"}
Placements == Devices \cup {"Host", "Tiered"}
NonFinite == 1000

Concrete(d) == d > 0
Rank(t) == Len(t.sh)
WeightQuants == {"PerRow", "Scheme"}
ActFloats == {"f16", "bf16", "f32"}

\* The combinations of quantisation and element type a tensor may have.
QuantDTypeOK(q, dt) ==
    CASE q = "PerToken" -> dt \in {"i8", "e4m3"}
      [] q = "PerBlock32" -> dt = "i8"
      [] q \in WeightQuants -> dt \notin {"f32", "bf16", "e5m2", "i32", "u32", "bool"}
      [] q = "None" -> dt # "i4"

\* What Tensor::new accepts.
TensorOK(t) ==
    /\ Rank(t) \in 1 .. 4
    /\ \A i \in 1 .. Rank(t) : t.sh[i] # 0
    /\ t.pl \in {"Host", "Tiered"} => t.cl = "Weight"
    /\ t.q \in WeightQuants => t.cl \in {"Weight", "Staging"}
    /\ t.q \in {"PerToken", "PerBlock32"} => t.cl = "Activation"
    /\ t.cl = "Activation" => t.ly = "CONTIGUOUS"
    /\ t.ly \in {"L1", "L1S"} => t.cl = "Weight"
    /\ t.dt = "i4" => t.cl \in {"Weight", "Staging"}
    /\ QuantDTypeOK(t.q, t.dt)

-----------------------------------------------------------------------------
(* Shared checks of the validators. *)

\* Only two concrete or two symbolic extents can disagree.
DimMatch(a, b) == (Concrete(a) <=> Concrete(b)) => a = b

\* A tensor of the given rank, element types and class.
Is(t, rank, dts, cls) == Rank(t) = rank /\ t.dt \in dts /\ t.cl \in cls
Act(t, rank, dts) == Is(t, rank, dts, {"Activation"})
OnDevice(t) == t.pl \in Devices

\* Equal ranks and matching extents.
SameShape(y, x) ==
    /\ Rank(y) = Rank(x)
    /\ \A i \in 1 .. Rank(x) : DimMatch(y.sh[i], x.sh[i])

\* Matching extents on the axes of one set.
SameOn(y, x, axes) == \A i \in axes : DimMatch(y.sh[i], x.sh[i])

FinitePositive(f) == f # NonFinite /\ f > 0
Finite(f) == f # NonFinite

\* An extent that must equal a computed u32 when it is concrete.
ExtentIs(d, n) == Concrete(d) => d = n /\ n <= MaxU32

GemmActivationOperand(t) ==
    CASE t.dt \in {"f16", "bf16"} -> t.q = "None"
      [] t.dt = "i8" -> t.q \in {"PerToken", "PerBlock32"}
      [] t.dt = "e4m3" -> t.q = "PerToken"
      [] OTHER -> FALSE

GemmWeightOperand(t) ==
    CASE t.dt \in {"i4", "i8", "e4m3"} -> t.q \in WeightQuants
      [] t.dt = "f16" -> t.q = "None"
      [] OTHER -> FALSE

-----------------------------------------------------------------------------
(* The numerics contract of a matrix product. *)

NoNumerics == [acc |-> "err", order |-> "err"]

\* The activation and weight operands matmul_numerics has a contract for: a
\* second copy of the operand rules above, kept in another file.
NumericsX(x) ==
    \/ x.dt \in {"f16", "bf16"} /\ x.q = "None"
    \/ x.dt = "i8" /\ x.q \in {"PerToken", "PerBlock32"}
    \/ x.dt = "e4m3" /\ x.q = "PerToken"

NumericsW(w) ==
    \/ w.dt \in {"i4", "i8", "e4m3"} /\ w.q \in {"PerRow", "Scheme"}
    \/ w.dt = "f16" /\ w.q = "None"

MatmulNumerics(x, w) ==
    IF ~NumericsX(x) \/ ~NumericsW(w) THEN NoNumerics
    ELSE [acc |-> IF x.dt = "i8" /\ w.dt \in {"i4", "i8"} THEN "i32" ELSE "f32",
          order |-> IF x.q = "PerBlock32" \/ w.q = "Scheme"
                    THEN "AscendingBlock" ELSE "AscendingK"]
=============================================================================
