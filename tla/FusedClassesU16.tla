--------------------------- MODULE FusedClassesU16 -------------------------
(***************************************************************************)
(* The classes of fused codecs, as records for FusedSumU16.  The collection*)
(* builds one object for each window, anchor layout and way to add up; the *)
(* last fused delta and FoR classes of simdcomp and FastPFor are kept in   *)
(* the code for experiments.  "shuf" chooses other instructions for the    *)
(* same lanes and is no field of its own.                                  *)
(***************************************************************************)
EXTENDS FusedSumU16

CONSTANTS Lanes128, Lanes256,   \* 8 and 16 words in a register
          OutRegs,              \* 16 registers in a packed block
          Windows,              \* 4, 8, 16, 32, 64, 128, 256 words
          OuterWindows          \* 128 and 256 words

ASSUME LanesAssumption ==
  /\ Lanes128 \in Nat \ {0} /\ Lanes256 \in Nat \ {0} /\ OutRegs \in Nat \ {0}

kBlk128 == OutRegs * Lanes128
kBlk256 == OutRegs * Lanes256

\* All are powers of two: a window is whole packed blocks, or whole registers
\* and a part of a block, or a part of a register.
ASSUME WindowsAssumption ==
  /\ OuterWindows \subseteq Nat \ {0}
  /\ \A w \in Windows, lanes \in {Lanes128, Lanes256} :
       /\ w \in Nat \ {0}
       /\ \/ w % (OutRegs * lanes) = 0
          \/ (OutRegs * lanes) % w = 0 /\ w % lanes = 0
          \/ lanes % w = 0

Plain(lanes) ==
  [kBlk |-> OutRegs * lanes, lanes |-> lanes, window |-> OutRegs * lanes,
   outer |-> OutRegs * lanes, anchors |-> "none", ahead |-> FALSE, delta |-> "none",
   pfor |-> FALSE, agg |-> "unpack", gate |-> "none", nobc |-> FALSE, scratch |-> "none"]

SimdCompFusedCodecU16     == [Plain(Lanes256) EXCEPT !.agg = "madd", !.gate = "values"]
SimdCompFusedCodecU16_128 == [Plain(Lanes128) EXCEPT !.agg = "madd", !.gate = "values"]

SimdCompFusedDeltaLocalCodecU16 == [Plain(Lanes256) EXCEPT !.delta = "local"]
SimdCompFusedDeltaCarryCodecU16 == [Plain(Lanes256) EXCEPT !.delta = "carry"]

\* Packed block and window are the same W words.
SimdCompFusedForGlobalCodecU16(W) ==
  [Plain(Lanes256) EXCEPT !.kBlk = W, !.window = W, !.anchors = "raw"]

SimdCompFusedForLocalCodecU16 ==
  [Plain(Lanes256) EXCEPT !.window = Lanes256, !.anchors = "raw"]

\* Distances in vectors of the call, unpacked before the residuals.
SimdCompFusedForHierarchicalCodecU16 ==
  [Plain(Lanes256) EXCEPT !.window = Lanes256, !.anchors = "hier", !.ahead = TRUE]

FusedFor(lanes, w, sep, agg, nobc, scratch) ==
  [Plain(lanes) EXCEPT !.window = w, !.anchors = IF sep THEN "raw" ELSE "packed",
                       !.agg = agg, !.gate = "values", !.nobc = nobc, !.scratch = scratch]

SimdCompFusedForCodecU16_128(w, sep, agg, nobc) == FusedFor(Lanes128, w, sep, agg, nobc, "w128")
SimdCompFusedForCodecU16_256(w, sep, agg, nobc) == FusedFor(Lanes256, w, sep, agg, nobc, "w256")

Hierarchical(lanes, W, w, agg, scratch) ==
  [FusedFor(lanes, w, FALSE, agg, FALSE, scratch) EXCEPT !.outer = W, !.anchors = "hier"]

SimdCompFusedForHierarchicalCodecU16_128(W, w, agg) == Hierarchical(Lanes128, W, w, agg, "w128")
SimdCompFusedForHierarchicalCodecU16_256(W, w, agg) == Hierarchical(Lanes256, W, w, agg, "w256")

\* (Mutant: nobc tests the words that were put in, bc the residuals.)
GateSwapped(c, nobc) ==
  [c EXCEPT !.pfor = TRUE, !.ahead = TRUE, !.nobc = nobc,
            !.gate = IF nobc THEN "values" ELSE "residuals"]

\* TurboPFor unpacks all anchors first; nobc aggregates residuals only, and
\* tests only them.
Turbo(c, nobc) ==
  [c EXCEPT !.pfor = TRUE, !.ahead = TRUE, !.nobc = nobc,
            !.gate = IF nobc THEN "residuals" ELSE "values"]

TurboPForFusedForCodecU16(w, sep, agg, nobc) ==
  Turbo(SimdCompFusedForCodecU16_256(w, sep, agg, nobc), nobc)
TurboPForFusedForHierarchicalCodecU16(W, w, agg, nobc) ==
  Turbo(SimdCompFusedForHierarchicalCodecU16_256(W, w, agg), nobc)

TurboPForFusedCodecU16    == [Plain(Lanes128) EXCEPT !.pfor = TRUE]
TurboPForFused256CodecU16 == [Plain(Lanes256) EXCEPT !.pfor = TRUE]

\* "madd assumes madd-safe data ... not gated (benchmark variant)"
TurboPForFused256VariantCodecU16(agg) == [TurboPForFused256CodecU16 EXCEPT !.agg = agg]

\* The blocks of FastPFor are as wide as SIMDPForU16::BlockSize, or, with
\* adaptive_b, as the window.
FastPForFusedCodecU16 == [Plain(Lanes256) EXCEPT !.pfor = TRUE]
FastPForFusedCorrectedCodecU16(windowSize) ==
  [FastPForFusedCodecU16 EXCEPT !.kBlk = windowSize, !.window = windowSize, !.outer = windowSize]
FastPForFusedCorrectedDeltaLocalCodecU16 == [FastPForFusedCodecU16 EXCEPT !.delta = "local"]
FastPForFusedCorrectedDeltaCarryCodecU16 == [FastPForFusedCodecU16 EXCEPT !.delta = "carry"]

\* Anchors packed by two in 32-bit words in front of the residuals.
FastPForFusedCorrectedForGlobalCodecU16(blk) ==
  [SimdCompFusedForGlobalCodecU16(blk) EXCEPT !.pfor = TRUE]

----------------------------------------------------------------------------
(* The fused codecs that InitPhysicalCodecsU16 puts into the collection *)

Aggs == {"unpack", "madd"}

Nestings == {p \in OuterWindows \X Windows : p[1] % p[2] = 0}

Collection ==
  {SimdCompFusedCodecU16, SimdCompFusedCodecU16_128,
   TurboPForFusedCodecU16, TurboPForFused256CodecU16}
  \cup {TurboPForFused256VariantCodecU16(agg) : agg \in Aggs}
  \cup {SimdCompFusedForCodecU16_128(w, sep, agg, nobc) :
          w \in Windows, sep \in BOOLEAN, agg \in Aggs, nobc \in BOOLEAN}
  \cup {SimdCompFusedForCodecU16_256(w, sep, agg, nobc) :
          w \in Windows, sep \in BOOLEAN, agg \in Aggs, nobc \in BOOLEAN}
  \cup {SimdCompFusedForHierarchicalCodecU16_128(p[1], p[2], agg) : p \in Nestings, agg \in Aggs}
  \cup {SimdCompFusedForHierarchicalCodecU16_256(p[1], p[2], agg) : p \in Nestings, agg \in Aggs}
  \cup {TurboPForFusedForCodecU16(w, sep, agg, nobc) :
          w \in Windows, sep \in BOOLEAN, agg \in Aggs, nobc \in BOOLEAN}
  \cup {TurboPForFusedForHierarchicalCodecU16(p[1], p[2], agg, nobc) :
          p \in Nestings, agg \in Aggs, nobc \in BOOLEAN}

\* Those whose lines are commented out.
Experiments ==
  {SimdCompFusedDeltaLocalCodecU16, SimdCompFusedDeltaCarryCodecU16,
   SimdCompFusedForLocalCodecU16, SimdCompFusedForHierarchicalCodecU16,
   FastPForFusedCodecU16, FastPForFusedCorrectedDeltaLocalCodecU16,
   FastPForFusedCorrectedDeltaCarryCodecU16}
  \cup {SimdCompFusedForGlobalCodecU16(w) : w \in Windows}
  \cup {FastPForFusedCorrectedCodecU16(w) : w \in Windows}
  \cup {FastPForFusedCorrectedForGlobalCodecU16(w) : w \in Windows}

============================================================================
