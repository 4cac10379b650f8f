--------------------------- MODULE FormatTranslate ---------------------------
(***************************************************************************)
(* util_format_translate, util_format_translate_3d and util_copy_rect of   *)
(* u_format.c: one call of the translator on a caller's buffers.           *)
(*                                                                         *)
(* A format is its util_format_description (layout, block size, channels,  *)
(* swizzle, colorspace) and the pack/unpack functions its table entry      *)
(* provides.  Columns are abstracted away: the destination is the set of   *)
(* pixel rows (of each slice) the call writes, each carrying the source    *)
(* pixel row it was converted from and the channels converted.  Row        *)
(* pointers are followed exactly as the code advances them, in block rows. *)
(* malloc may return NULL (when AllocMayFail).                             *)
(***************************************************************************)
EXTENDS Integers, FiniteSets, TLC, Swizzle

CONSTANTS
  Formats,       \* the pipe_format values considered
  Desc,          \* Desc[f]: description and pack/unpack entries of f
  YChoices,      \* src_y / dst_y the caller passes
  HChoices,      \* heights
  ZChoices,      \* src_z / dst_z
  DChoices,      \* depths of a 3D call
  AllocMayFail   \* malloc can return NULL

Pad == -1            \* a row of a partly written block: no source row

Max2(a, b) == IF a >= b THEN a ELSE b
RoundUp(n, b) == ((n + b - 1) \div b) * b

VARIABLES
  call,     \* the arguments: [fn, src, dst, sy, dy, sz, dz, h, depth];
            \* src and dst are the formats' descriptions (Described)
  writes,   \* rows written: [z, y, sz, sy, what]
  ret,      \* "none" before the call returns, then "success" (TRUE),
            \* "failure" (FALSE) or "crash" (a NULL function was called)
  oom       \* ghost: some malloc of the call returned NULL

vars == <<call, writes, ret, oom>>

-----------------------------------------------------------------------------
(* Format predicates used by the translator.                               *)

\* util_format_get_first_non_void_channel
FirstNonVoid(f) ==
  LET nv == { i \in 0..(f.nr - 1) : f.ch[i].type # "void" }
  IN IF nv = {} THEN -1 ELSE CHOOSE i \in nv : \A j \in nv : i <= j

\* util_format_is_pure_sint
IsPureSint(f) ==
  LET i == FirstNonVoid(f)
  IN i # -1 /\ f.ch[i].type = "signed" /\ f.ch[i].pure

\* util_format_is_pure_uint
IsPureUint(f) ==
  LET i == FirstNonVoid(f)
  IN i # -1 /\ f.ch[i].type = "unsigned" /\ f.ch[i].pure

\* util_is_format_compatible
IsFormatCompatible(s, d) ==
  \/ s.name = d.name
  \/ LET S == s
         D == d
     IN /\ S.layout = "plain" /\ D.layout = "plain"
        /\ S.bits = D.bits /\ S.nr = D.nr /\ S.cs = D.cs
        /\ \A c \in 0..3 : S.ch[c].size = D.ch[c].size
        /\ \A c \in 0..3 :
             D.swz[c] < 4 =>
               /\ S.swz[c] = D.swz[c]
               /\ S.ch[D.swz[c]].type = D.ch[D.swz[c]].type
               /\ S.ch[D.swz[c]].norm = D.ch[D.swz[c]].norm

\* util_format_fits_8unorm
Fits8unorm(f) ==
  LET D == f
  IN /\ D.cs # "srgb"
     /\ CASE D.layout = "s3tc"  -> TRUE
          [] D.layout = "rgtc"  -> f.name \notin {"RGTC1_SNORM", "RGTC2_SNORM", "LATC1_SNORM", "LATC2_SNORM"}
          [] D.layout = "bptc"  -> f.name = "BPTC_RGBA_UNORM"
          [] D.layout = "etc"   -> f.name = "ETC1_RGB8"
          [] D.layout = "plain" ->
               \A c \in 0..(D.nr - 1) :
                 \/ D.ch[c].type = "void"
                 \/ D.ch[c].type = "unsigned" /\ D.ch[c].norm /\ D.ch[c].size <= 8
          [] OTHER -> f.name \in {"R1_UNORM", "UYVY", "YUYV", "R8G8_B8G8_UNORM", "G8R8_G8B8_UNORM"}

-----------------------------------------------------------------------------
(* util_format_translate.                                                  *)

\* The branch the translator takes for a pair of formats.
Path(s, d) ==
  CASE IsFormatCompatible(s, d)                   -> "copy"
    [] s.cs = "zs" \/ d.cs = "zs"     -> "zs"
    [] Fits8unorm(s) \/ Fits8unorm(d)             -> "8unorm"
    [] IsPureSint(s) \/ IsPureSint(d)             -> "sint"
    [] IsPureUint(s) \/ IsPureUint(d)             -> "uint"
    [] OTHER                                      -> "float"

\* The unpack function of the source and the pack function of the
\* destination each conversion path calls.
Unpacker == [8unorm |-> "unpack_rgba_8unorm", sint |-> "unpack_rgba",
             uint |-> "unpack_rgba", float |-> "unpack_rgba"]
Packer == [8unorm |-> "pack_rgba_8unorm", sint |-> "pack_rgba_sint",
           uint |-> "pack_rgba_uint", float |-> "pack_rgba_float"]
HasFuncs(s, d, p) == Unpacker[p] \in s.unpack /\ Packer[p] \in d.pack

\* Mutation: MIN2 for MAX2.
YStep_Min(s, d) == IF d.bh <= s.bh THEN d.bh ELSE s.bh

\* y_step: rows per batch.
YStep(s, d) == Max2(d.bh, s.bh)

\* Mutation: the "sint != sint" test of the signed-integer path is dropped.
SintMismatch_Never(s, d) == FALSE

\* The signed-integer path refuses a pair unless both are pure sint.
SintMismatch(s, d) == IsPureSint(s) # IsPureSint(d)

\* Mutation: the "if (height)" remainder after the loop is dropped.
Batches_NoTail(h, step) ==
  { [off |-> k * step, cnt |-> step] : k \in 0..(h \div step - 1) }

\* The batches of the row loops: full batches of y_step rows while
\* height >= y_step, then the remaining rows if any.
Batches(h, step) ==
  { [off |-> k * step, cnt |-> step] : k \in 0..(h \div step - 1) }
  \cup (IF h % step # 0 THEN {[off |-> (h \div step) * step, cnt |-> h % step]} ELSE {})

\* The row pointers start at dst_y*dst_stride and src_y*src_stride and
\* advance by y_step/block.height strides: a batch at offset off starts at
\* block row y + off/bh.  A pack of cnt rows fills whole blocks; rows past
\* cnt in the last block carry no source row.
BatchWrites(c, z, sz, what, b) ==
  LET s == c.src
      d == c.dst
      drow == (c.dy + b.off \div d.bh) * d.bh
      srow == (c.sy + b.off \div s.bh) * s.bh
  IN { [z |-> z, y |-> drow + i, sz |-> sz,
        sy |-> IF i < b.cnt THEN srow + i ELSE Pad, what |-> what] :
         i \in 0..(RoundUp(b.cnt, d.bh) - 1) }

ConvertWrites(c, z, sz, what) ==
  UNION { BatchWrites(c, z, sz, what, b) : b \in Batches(c.h, YStep(c.src, c.dst)) }

\* The depth/stencil loop: one row per iteration, pointers advanced by
\* dst_step and src_step; nothing is written when neither temporary exists.
ZsWrites(c, z, sz, what) ==
  LET s == c.src
      d == c.dst
      step == YStep(s, d)
  IN IF what = {} THEN {}
     ELSE { [z |-> z, y |-> (c.dy + i * (step \div d.bh)) * d.bh, sz |-> sz,
             sy |-> (c.sy + i * (step \div s.bh)) * s.bh, what |-> what] :
              i \in 0..(c.h - 1) }

\* util_copy_rect: coordinates and height in blocks of the format.
CopyRectWrites(c, z, sz) ==
  LET bh == c.dst.bh
      rows == (c.h + bh - 1) \div bh
  IN { [z |-> z, y |-> (c.dy \div bh + j) * bh + i, sz |-> sz,
        sy |-> (c.sy \div bh + j) * bh + i, what |-> {"raw"}] :
         j \in 0..(rows - 1), i \in 0..(bh - 1) }

\* Outcomes of the (up to two) malloc calls of one translation.
AllocOutcome == IF AllocMayFail THEN BOOLEAN ELSE {TRUE}
Allocs == [tmp1: AllocOutcome, tmp2: AllocOutcome]

Done(ok, w) == [ok |-> ok, writes |-> w]

\* One util_format_translate of slice sz into slice z.
Translate2D(c, z, sz, a) ==
  LET s == c.src
      d == c.dst
      p == Path(s, d)
  IN CASE p = "copy" -> Done("success", CopyRectWrites(c, z, sz))
       [] p = "zs" ->
            LET zOk == "unpack_z_float" \in s.unpack /\ "pack_z_float" \in d.pack /\ a.tmp1
                sOk == "unpack_s_8uint" \in s.unpack /\ "pack_s_8uint" \in d.pack /\ a.tmp2
            IN Done("success", ZsWrites(c, z, sz, (IF zOk THEN {"z"} ELSE {}) \cup (IF sOk THEN {"s"} ELSE {})))
       [] p = "sint" ->
            IF SintMismatch(s, d) \/ ~a.tmp1 THEN Done("failure", {})
            ELSE IF ~HasFuncs(s, d, p) THEN Done("crash", {})
            ELSE Done("success", ConvertWrites(c, z, sz, {p}))
       [] OTHER ->
            IF ~HasFuncs(s, d, p) \/ ~a.tmp1 THEN Done("failure", {})
            ELSE Done("success", ConvertWrites(c, z, sz, {p}))

\* util_format_translate_3d: slice by slice, returning FALSE at the first
\* slice that fails.
\* Mutation: the result of each slice is not checked; every slice is
\* attempted and the call fails if any failed.
FailedSlice == [z |-> -1, y |-> -1, sz |-> -1, sy |-> -1, what |-> {}]
RECURSIVE Slices3D_NoStop(_, _, _, _)
Slices3D_NoStop(c, k, a, w) ==
  IF k = c.depth THEN Done(IF FailedSlice \in w THEN "failure" ELSE "success",
                           w \ {FailedSlice})
  ELSE LET r == Translate2D(c, c.dz + k, c.sz + k, a[k])
       IN Slices3D_NoStop(c, k + 1, a,
                          w \cup r.writes \cup (IF r.ok = "success" THEN {} ELSE {FailedSlice}))

RECURSIVE Slices3D(_, _, _, _)
Slices3D(c, k, a, w) ==
  IF k = c.depth THEN Done("success", w)
  ELSE LET r == Translate2D(c, c.dz + k, c.sz + k, a[k])
       IN IF r.ok = "success" THEN Slices3D(c, k + 1, a, w \cup r.writes)
          ELSE Done(r.ok, w \cup r.writes)

-----------------------------------------------------------------------------
(* The caller: one call with aligned coordinates (the asserts of the       *)
(* translator are its preconditions).                                      *)

\* The util_format_description of f, which the translator looks up once
\* (util_format_description, pack and unpack descriptions) and then uses
\* throughout; name stands for the pipe_format itself.
Described(f) == [name |-> f] @@ Desc[f]

Aligned(f, y) == y % f.bh = 0

Init ==
  /\ call \in { c \in [fn: {"2d", "3d"}, src: {Described(f) : f \in Formats},
                       dst: {Described(f) : f \in Formats}, sy: YChoices,
                       dy: YChoices, sz: ZChoices, dz: ZChoices, h: HChoices,
                       depth: DChoices] :
                  /\ Aligned(c.src, c.sy) /\ Aligned(c.dst, c.dy)
                  /\ c.fn = "2d" => c.sz = 0 /\ c.dz = 0 /\ c.depth = 1 }
  /\ writes = {}
  /\ ret = "none"
  /\ oom = FALSE

\* util_format_translate
Translate ==
  /\ ret = "none" /\ call.fn = "2d"
  /\ \E a \in Allocs :
       LET r == Translate2D(call, 0, 0, a)
       IN writes' = r.writes /\ ret' = r.ok /\ oom' = ~(a.tmp1 /\ a.tmp2)
  /\ UNCHANGED call

\* util_format_translate_3d
Translate3D ==
  /\ ret = "none" /\ call.fn = "3d"
  /\ \E a \in [0..(call.depth - 1) -> Allocs] :
       LET r == Slices3D(call, 0, a, {})
       IN /\ writes' = r.writes /\ ret' = r.ok
          /\ oom' = \E k \in DOMAIN a : ~(a[k].tmp1 /\ a[k].tmp2)
  /\ UNCHANGED call

Next == Translate \/ Translate3D

Spec == Init /\ [][Next]_vars

-----------------------------------------------------------------------------
(* Properties.                                                             *)

\* The channels a conversion of this pair is meant to carry: a raw copy,
\* depth and/or stencil where both sides have them, or the colour.
Needed(s, d) ==
  LET p == Path(s, d)
  IN CASE p = "copy" -> {"raw"}
       [] p = "zs" ->
            (IF "unpack_z_float" \in s.unpack /\ "pack_z_float" \in d.pack
             THEN {"z"} ELSE {})
            \cup (IF "unpack_s_8uint" \in s.unpack /\ "pack_s_8uint" \in d.pack
                  THEN {"s"} ELSE {})
       [] OTHER -> {p}

\* Slices 0..n-1 of the region each have every row converted from the
\* source row at the same offset.
Converted(n) ==
  \A k \in 0..(n - 1), y \in call.dy..(call.dy + call.h - 1) :
    Needed(call.src, call.dst) # {} =>
      \E w \in writes : /\ w.z = call.dz + k /\ w.y = y
                       /\ w.sz = call.sz + k /\ w.sy = call.sy + (y - call.dy)
                       /\ Needed(call.src, call.dst) \subseteq w.what

(* When util_format_translate(_3d) returns TRUE, every row of every slice  *)
(* of the destination rectangle holds the source row at the same offset,   *)
(* converted in all the channels the two formats share: the batch loops    *)
(* and their remainder cover the whole height.                             *)
SuccessConvertsRegion == ret = "success" => Converted(call.depth)

(* The same for every call in which malloc never returned NULL: the row    *)
(* batches of y_step rows and the remainder after the loop cover the whole *)
(* height on every conversion path, for every pair of block heights.       *)
SuccessWithMemoryConvertsRegion ==
  ret = "success" /\ ~oom => Converted(call.depth)

(* Every row the translator writes lies in the destination rectangle       *)
(* (rounded out to whole blocks) and, when it carries data, holds the       *)
(* source row at the same offset: the row pointers of both images advance   *)
(* in step.                                                                 *)
WritesStayInRegion ==
  \A w \in writes :
    LET bh == call.dst.bh
    IN /\ w.z \in call.dz..(call.dz + call.depth - 1)
       /\ w.y \in ((call.dy \div bh) * bh)..(RoundUp(call.dy + call.h, bh) - 1)
       /\ w.sy # Pad => w.sy = call.sy + (w.y - call.dy) /\ w.sz = call.sz + (w.z - call.dz)

(* When the translator returns FALSE, the slices before the failing one    *)
(* are fully converted and nothing is written from the failing slice on:  *)
(* every failure of util_format_translate is detected before its row loop. *)
FailureLeavesPrefix ==
  ret = "failure" =>
    \E k \in 0..(call.depth - 1) :
      /\ Converted(k)
      /\ \A w \in writes : w.z < call.dz + k

(* The translator never calls a pack or unpack function the format table   *)
(* leaves NULL.                                                            *)
NoNullCall == ret # "crash"

(* An integer path converts only between pure-integer formats of its own  *)
(* signedness: integer data is never reinterpreted as another domain.      *)
NoSilentReinterpretation ==
  ret = "success" /\ Path(call.src, call.dst) \in {"sint", "uint"} =>
    IF Path(call.src, call.dst) = "sint"
    THEN IsPureSint(call.src) /\ IsPureSint(call.dst)
    ELSE IsPureUint(call.src) /\ IsPureUint(call.dst)
\* The swizzle helpers on the swizzles of the formats of the call: either
\* format's swizzle composed with any small swizzle, or with the other
\* format's, is that swizzle applied after it (util_format_compose_swizzles
\* against pipe_swizzle_4f).
ComposeIsSequential ==
  \A swz1 \in {call.src.swz, call.dst.swz} :
    \A swz2 \in SmallSwizzles \cup {call.src.swz, call.dst.swz} :
      ComposesSequentially(swz1, swz2)

\* util_format_unswizzle_4f inverts pipe_swizzle_4f, and
\* util_format_apply_color_swizzle agrees with it, on the formats' swizzles
\* and every small swizzle.
UnswizzleInvertsSwizzle ==
  \A swz \in SmallSwizzles \cup {call.src.swz, call.dst.swz} : UnswizzleInverts(swz)
====
