----------------------------- MODULE Rasterizer -----------------------------
(***************************************************************************)
(* st_update_rasterizer of st_atom_rasterizer.c: the state-tracker atom    *)
(* that derives gallium's pipe_rasterizer_state from the GL context.       *)
(*                                                                         *)
(* The atom runs each time a draw finds rasterizer-relevant state changed. *)
(* One step of the model is one GL state change followed by that          *)
(* validation.  The derived struct st->state.rasterizer persists between  *)
(* validations and the atom overwrites it in place, so it is a variable,  *)
(* and the atom is modelled as the function of the old struct and the     *)
(* current state that the code computes.                                  *)
(*                                                                         *)
(* pipe_rasterizer_state's fields are C bitfields: a value stored in one  *)
(* is reduced modulo 2^width.  GL enums are strings; PIPE_* values are the *)
(* numbers of p_defines.h.                                                 *)
(***************************************************************************)
EXTENDS Integers, Bitwise

CONSTANTS
  Inputs,          \* Inputs[f]: the values field f of the GL/st state takes
  GLDefault,       \* the state of a new context: a value of each field
  Drivers,         \* the st_context capability flags, ctx->Const values and
                   \* ST_DEBUG & DEBUG_WIREFRAME; fixed for a context
  MAX_TEXTURE_COORD_UNITS,
  PntcGeneric,     \* st_get_generic_varying_index(st, VARYING_SLOT_PNTC)
  StippleFactorBits \* width of the line_stipple_factor bitfield

\* PIPE_FACE_*, PIPE_POLYGON_MODE_*, PIPE_SPRITE_COORD_*,
\* PIPE_CONSERVATIVE_RASTER_*.
PIPE_FACE_FRONT == 1
PIPE_FACE_BACK == 2
PIPE_POLYGON_MODE_FILL == 0
PIPE_POLYGON_MODE_LINE == 1

B(b) == IF b THEN 1 ELSE 0          \* a C comparison or ! yields 0 or 1
Flip(x) == 1 - x                    \* x ^= 1 on a one-bit field
Clamp(x, lo, hi) == IF x > lo THEN (IF x > hi THEN hi ELSE x) ELSE lo  \* CLAMP

RasterFields ==
  {"front_ccw", "flatshade", "flatshade_first", "light_twoside",
   "clamp_vertex_color", "cull_face", "fill_front", "fill_back",
   "offset_point", "offset_line", "offset_tri", "offset_units",
   "offset_scale", "offset_clamp", "poly_smooth", "poly_stipple_enable",
   "point_size", "point_smooth", "sprite_coord_mode", "sprite_coord_enable",
   "point_quad_rasterization", "point_size_per_vertex", "line_smooth",
   "line_width", "line_stipple_enable", "line_stipple_pattern",
   "line_stipple_factor", "multisample", "force_persample_interp", "scissor",
   "clamp_fragment_color", "half_pixel_center", "bottom_edge_rule",
   "rasterizer_discard", "tile_raster_order_fixed",
   "tile_raster_order_increasing_x", "tile_raster_order_increasing_y",
   "depth_clip_near", "depth_clip_far", "clip_plane_enable", "clip_halfz",
   "conservative_raster_mode", "conservative_raster_dilate",
   "subpixel_precision_x", "subpixel_precision_y"}

ZeroRaster == [f \in RasterFields |-> 0]

VARIABLES
  gl,        \* the GL context and per-draw st state the atom reads
  drv,       \* the driver's st_context flags and constants
  raster,    \* st->state.rasterizer
  validated  \* the atom has run at least once

vars == <<gl, drv, raster, validated>>
-----------------------------------------------------------------------------
\* Mutation: the memset is dropped; the struct keeps the last validation's
\* values in every field the atom does not assign.
Memset_Keep(old) == old

\* memset(raster, 0, sizeof(*raster))
Memset(old) == ZeroRaster

\* translate_fill (assert(0) and 0 for any other mode)
TranslateFill(mode) ==
  CASE mode = "GL_POINT"             -> 2
    [] mode = "GL_LINE"              -> PIPE_POLYGON_MODE_LINE
    [] mode = "GL_FILL"              -> PIPE_POLYGON_MODE_FILL
    [] mode = "GL_FILL_RECTANGLE_NV" -> 3
    [] OTHER                         -> 0

\* Mutation: the clip-origin flip of front_ccw is dropped.
FrontCcw_NoClipOrigin(r, g) ==
  LET f0 == B(g.FrontFace = "GL_CCW")
  IN [r EXCEPT !.front_ccw = IF g.fb_orientation = "Y_0_BOTTOM" THEN Flip(f0) ELSE f0]

\* Front winding, flipped once for an upper-left clip origin and once for a
\* Y_0_BOTTOM (FBO) framebuffer.
FrontCcw(r, g) ==
  LET f0 == B(g.FrontFace = "GL_CCW")
      f1 == IF g.ClipOrigin = "GL_UPPER_LEFT" THEN Flip(f0) ELSE f0
  IN [r EXCEPT !.front_ccw = IF g.fb_orientation = "Y_0_BOTTOM" THEN Flip(f1) ELSE f1]

\* _NEW_LIGHT: light_twoside is left alone when the driver lowers it.
LightState(r, g, d) ==
  [r EXCEPT !.flatshade = B(~d.lower_flatshade /\ g.ShadeModel = "GL_FLAT"),
            !.flatshade_first = B(g.ProvokingVertex = "GL_FIRST_VERTEX_CONVENTION"),
            !.light_twoside = IF d.lower_two_sided_color THEN @ ELSE B(g.TwoSideEnabled),
            !.clamp_vertex_color = B(~d.clamp_vert_color_in_shader /\ g.ClampVertexColor)]

CullMask == [GL_FRONT |-> PIPE_FACE_FRONT, GL_BACK |-> PIPE_FACE_BACK,
             GL_FRONT_AND_BACK |-> PIPE_FACE_FRONT + PIPE_FACE_BACK]

CullFace(r, g) ==
  [r EXCEPT !.cull_face = IF g.CullFlag THEN CullMask[g.CullFaceMode] ELSE 0]

\* Fill modes (both LINE under the wireframe debug option), then the fill
\* mode of a culled face is replaced by the other face's.
FillModes(r, g, d) ==
  LET ff == IF d.debug_wireframe THEN PIPE_POLYGON_MODE_LINE ELSE TranslateFill(g.FrontMode)
      fb == IF d.debug_wireframe THEN PIPE_POLYGON_MODE_LINE ELSE TranslateFill(g.BackMode)
      ff1 == IF (r.cull_face & PIPE_FACE_FRONT) # 0 THEN fb ELSE ff
      fb1 == IF (r.cull_face & PIPE_FACE_BACK) # 0 THEN ff1 ELSE fb
  IN [r EXCEPT !.fill_front = ff1, !.fill_back = fb1]

\* The offset fields are assigned only when some offset mode is enabled.
PolygonOffset(r, g) ==
  LET r1 == IF g.OffsetPoint \/ g.OffsetLine \/ g.OffsetFill
            THEN [r EXCEPT !.offset_point = B(g.OffsetPoint), !.offset_line = B(g.OffsetLine),
                           !.offset_tri = B(g.OffsetFill), !.offset_units = g.OffsetUnits,
                           !.offset_scale = g.OffsetFactor, !.offset_clamp = g.OffsetClamp]
            ELSE r
  IN [r1 EXCEPT !.poly_smooth = B(g.PolygonSmooth), !.poly_stipple_enable = B(g.PolygonStipple)]

\* _NEW_POINT: the sprite fields are assigned only when sprites are on; the
\* size is clamped unless the vertex shader writes it.
PointState(r, g, d) ==
  LET r1 == [r EXCEPT !.point_size = g.PointSize,
                      !.point_smooth = B(~g.PointSprite /\ g.PointSmooth)]
      enable == g.CoordReplace & (2^MAX_TEXTURE_COORD_UNITS - 1)
      r2 == IF g.PointSprite
            THEN [r1 EXCEPT
                    !.sprite_coord_mode =
                       IF (g.SpriteOrigin = "GL_UPPER_LEFT") # (g.fb_orientation = "Y_0_BOTTOM")
                       THEN 0 ELSE 1,
                    !.sprite_coord_enable =
                       IF ~d.needs_texcoord_semantic /\ g.FragReadsPntc
                       THEN enable | 2^PntcGeneric ELSE enable,
                    !.point_quad_rasterization = 1]
            ELSE r1
      r3 == [r2 EXCEPT !.point_size_per_vertex = B(g.PointSizePerVertex)]
  IN IF g.PointSizePerVertex THEN r3
     ELSE [r3 EXCEPT !.point_size = Clamp(g.PointSize, g.PointMinSize, g.PointMaxSize)]

\* _NEW_LINE: width clamped to the AA or non-AA limits; the GL stipple
\* factor 1..256 is stored minus one.
LineState(r, g, d) ==
  [r EXCEPT !.line_smooth = B(g.LineSmooth),
            !.line_width = IF g.LineSmooth
                           THEN Clamp(g.LineWidth, d.MinLineWidthAA, d.MaxLineWidthAA)
                           ELSE Clamp(g.LineWidth, d.MinLineWidth, d.MaxLineWidth),
            !.line_stipple_enable = B(g.LineStipple),
            !.line_stipple_pattern = g.StipplePattern,
            !.line_stipple_factor = (g.StippleFactor - 1) % 2^StippleFactorBits]

\* _NEW_MULTISAMPLE: MinSampleShading is MinSampleShadingValue in percent.
Multisample(r, g, d) ==
  [r EXCEPT !.multisample = B(g.MultisampleEnabled),
            !.force_persample_interp =
               B(~d.force_persample_in_shader /\ g.MultisampleEnabled /\ g.SampleShading
                 /\ g.MinSampleShading * g.Samples > 100)]

\* _NEW_SCISSOR: !!EnableFlags, one bit for any viewport's scissor test.
Scissor(r, g) == [r EXCEPT !.scissor = B(g.ScissorEnableFlags # 0)]

\* Fragment clamp, pixel centre and edge rule, discard and tile order.
FragmentState(r, g, d) ==
  LET ber == IF g.fb_orientation = "Y_0_TOP" THEN 1 ELSE r.bottom_edge_rule
      r1 == [r EXCEPT
               !.clamp_fragment_color = B(~d.clamp_frag_color_in_shader /\ g.ClampFragmentColor),
               !.half_pixel_center = 1,
               !.bottom_edge_rule = IF g.ClipOrigin = "GL_UPPER_LEFT" THEN Flip(ber) ELSE ber,
               !.rasterizer_discard = B(g.RasterDiscard)]
  IN IF g.TileRasterOrderFixed
     THEN [r1 EXCEPT !.tile_raster_order_fixed = 1,
                     !.tile_raster_order_increasing_x = B(g.TileRasterOrderIncreasingX),
                     !.tile_raster_order_increasing_y = B(g.TileRasterOrderIncreasingY)]
     ELSE r1

\* Mutation: both faces are tested against the front fill mode.
EdgeflagCull_FrontOnly(r, g) ==
  IF ~g.edgeflag_culls_prims THEN r
  ELSE [r EXCEPT !.cull_face = LET m == IF r.fill_front # PIPE_POLYGON_MODE_FILL
                                        THEN PIPE_FACE_FRONT + PIPE_FACE_BACK ELSE 0
                               IN @ | m]

\* All edge flags are FALSE: a face drawn as lines or points draws nothing,
\* so it is culled.
EdgeflagCull(r, g) ==
  IF ~g.edgeflag_culls_prims THEN r
  ELSE [r EXCEPT !.cull_face =
          LET m == (IF r.fill_front # PIPE_POLYGON_MODE_FILL THEN PIPE_FACE_FRONT ELSE 0)
                   + (IF r.fill_back # PIPE_POLYGON_MODE_FILL THEN PIPE_FACE_BACK ELSE 0)
          IN @ | m]

\* _NEW_TRANSFORM depth clip and clip planes, conservative rasterization
\* and subpixel precision.
ClipAndConservative(r, g, d) ==
  [r EXCEPT
     !.depth_clip_near = B(d.clamp_frag_depth_in_shader \/ ~g.DepthClampNear),
     !.depth_clip_far = B(d.clamp_frag_depth_in_shader \/ ~g.DepthClampFar),
     !.clip_plane_enable = g.ClipPlanesEnabled,
     !.clip_halfz = B(g.ClipDepthMode = "GL_ZERO_TO_ONE"),
     !.conservative_raster_mode =
        IF g.ConservativeRasterization
        THEN (IF g.ConservativeRasterMode = "POST_SNAP" THEN 1 ELSE 2)
        ELSE IF g.IntelConservativeRasterization THEN 1 ELSE 0,
     !.conservative_raster_dilate = g.ConservativeRasterDilate,
     !.subpixel_precision_x = g.SubpixelPrecisionBias[0],
     !.subpixel_precision_y = g.SubpixelPrecisionBias[1]]

\* st_update_rasterizer: every assignment in the code's order, starting
\* from the struct the previous validation left.
StUpdateRasterizer(old, g, d) ==
  LET r1 == FrontCcw(Memset(old), g)
      r2 == CullFace(LightState(r1, g, d), g)
      r3 == PointState(PolygonOffset(FillModes(r2, g, d), g), g, d)
      r4 == FragmentState(Scissor(Multisample(LineState(r3, g, d), g, d), g), g, d)
  IN ClipAndConservative(EdgeflagCull(r4, g), g, d)
-----------------------------------------------------------------------------
\* The st_context is calloc'd: the struct is zero before the first
\* validation, and the GL state is a new context's.
Init ==
  /\ gl = GLDefault
  /\ drv \in Drivers
  /\ raster = ZeroRaster
  /\ validated = FALSE

\* One piece of GL or per-draw state is set (possibly to its current value),
\* then a draw validates the rasterizer atom.
Validate ==
  \E f \in DOMAIN Inputs :
    \E v \in Inputs[f] :
      /\ gl' = [gl EXCEPT ![f] = v]
      /\ raster' = StUpdateRasterizer(raster, gl', drv)
      /\ validated' = TRUE
      /\ UNCHANGED drv

Next == Validate

Spec == Init /\ [][Next]_vars
-----------------------------------------------------------------------------
(* Refinement of FaceSelection.  A triangle of surface winding w has the  *)
(* pipe's front face when its winding is the one front_ccw names; it is    *)
(* drawn unless cull_face has that face's bit, in that face's fill mode.   *)
FaceBit == [front |-> PIPE_FACE_FRONT, back |-> PIPE_FACE_BACK]
PipeDraws(face) == (raster.cull_face & FaceBit[face]) = 0
PipeFill(face) == IF face = "front" THEN raster.fill_front ELSE raster.fill_back
PipeModeName == [m \in 0..3 |-> CASE m = PIPE_POLYGON_MODE_FILL -> "GL_FILL"
                                  [] m = PIPE_POLYGON_MODE_LINE -> "GL_LINE"
                                  [] m = 2 -> "GL_POINT"
                                  [] OTHER -> "GL_FILL_RECTANGLE_NV"]
PipeFace(w) == IF (w = "ccw") = (raster.front_ccw = 1) THEN "front" ELSE "back"
DrawnBar ==
  [w \in {"cw", "ccw"} |->
     IF PipeDraws(PipeFace(w)) THEN PipeModeName[PipeFill(PipeFace(w))] ELSE "none"]

Abstract == INSTANCE FaceSelection WITH drawn <- DrawnBar

\* Every validation leaves a pipe state that draws a triangle of either
\* winding exactly when GL's culling, facing and edge-flag rules draw it,
\* in its GL polygon mode.  This takes the winding flips (76-92), the cull
\* mask (113-128), the fill-mode simplification for culled faces (144-150)
\* and the edge-flag culling that reads the simplified modes afterwards
\* (262-268) together.
FaceSelectionSpec == Abstract!Spec

\* The number of y inversions between GL window space and the gallium
\* surface: one for an upper-left clip origin, one for a Y_0_BOTTOM (FBO)
\* framebuffer.
YFlip == B(gl.ClipOrigin = "GL_UPPER_LEFT") ^^ B(gl.fb_orientation = "Y_0_BOTTOM")

\* The winding that is front (lines 76-92) and the edge rule (246-252) are
\* flipped by the same y inversions, though the code computes them in two
\* places from two conditional flips each.
OrientationAgrees ==
  validated =>
    /\ raster.front_ccw = B(gl.FrontFace = "GL_CCW") ^^ YFlip
    /\ raster.bottom_edge_rule = Flip(YFlip)

\* A field the atom assigns only under a condition reads 0 when that
\* condition is false, whatever an earlier validation stored there: the
\* offset fields (155-164), the sprite fields (176-197), the tile order
\* (256-260), light_twoside for a driver that lowers two-sided colour
\* (104-105).  All rely on the memset at line 71.
DisabledStateCleared ==
  validated =>
    /\ ~(gl.OffsetPoint \/ gl.OffsetLine \/ gl.OffsetFill) =>
          \A f \in {"offset_point", "offset_line", "offset_tri", "offset_units",
                    "offset_scale", "offset_clamp"} : raster[f] = 0
    /\ ~gl.PointSprite =>
          \A f \in {"sprite_coord_mode", "sprite_coord_enable",
                    "point_quad_rasterization"} : raster[f] = 0
    /\ ~gl.TileRasterOrderFixed =>
          \A f \in {"tile_raster_order_fixed", "tile_raster_order_increasing_x",
                    "tile_raster_order_increasing_y"} : raster[f] = 0
    /\ drv.lower_two_sided_color => raster.light_twoside = 0
====
