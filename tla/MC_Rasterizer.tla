---------------------------- MODULE MC_Rasterizer ----------------------------
(***************************************************************************)
(* Instance of Rasterizer: a new context's GL state, the pieces of state   *)
(* that decide faces, orientation and the conditional fields, and two     *)
(* drivers.                                                                *)
(***************************************************************************)
EXTENDS Rasterizer

\* The defaults of a new GL context drawing to a window (Y_0_TOP).
MC_GLDefault ==
  [FrontFace |-> "GL_CCW", ClipOrigin |-> "GL_LOWER_LEFT",
   fb_orientation |-> "Y_0_TOP", ShadeModel |-> "GL_SMOOTH",
   ProvokingVertex |-> "GL_LAST_VERTEX_CONVENTION", TwoSideEnabled |-> FALSE,
   ClampVertexColor |-> TRUE, CullFlag |-> FALSE, CullFaceMode |-> "GL_BACK",
   FrontMode |-> "GL_FILL", BackMode |-> "GL_FILL",
   OffsetPoint |-> FALSE, OffsetLine |-> FALSE, OffsetFill |-> FALSE,
   OffsetUnits |-> 1, OffsetFactor |-> 1, OffsetClamp |-> 1,
   PolygonSmooth |-> FALSE, PolygonStipple |-> FALSE,
   PointSize |-> 1, PointSmooth |-> FALSE, PointSprite |-> FALSE,
   SpriteOrigin |-> "GL_UPPER_LEFT", CoordReplace |-> 1, FragReadsPntc |-> TRUE,
   PointSizePerVertex |-> FALSE, PointMinSize |-> 0, PointMaxSize |-> 64,
   LineSmooth |-> FALSE, LineWidth |-> 1, LineStipple |-> FALSE,
   StipplePattern |-> 65535, StippleFactor |-> 1,
   MultisampleEnabled |-> FALSE, SampleShading |-> FALSE,
   MinSampleShading |-> 0, Samples |-> 0, ScissorEnableFlags |-> 0,
   ClampFragmentColor |-> FALSE, RasterDiscard |-> FALSE,
   TileRasterOrderFixed |-> FALSE, TileRasterOrderIncreasingX |-> TRUE,
   TileRasterOrderIncreasingY |-> TRUE, edgeflag_culls_prims |-> FALSE,
   DepthClampNear |-> FALSE, DepthClampFar |-> FALSE, ClipPlanesEnabled |-> 0,
   ClipDepthMode |-> "GL_NEGATIVE_ONE_TO_ONE", ConservativeRasterization |-> FALSE,
   ConservativeRasterMode |-> "POST_SNAP", IntelConservativeRasterization |-> FALSE,
   ConservativeRasterDilate |-> 0, SubpixelPrecisionBias |-> [i \in 0..1 |-> 0]]

\* The state the application and the draw may change.  Polygon modes take
\* POINT on one face and LINE on the other so that a copied mode is told
\* apart; point offset and point sprite values are non-zero (OffsetUnits,
\* CoordReplace) so that a stale field shows.
MC_Inputs ==
  [FrontFace |-> {"GL_CCW", "GL_CW"},
   ClipOrigin |-> {"GL_LOWER_LEFT", "GL_UPPER_LEFT"},
   fb_orientation |-> {"Y_0_TOP", "Y_0_BOTTOM"},
   TwoSideEnabled |-> {FALSE, TRUE},
   CullFlag |-> {FALSE, TRUE},
   CullFaceMode |-> {"GL_FRONT", "GL_BACK", "GL_FRONT_AND_BACK"},
   FrontMode |-> {"GL_POINT", "GL_FILL"},
   BackMode |-> {"GL_LINE", "GL_FILL"},
   OffsetFill |-> {FALSE, TRUE},
   PointSprite |-> {FALSE, TRUE},
   SpriteOrigin |-> {"GL_UPPER_LEFT", "GL_LOWER_LEFT"},
   TileRasterOrderFixed |-> {FALSE, TRUE},
   edgeflag_culls_prims |-> {FALSE, TRUE}]

DriverBase ==
  [lower_flatshade |-> FALSE, lower_two_sided_color |-> FALSE,
   clamp_vert_color_in_shader |-> FALSE, needs_texcoord_semantic |-> FALSE,
   force_persample_in_shader |-> FALSE, clamp_frag_color_in_shader |-> FALSE,
   clamp_frag_depth_in_shader |-> FALSE, debug_wireframe |-> FALSE,
   MinLineWidth |-> 1, MaxLineWidth |-> 10, MinLineWidthAA |-> 1,
   MaxLineWidthAA |-> 10]

\* A plain driver, and one that lowers two-sided colour and flat shading
\* into the shader, run with ST_DEBUG=wireframe.
MC_Drivers ==
  {DriverBase,
   [DriverBase EXCEPT !.lower_two_sided_color = TRUE, !.lower_flatshade = TRUE,
                      !.debug_wireframe = TRUE]}
====
