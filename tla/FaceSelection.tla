---------------------------- MODULE FaceSelection ----------------------------
(***************************************************************************)
(* What the rasterizer state promises about polygons, stated from GL's     *)
(* rules alone: for a triangle of either winding on the gallium surface,   *)
(* whether it is drawn after the last validation and whether as points,    *)
(* lines or filled.  Rasterizer implements this specification with the    *)
(* pipe state's cull_face, fill_front, fill_back and front_ccw as the      *)
(* refinement mapping.                                                     *)
(***************************************************************************)
CONSTANTS
  Inputs,     \* as in Rasterizer: the values each changeable field takes
  GLDefault,  \* the state of a new context
  Drivers     \* the driver flags; debug_wireframe is read here

VARIABLES
  gl,     \* the GL context and per-draw st state
  drv,    \* the driver
  drawn   \* drawn[w]: the GL polygon mode of a triangle of surface
          \* winding w, or NotDrawn

Windings == {"cw", "ccw"}
Modes == {"GL_POINT", "GL_LINE", "GL_FILL"}
NotDrawn == "none"

\* The winding GL sees.  Y_0_BOTTOM (FBO) framebuffers are drawn with an
\* inverted viewport, and an upper-left clip origin inverts y once more.
GLWinding(g, w) ==
  IF (g.ClipOrigin = "GL_UPPER_LEFT") # (g.fb_orientation = "Y_0_BOTTOM")
  THEN CHOOSE x \in Windings : x # w
  ELSE w

FaceOf(g, w) ==
  IF (GLWinding(g, w) = "ccw") = (g.FrontFace = "GL_CCW") THEN "front" ELSE "back"

\* glPolygonMode of a face; the wireframe debug option draws lines.
ModeOf(g, d, face) ==
  IF d.debug_wireframe THEN "GL_LINE"
  ELSE IF face = "front" THEN g.FrontMode ELSE g.BackMode

CulledBy(g, face) ==
  g.CullFlag /\ g.CullFaceMode \in {IF face = "front" THEN "GL_FRONT" ELSE "GL_BACK",
                                   "GL_FRONT_AND_BACK"}

\* A triangle is drawn unless its face is culled, or all its edge flags are
\* FALSE (edgeflag_culls_prims) and its face is drawn as points or lines.
Drawn(g, d) ==
  [w \in Windings |->
     LET face == FaceOf(g, w)
     IN IF CulledBy(g, face) \/ (g.edgeflag_culls_prims /\ ModeOf(g, d, face) # "GL_FILL")
        THEN NotDrawn
        ELSE ModeOf(g, d, face)]

\* Before the first draw the pipe state is not yet derived from GL.
Init ==
  /\ gl = GLDefault
  /\ drv \in Drivers
  /\ drawn \in [Windings -> Modes \cup {NotDrawn}]

\* A state change followed by a draw: what is drawn follows GL's rules.
Change ==
  \E f \in DOMAIN Inputs :
    \E v \in Inputs[f] :
      /\ gl' = [gl EXCEPT ![f] = v]
      /\ drawn' = Drawn(gl', drv)
      /\ UNCHANGED drv

Spec == Init /\ [][Change]_<<gl, drv, drawn>>
====
