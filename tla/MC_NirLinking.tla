---------------------------- MODULE MC_NirLinking ----------------------------
(***************************************************************************)
(* A vertex shader linked to a fragment shader: one builtin slot, two      *)
(* generic slots, two outputs and two inputs.                              *)
(***************************************************************************)
EXTENDS NirLinking

MC_LocChoices == 0..2
MC_FracChoices == {0, 1}
MC_TypeChoices == {"float", "vec2", "vec4"}
MC_InterpChoices == {INTERP_SMOOTH, INTERP_FLAT}

\* Interfaces whose always-active outputs are of types the compactor does
\* not pack (run xfb_scalar_collision has the others) and have their slots
\* to themselves and their matching input (run xfb_location_marking has
\* the others).
XfbAlone(p) ==
  /\ ~PackingSupported(pvars[p])
  /\ \A q \in OutIds \ {p} : Slots(pvars[q]) \cap Slots(pvars[p]) = {}
  /\ \A c \in InIds : Slots(cvars[c]) \cap Slots(pvars[p]) # {} => Matches(pvars[p], cvars[c])

MC_Init == Init /\ \A p \in OutIds : pvars[p].aa => XfbAlone(p)
MC_Spec == MC_Init /\ [][Next]_vars

\* Always-active outputs of unpackable types that may share their slot.
MC_InitXfbShared == Init /\ \A p \in OutIds : pvars[p].aa => ~PackingSupported(pvars[p])
MC_SpecXfbShared == MC_InitXfbShared /\ [][Next]_vars

\* Every output has an input at the same location, component and type,
\* loaded by the consumer, whose interpolation qualifier may differ.
MC_InitMirror ==
  /\ pvars \in [OutIds -> {v \in Decls("out") : ~v.aa}]
  /\ StageValid(pvars)
  /\ cvars \in { [i \in InIds |-> [pvars[i] EXCEPT !.mode = "in", !.interp = f[i]]] :
                  f \in [InIds -> InterpChoices] }
  /\ StageValid(cvars)
  /\ cLoads = InIds
  /\ InitBodies
MC_SpecMirror == MC_InitMirror /\ [][Next]_vars

\* As MC_InitMirror, with the consumer declaring every input exactly as
\* the producer declares the matching output.
MC_InitExact ==
  /\ MC_InitMirror
  /\ \A i \in InIds : cvars[i].interp = pvars[i].interp
MC_SpecExact == MC_InitExact /\ [][Next]_vars
====
