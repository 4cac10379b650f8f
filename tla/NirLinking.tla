----------------------------- MODULE NirLinking -----------------------------
(***************************************************************************)
(* The varying-linking passes of nir_linking_helpers.c applied to one      *)
(* producer/consumer pair of shader stages.                                *)
(*                                                                         *)
(* A shader stage is abstracted to its interface variables (producer       *)
(* outputs, consumer inputs), the set of those variables its body loads,   *)
(* and the slot masks of its shader_info.  Each pass the linker may call   *)
(* is one action that performs the whole C function:                       *)
(*   LinkXfbVaryings        nir_link_xfb_varyings                          *)
(*   RemoveUnusedVaryings   nir_remove_unused_varyings                     *)
(*   CompactVaryings        nir_compact_varyings                           *)
(* The order of variables in a shader's variable list is the order of      *)
(* their ids (1..NumOut, 1..NumIn).                                        *)
(***************************************************************************)
EXTENDS Integers, FiniteSets, Sequences, SequencesExt

CONSTANTS
  VAR0,            \* VARYING_SLOT_VAR0: slots below it are builtins
  MaxVarying,      \* MAX_VARYING: generic slots, and as many patch slots
  NumOut,          \* number of producer output variables
  NumIn,           \* number of consumer input variables
  ProducerStage,   \* "VS", "TCS", "TES" or "GS"
  ConsumerStage,   \* "TCS", "TES", "GS" or "FS"
  DefaultToSmooth, \* the default_to_smooth_interp argument
  MaxOps,          \* bound on the number of passes the linker runs
  \* Domains the initial interface declarations are drawn from.
  LocChoices, FracChoices, TypeChoices, InterpChoices, CentroidChoices,
  AAChoices, XfbChoices

ASSUME ProducerStage # "FS" /\ ConsumerStage # "VS"

PATCH0       == VAR0 + MaxVarying        \* VARYING_SLOT_PATCH0
MaxInclPatch == 2 * MaxVarying           \* MAX_VARYINGS_INCL_PATCH
OutIds == 1..NumOut
InIds  == 1..NumIn

\* INTERP_MODE_* and INTERPOLATE_LOC_* values.
INTERP_NONE == 0
INTERP_SMOOTH == 1
INTERP_FLAT == 2
INTERP_NOPERSPECTIVE == 3
LOC_CENTROID == 1
LOC_CENTER == 2

(***************************************************************************)
(* The glsl_type queries the passes make, per type.  A per-vertex array    *)
(* type is given by its element type (the passes strip that dimension).    *)
(* "float2" is float[2]; "vec4" is used for builtins.                      *)
(***************************************************************************)
TypeInfo ==
  [float  |-> [elems |-> 1, slots |-> 1, is32 |-> TRUE,  scalar |-> TRUE,  integer |-> FALSE],
   int    |-> [elems |-> 1, slots |-> 1, is32 |-> TRUE,  scalar |-> TRUE,  integer |-> TRUE],
   vec2   |-> [elems |-> 2, slots |-> 1, is32 |-> TRUE,  scalar |-> FALSE, integer |-> FALSE],
   double |-> [elems |-> 1, slots |-> 1, is32 |-> FALSE, scalar |-> TRUE,  integer |-> FALSE],
   float2 |-> [elems |-> 1, slots |-> 2, is32 |-> TRUE,  scalar |-> FALSE, integer |-> FALSE],
   vec4   |-> [elems |-> 4, slots |-> 1, is32 |-> TRUE,  scalar |-> FALSE, integer |-> FALSE]]
Types == DOMAIN TypeInfo

\* Components one slot of the variable occupies (elements times dmul).
CompCount(v) == TypeInfo[v.type].elems * (IF TypeInfo[v.type].is32 THEN 1 ELSE 2)
NumSlots(v) == TypeInfo[v.type].slots

\* get_num_components
NumComponents(v) == TypeInfo[v.type].elems

\* is_packing_supported_for_type
PackingSupported(v) == TypeInfo[v.type].scalar /\ TypeInfo[v.type].is32

\* A variable's location is a generic or patch varying the passes remap.
InRemapRange(v) == v.loc >= VAR0 /\ v.loc - VAR0 < MaxInclPatch

\* get_variable_io_mask, as the set of bits it sets.
IoMask(v) ==
  IF v.loc < 0 THEN {}
  ELSE LET l == IF v.patch THEN v.loc - PATCH0 ELSE v.loc
       IN l..(l + NumSlots(v) - 1)

\* get_interp_type
InterpType(v) ==
  IF TypeInfo[v.type].integer THEN INTERP_FLAT
  ELSE IF v.interp # INTERP_NONE THEN v.interp
  ELSE IF DefaultToSmooth THEN INTERP_SMOOTH
  ELSE INTERP_NONE

\* get_interp_loc (the sample qualifier is not modelled: it is a third
\* value compared the same way)
InterpLoc(v) == IF v.centroid THEN LOC_CENTROID ELSE LOC_CENTER

\* The (slot, component) pairs a variable occupies.
Footprint(v) ==
  { <<s, c>> : s \in v.loc..(v.loc + NumSlots(v) - 1),
               c \in v.frac..(v.frac + CompCount(v) - 1) }

VARIABLES
  pvars,   \* producer variables: id -> record
  cvars,   \* consumer variables: id -> record
  pLoads,  \* producer outputs its body loads (TCS only)
  cLoads,  \* consumer inputs its body loads
  pInfo,   \* producer shader_info: outputs_written/read, patch_ variants
  cInfo,   \* consumer shader_info: inputs_read, patch_inputs_read
  ops,     \* passes run so far
  lastOp,  \* the pass run last
  pairs0,  \* producer/consumer pairs that matched initially (history)
  compactAssert \* the assertion in compact_components's loop has held

vars == <<pvars, cvars, pLoads, cLoads, pInfo, cInfo, ops, lastOp, pairs0,
          compactAssert>>

-----------------------------------------------------------------------------
(***************************************************************************)
(* The interfaces a front end can hand to the linker.                      *)
(***************************************************************************)
PatchStages == ProducerStage = "TCS" /\ ConsumerStage = "TES"

Decls(mode) ==
  { v \in [mode: {mode}, loc: LocChoices, frac: FracChoices, type: TypeChoices,
           interp: InterpChoices, centroid: CentroidChoices, patch: BOOLEAN,
           aa: IF mode = "out" THEN AAChoices ELSE {FALSE},
           xfb: IF mode = "out" THEN XfbChoices ELSE {FALSE}] :
      /\ v.frac + CompCount(v) <= 4
      /\ v.type = "double" => v.frac \in {0, 2}
      /\ (v.loc < VAR0) = (v.type = "vec4")
      /\ v.loc < VAR0 => v.frac = 0 /\ ~v.aa /\ ~v.xfb /\ ~v.patch
      /\ v.loc >= VAR0 => v.patch = (v.loc >= PATCH0)
      /\ v.patch => PatchStages
      /\ v.loc + NumSlots(v) <= IF v.patch THEN PATCH0 + MaxVarying ELSE PATCH0 }

Slots(v) == v.loc..(v.loc + NumSlots(v) - 1)

\* GLSL location aliasing rules within one stage's interface: no component
\* is declared twice, and variables sharing a location agree on numeric
\* type, bit size and interpolation qualification.
StageValid(vs) ==
  \A a, b \in DOMAIN vs : a # b =>
     /\ Footprint(vs[a]) \cap Footprint(vs[b]) = {}
     /\ Slots(vs[a]) \cap Slots(vs[b]) # {} =>
          /\ TypeInfo[vs[a].type].integer = TypeInfo[vs[b].type].integer
          /\ TypeInfo[vs[a].type].is32 = TypeInfo[vs[b].type].is32
          /\ InterpType(vs[a]) = InterpType(vs[b])
          /\ InterpLoc(vs[a]) = InterpLoc(vs[b])

\* An output and an input that overlap are the same varying: same
\* location, component and type (interpolation may differ across stages).
Matches(o, i) == o.loc = i.loc /\ o.frac = i.frac
CrossValid(ps, cs) ==
  \A p \in DOMAIN ps, c \in DOMAIN cs :
     Footprint(ps[p]) \cap Footprint(cs[c]) # {} =>
        Matches(ps[p], cs[c]) /\ ps[p].type = cs[c].type

\* The shader_info masks nir_shader_gather_info leaves for these variables.
MaskOf(vs, ids, patch) == UNION { IoMask(vs[i]) : i \in {j \in ids : vs[j].patch = patch} }

\* The rest of the initial state, once the interface variables are chosen.
InitBodies ==
  /\ pLoads \in IF ProducerStage = "TCS" THEN SUBSET OutIds ELSE {{}}
  /\ cLoads \in SUBSET InIds
  /\ pInfo = [written  |-> MaskOf(pvars, OutIds, FALSE),
              read     |-> MaskOf(pvars, pLoads, FALSE),
              pwritten |-> MaskOf(pvars, OutIds, TRUE),
              pread    |-> MaskOf(pvars, pLoads, TRUE)]
  /\ cInfo = [read  |-> MaskOf(cvars, cLoads, FALSE),
              pread |-> MaskOf(cvars, cLoads, TRUE)]
  /\ ops = 0
  /\ lastOp = "none"
  /\ pairs0 = { <<p, c>> \in OutIds \X InIds :
                  pvars[p].loc >= VAR0 /\ Matches(pvars[p], cvars[c]) }
  /\ compactAssert = TRUE

Init ==
  /\ pvars \in [OutIds -> Decls("out")]
  /\ StageValid(pvars)
  /\ cvars \in [InIds -> Decls("in")]
  /\ StageValid(cvars)
  /\ CrossValid(pvars, cvars)
  /\ InitBodies

-----------------------------------------------------------------------------
(***************************************************************************)
(* nir_link_xfb_varyings: an always-active (transform feedback) output     *)
(* marks the consumer input recorded for its location always-active too.  *)
(* input_vars[location] keeps the last input seen at that location.        *)
(***************************************************************************)
InGenericRange(v) == v.loc >= VAR0 /\ v.loc - VAR0 < MaxVarying

LastInputAt(loc) ==
  LET at == { c \in InIds : cvars[c].mode = "in" /\ InGenericRange(cvars[c])
                            /\ cvars[c].loc = loc }
  IN IF at = {} THEN 0 ELSE CHOOSE c \in at : \A d \in at : d <= c

XfbMarked ==
  { LastInputAt(pvars[p].loc) :
      p \in { q \in OutIds : pvars[q].mode = "out" /\ InGenericRange(pvars[q])
                             /\ pvars[q].aa } } \ {0}

LinkXfbVaryings ==
  /\ cvars' = [c \in InIds |-> IF c \in XfbMarked THEN [cvars[c] EXCEPT !.aa = TRUE]
                                                 ELSE cvars[c]]
  /\ UNCHANGED <<pvars, pLoads, cLoads, pInfo, cInfo, pairs0, compactAssert>>

-----------------------------------------------------------------------------
(***************************************************************************)
(* nir_remove_unused_varyings.  The four per-component masks are built     *)
(* from both stages first; for a TCS producer its own output loads count   *)
(* as reads (tcs_add_output_reads).  Then nir_remove_unused_io_vars        *)
(* demotes every unused output, then every unused input, to a temporary.   *)
(***************************************************************************)
Live(vs, mode) == { i \in DOMAIN vs : vs[i].mode = mode }

\* used[i] for i in 0..3: the io masks of the variables (of the given
\* patch-ness) whose components include i.
ComponentMasks(vs, ids, patch) ==
  [i \in 0..3 |->
     UNION { IoMask(vs[v]) :
               v \in { w \in ids : vs[w].patch = patch /\ vs[w].frac <= i
                                   /\ i < vs[w].frac + NumComponents(vs[w]) } }]

\* Mutation: tcs_add_output_reads is not called.
TcsReads_None == {}

\* The output loads of a TCS body that still dereference shader outputs.
TcsReads == IF ProducerStage = "TCS" THEN pLoads \cap Live(pvars, "out") ELSE {}

Read(patch) ==
  [i \in 0..3 |-> ComponentMasks(cvars, Live(cvars, "in"), patch)[i]
                  \cup ComponentMasks(pvars, TcsReads, patch)[i]]

Written(patch) == ComponentMasks(pvars, Live(pvars, "out"), patch)

\* Mutation: the mask of component 0 is tested whatever location_frac is.
RemoveUnusedIoVars_FirstComp(vs, mode, used, usedPatches) ==
  [i \in DOMAIN vs |->
     LET v == vs[i]
         u == IF v.patch THEN usedPatches ELSE used
     IN IF /\ v.mode = mode /\ ~(v.loc < VAR0 /\ v.loc >= 0) /\ ~v.aa /\ ~v.xfb
           /\ u[0] \cap IoMask(v) = {}
        THEN [v EXCEPT !.loc = 0, !.mode = "temp"]
        ELSE v]

\* nir_remove_unused_io_vars for one shader and mode.
RemoveUnusedIoVars(vs, mode, used, usedPatches) ==
  [i \in DOMAIN vs |->
     LET v == vs[i]
         u == IF v.patch THEN usedPatches ELSE used
     IN IF /\ v.mode = mode
           /\ ~(v.loc < VAR0 /\ v.loc >= 0)
           /\ ~v.aa
           /\ ~v.xfb
           /\ u[v.frac] \cap IoMask(v) = {}
        THEN [v EXCEPT !.loc = 0, !.mode = "temp"]
        ELSE v]

RemoveUnusedVaryings ==
  /\ pvars' = RemoveUnusedIoVars(pvars, "out", Read(FALSE), Read(TRUE))
  /\ cvars' = RemoveUnusedIoVars(cvars, "in", Written(FALSE), Written(TRUE))
  /\ UNCHANGED <<pLoads, cLoads, pInfo, cInfo, pairs0, compactAssert>>

-----------------------------------------------------------------------------
(***************************************************************************)
(* nir_compact_varyings.                                                   *)
(* assigned_comps: per slot relative to VAR0, the components taken and     *)
(* the interpolation type/location and bit size of their occupant.         *)
(***************************************************************************)
SlotIdx == 0..(MaxInclPatch - 1)
NoComps == [comps |-> {}, interp |-> 0, iloc |-> 0, is32 |-> FALSE]

\* get_unmoveable_components_masks for one variable: a variable that cannot
\* be packed keeps its components (dual-slot types are not modelled).
MarkUnmoveable(ac, v) ==
  IF ~(InRemapRange(v) /\ ~PackingSupported(v)) THEN ac
  ELSE LET l == v.loc - VAR0
           own == v.frac..(v.frac + CompCount(v) - 1)
       IN [s \in SlotIdx |->
             IF s \in l..(l + NumSlots(v) - 1)
             THEN [comps |-> ac[s].comps \cup own, interp |-> InterpType(v),
                   iloc |-> InterpLoc(v), is32 |-> TypeInfo[v.type].is32]
             ELSE ac[s]]

\* The variables of one mode, in list order.
ListOf(vs, mode) == SelectSeq([i \in 1..Len(vs) |-> i], LAMBDA i : vs[i].mode = mode)

UnmoveableMasks(ac, vs, mode) ==
  FoldLeft(LAMBDA acc, i : MarkUnmoveable(acc, vs[i]), ac, ListOf(vs, mode))

(***************************************************************************)
(* gather_varying_component_info.  One record per packable producer        *)
(* output, filled from the consumer input the consumer body loads at the   *)
(* same location/component, or else, for a TCS, from the producer's own    *)
(* output load (intra-stage only).  A TCS output load with no record, or a *)
(* record left uninitialised, abandons packing: no records.                *)
(***************************************************************************)
\* Mutation: always-active outputs are not skipped.
Packable_WithAA(p) ==
  /\ pvars[p].mode = "out" /\ InRemapRange(pvars[p]) /\ PackingSupported(pvars[p])

Packable(p) ==
  /\ pvars[p].mode = "out" /\ InRemapRange(pvars[p])
  /\ ~pvars[p].aa /\ PackingSupported(pvars[p])

Record(v, intra) ==
  [loc |-> v.loc, frac |-> v.frac, interp |-> InterpType(v), iloc |-> InterpLoc(v),
   is32 |-> TypeInfo[v.type].is32, patch |-> v.patch, intra |-> intra]

LoadedInputAt(o) ==
  { c \in cLoads : cvars[c].mode = "in" /\ InRemapRange(cvars[c]) /\ Matches(o, cvars[c]) }

TcsLoadAt(o) ==
  { q \in TcsReads : InRemapRange(pvars[q]) /\ Matches(o, pvars[q]) }

GatherRecords ==
  LET ids == SelectSeq([i \in 1..NumOut |-> i], Packable)
      initialised(p) == LoadedInputAt(pvars[p]) # {} \/ TcsLoadAt(pvars[p]) # {}
      info(p) == IF LoadedInputAt(pvars[p]) # {}
                 THEN Record(cvars[CHOOSE c \in LoadedInputAt(pvars[p]) : TRUE], FALSE)
                 ELSE Record(pvars[CHOOSE q \in TcsLoadAt(pvars[p]) : TRUE], TRUE)
      tcsMismatch == \E q \in TcsReads :
                        /\ InRemapRange(pvars[q])
                        /\ ~\E k \in 1..Len(ids) : Matches(pvars[ids[k]], pvars[q])
  IN IF tcsMismatch \/ \E k \in 1..Len(ids) : ~initialised(ids[k])
     THEN <<>> ELSE [k \in 1..Len(ids) |-> info(ids[k])]

\* Mutation: patch records sort first.
Cmp_PatchFirst(a, b) ==
  IF a.patch # b.patch THEN (IF a.patch THEN -1 ELSE 1)
  ELSE IF a.intra # b.intra THEN (IF a.intra THEN 1 ELSE -1)
  ELSE IF a.interp # b.interp THEN a.interp - b.interp
  ELSE IF a.iloc # b.iloc THEN a.iloc - b.iloc
  ELSE a.loc - b.loc

\* cmp_varying_component, as the sign of its result.
Cmp(a, b) ==
  IF a.patch # b.patch THEN (IF a.patch THEN 1 ELSE -1)
  ELSE IF a.intra # b.intra THEN (IF a.intra THEN 1 ELSE -1)
  ELSE IF a.interp # b.interp THEN a.interp - b.interp
  ELSE IF a.iloc # b.iloc THEN a.iloc - b.iloc
  ELSE a.loc - b.loc

\* qsort leaves the order of records that compare equal unspecified: any
\* permutation ordered by Cmp is a possible result.
QsortResults(recs) ==
  { [k \in 1..Len(recs) |-> recs[perm[k]]] :
      perm \in { f \in SetToSeqs(1..Len(recs)) :
                   \A i, j \in 1..Len(recs) : i < j => Cmp(recs[f[i]], recs[f[j]]) <= 0 } }

(***************************************************************************)
(* assign_remap_locations: scan slots from the cursor for a component      *)
(* whose slot is empty or holds 32-bit components of the same              *)
(* interpolation type and location.  Returns where the scan stopped and    *)
(* whether it placed the record there.                                     *)
(***************************************************************************)
FirstFreeFrom(comps, c) ==
  CHOOSE x \in c..4 : (x = 4 \/ x \notin comps) /\ \A y \in c..(x - 1) : y \in comps

\* Mutation: the interpolation and bit-size check is dropped.
RECURSIVE Scan_NoInterpCheck(_, _, _, _, _)
Scan_NoInterpCheck(ac, info, tc, comp, max) ==
  IF tc >= max THEN [found |-> FALSE, cursor |-> tc, comp |-> comp]
  ELSE LET c == IF ac[tc].comps # {} THEN FirstFreeFrom(ac[tc].comps, comp) ELSE comp
       IN IF c = 4 THEN Scan_NoInterpCheck(ac, info, tc + 1, 0, max)
          ELSE [found |-> TRUE, cursor |-> tc, comp |-> c]

\* Mutation: the loop skipping taken components is dropped.
RECURSIVE Scan_NoSkipTaken(_, _, _, _, _)
Scan_NoSkipTaken(ac, info, tc, comp, max) ==
  IF tc >= max THEN [found |-> FALSE, cursor |-> tc, comp |-> comp]
  ELSE IF ac[tc].comps # {} /\ (ac[tc].interp # info.interp \/ ac[tc].iloc # info.iloc
                                \/ ~ac[tc].is32)
  THEN Scan_NoSkipTaken(ac, info, tc + 1, 0, max)
  ELSE IF comp = 4 THEN Scan_NoSkipTaken(ac, info, tc + 1, 0, max)
  ELSE [found |-> TRUE, cursor |-> tc, comp |-> comp]

\* Mutation: the "tmp_comp == 4" test is dropped, a full slot is used.
RECURSIVE Scan_NoFullCheck(_, _, _, _, _)
Scan_NoFullCheck(ac, info, tc, comp, max) ==
  IF tc >= max THEN [found |-> FALSE, cursor |-> tc, comp |-> comp]
  ELSE IF ac[tc].comps # {} /\ (ac[tc].interp # info.interp \/ ac[tc].iloc # info.iloc
                                \/ ~ac[tc].is32)
  THEN Scan_NoFullCheck(ac, info, tc + 1, 0, max)
  ELSE [found |-> TRUE, cursor |-> tc,
        comp |-> IF ac[tc].comps # {} THEN FirstFreeFrom(ac[tc].comps, comp) ELSE comp]

RECURSIVE Scan(_, _, _, _, _)
Scan(ac, info, tc, comp, max) ==
  IF tc >= max THEN [found |-> FALSE, cursor |-> tc, comp |-> comp]
  ELSE IF ac[tc].comps # {} /\ (ac[tc].interp # info.interp \/ ac[tc].iloc # info.iloc
                                \/ ~ac[tc].is32)
  THEN Scan(ac, info, tc + 1, 0, max)
  ELSE LET c == IF ac[tc].comps # {} THEN FirstFreeFrom(ac[tc].comps, comp) ELSE comp
       IN IF c = 4 THEN Scan(ac, info, tc + 1, 0, max)
          ELSE [found |-> TRUE, cursor |-> tc, comp |-> c]

\* st = [ac, remap, cursor, comp, asserted]; remap maps the key
\* <<location - VAR0, location_frac>> of a record to its new location.
AssignRemapLocations(st, info, max) ==
  LET r == Scan(st.ac, info, st.cursor, st.comp, max)
  IN IF ~r.found THEN [st EXCEPT !.cursor = r.cursor, !.comp = r.comp]
     ELSE [st EXCEPT
             !.ac[r.cursor] = [comps |-> @.comps \cup {r.comp}, interp |-> info.interp,
                               iloc |-> info.iloc, is32 |-> info.is32],
             !.remap = @ @@ (<<info.loc - VAR0, info.frac>> :> [location |-> r.cursor + VAR0,
                                                                 component |-> r.comp]),
             !.cursor = r.cursor,
             !.comp = r.comp + 1]

\* One iteration of the loop of compact_components, including its
\* assert(info->is_patch || cursor < MAX_VARYING).
PlaceRecord(st, info) ==
  LET st0 == [st EXCEPT !.asserted = @ /\ (info.patch \/ st.cursor < MaxVarying)]
  IN IF info.patch
     THEN AssignRemapLocations(IF st0.cursor < MaxVarying
                               THEN [st0 EXCEPT !.cursor = MaxVarying, !.comp = 0]
                               ELSE st0, info, MaxInclPatch)
     ELSE LET st1 == AssignRemapLocations(st0, info, MaxVarying)
          IN IF st1.cursor = MaxVarying
             THEN AssignRemapLocations([st1 EXCEPT !.cursor = 0, !.comp = 0], info, MaxVarying)
             ELSE st1

PlaceAll(ac, recs) ==
  FoldLeft(PlaceRecord,
           [ac |-> ac, remap |-> <<>>, cursor |-> 0, comp |-> 0, asserted |-> TRUE],
           recs)

(***************************************************************************)
(* remap_slots_and_components for one shader: move every variable that has *)
(* a remap entry, and rebuild the slot masks from the moved variables.     *)
(* m = [used, outs, pused, pouts]: slots_used and out_slots_read, and the  *)
(* patch variants (relative to PATCH0).  Builtin bits of slots_used are    *)
(* copied; a moved variable marks its new slots when its old slots were    *)
(* set; an always-active one copies the old bits that its slots cover.     *)
(***************************************************************************)
Range64(first, n) == first..(first + n - 1)

\* Mutation: a moved variable marks the slots it occupied before the move.
MarkSlots_Old(v, old, new, mask) == IF old \cap mask = {} THEN {} ELSE old

\* The bits one variable contributes to a rebuilt mask: none unless its old
\* slots were set in the old mask; an always-active variable copies the old
\* bits its new slots cover (mark_all_used_slots), any other sets its new
\* slots (mark_used_slot).
MarkSlots(v, old, new, mask) ==
  IF old \cap mask = {} THEN {}
  ELSE IF v.aa THEN mask \cap new ELSE new

Moved(v, remap) ==
  LET key == <<v.loc - VAR0, v.frac>>
  IN IF InRemapRange(v) /\ key \in DOMAIN remap
     THEN [v EXCEPT !.loc = remap[key].location, !.frac = remap[key].component]
     ELSE v

RemapSlotsAndComponents(vs, mode, remap, m) ==
  LET ids == { i \in DOMAIN vs : vs[i].mode = mode /\ InRemapRange(vs[i]) }
      off(v) == IF v.patch THEN PATCH0 ELSE 0
      used(v) == IF v.patch THEN m.pused ELSE m.used
      outs(v) == IF v.patch THEN m.pouts ELSE m.outs
      old(i) == Range64(vs[i].loc - off(vs[i]), NumSlots(vs[i]))
      new(i) == Range64(Moved(vs[i], remap).loc - off(vs[i]), NumSlots(vs[i]))
      mark(i, mask) == MarkSlots(vs[i], old(i), new(i), mask)
      marks(patch, sel(_)) ==
        UNION { mark(i, sel(vs[i])) : i \in { j \in ids : vs[j].patch = patch } }
  IN [vars  |-> [i \in DOMAIN vs |-> IF i \in ids THEN Moved(vs[i], remap) ELSE vs[i]],
      used  |-> (m.used \cap Range64(0, VAR0)) \cup marks(FALSE, used),
      outs  |-> marks(FALSE, outs),
      pused |-> marks(TRUE, used),
      pouts |-> marks(TRUE, outs)]

\* Mutation: the consumer's variables and masks are not remapped.
CompactVaryings_NoConsumerRemap ==
  LET ac0 == [s \in SlotIdx |-> NoComps]
      ac == UnmoveableMasks(UnmoveableMasks(ac0, pvars, "out"), cvars, "in")
  IN \E recs \in QsortResults(GatherRecords) :
       LET st == PlaceAll(ac, recs)
           p == RemapSlotsAndComponents(pvars, "out", st.remap,
                  [used |-> pInfo.written, outs |-> pInfo.read,
                   pused |-> pInfo.pwritten, pouts |-> pInfo.pread])
       IN /\ pvars' = p.vars
          /\ pInfo' = [written |-> p.used, read |-> p.outs,
                       pwritten |-> p.pused, pread |-> p.pouts]
          /\ compactAssert' = (compactAssert /\ st.asserted)
          /\ UNCHANGED <<cvars, cInfo, pLoads, cLoads, pairs0>>

\* compact_components, after the masks of the unmoveable variables.
CompactVaryings ==
  LET ac0 == [s \in SlotIdx |-> NoComps]
      ac == UnmoveableMasks(UnmoveableMasks(ac0, pvars, "out"), cvars, "in")
  IN \E recs \in QsortResults(GatherRecords) :
       LET st == PlaceAll(ac, recs)
           c == RemapSlotsAndComponents(cvars, "in", st.remap,
                  [used |-> cInfo.read, outs |-> {}, pused |-> cInfo.pread, pouts |-> {}])
           p == RemapSlotsAndComponents(pvars, "out", st.remap,
                  [used |-> pInfo.written, outs |-> pInfo.read,
                   pused |-> pInfo.pwritten, pouts |-> pInfo.pread])
       IN /\ cvars' = c.vars
          /\ cInfo' = [read |-> c.used, pread |-> c.pused]
          /\ pvars' = p.vars
          /\ pInfo' = [written |-> p.used, read |-> p.outs,
                       pwritten |-> p.pused, pread |-> p.pouts]
          /\ compactAssert' = (compactAssert /\ st.asserted)
          /\ UNCHANGED <<pLoads, cLoads, pairs0>>

-----------------------------------------------------------------------------
(***************************************************************************)
(* The linker's use of the passes: nir_link_xfb_varyings once, before any  *)
(* optimisation; then removal and compaction, compaction only after a      *)
(* removal ("We assume that this has been called more-or-less directly     *)
(* after remove_unused_varyings").  At most MaxOps passes are run.         *)
(***************************************************************************)
Pass(name, A) ==
  /\ ops < MaxOps
  /\ A
  /\ ops' = ops + 1
  /\ lastOp' = name

Next ==
  \/ ops = 0 /\ Pass("xfb", LinkXfbVaryings)
  \/ Pass("remove", RemoveUnusedVaryings)
  \/ lastOp \in {"remove", "compact"} /\ Pass("compact", CompactVaryings)

Spec == Init /\ [][Next]_vars

-----------------------------------------------------------------------------
(***************************************************************************)
(* nir_assign_io_var_locations (part_002:1062-1204) over one stage's       *)
(* varyings, as an operator of the interface a state holds.  Varyings use  *)
(* base VARYING_SLOT_VAR0 in every stage pair the linker joins and         *)
(* data.index 0; no compact (clip/cull distance) array is declared, so     *)
(* last_partial stays FALSE.  The walk carries the next driver location,   *)
(* assigned_locations (NoLoc where never written), the processed_locs      *)
(* bits, each variable's driver_location, and whether some variable read  *)
(* an assigned_locations entry nothing wrote.                              *)
(***************************************************************************)
\* The variables still of an interface mode (not demoted to temporaries).
Interface(vs) == { i \in DOMAIN vs : vs[i].mode # "temp" }

TessMax == PATCH0 + MaxVarying          \* VARYING_SLOT_TESS_MAX
NoLoc == -1

\* insert_sorted: before the first listed variable of greater location.
InsertSorted(vs, list, id) ==
  LET after == { k \in 1..Len(list) : vs[list[k]].loc > vs[id].loc }
  IN IF after = {} THEN Append(list, id) ELSE InsertAt(list, Min(after), id)

\* The loop of sort_varyings from the k-th variable of ids on.
RECURSIVE SortFrom(_, _, _, _)
SortFrom(vs, ids, list, k) ==
  IF k > Len(ids) THEN list ELSE SortFrom(vs, ids, InsertSorted(vs, list, ids[k]), k + 1)

\* sort_varyings, taking the variables of the mode in declaration order.
SortVaryings(vs, mode) == SortFrom(vs, ListOf(vs, mode), <<>>, 1)

\* assigned_locations[first + k] = loc + k for the slots first..last.
AssignRun(assigned, first, last, loc) ==
  [s \in DOMAIN assigned |-> IF s \in first..last THEN loc + s - first ELSE assigned[s]]

\* Mutation: a shared first slot is taken without allocating the array's
\* slots past what the earlier variable allocated.
IoVarStep_NoExtend(st, vs, id) ==
  LET v == vs[id]
      glsl == IF v.loc >= VAR0 THEN (v.loc - VAR0)..(v.loc - VAR0 + NumSlots(v) - 1) ELSE {}
      dl == st.assigned[v.loc]
  IN IF glsl \cap st.processed # {}
     THEN [st EXCEPT !.processed = @ \cup glsl, !.driver = @ @@ (id :> dl),
                     !.uninit = @ \/ dl = NoLoc]
     ELSE [st EXCEPT !.processed = @ \cup glsl, !.driver = @ @@ (id :> st.location),
                     !.assigned = AssignRun(@, v.loc, v.loc + NumSlots(v) - 1, st.location),
                     !.location = @ + NumSlots(v)]

\* One iteration of the loop over the sorted list.  A variable one of whose
\* slots an earlier one took starts at assigned_locations[location]; the
\* slots it has past the driver locations handed out so far are allocated
\* after them.
IoVarStep(st, vs, id) ==
  LET v == vs[id]
      size == NumSlots(v)
      glsl == IF v.loc >= VAR0 THEN (v.loc - VAR0)..(v.loc - VAR0 + size - 1) ELSE {}
      dl == st.assigned[v.loc]
      unallocated == dl + size - st.location        \* num_unallocated_slots
  IN IF glsl \cap st.processed # {}
     THEN [st EXCEPT !.processed = @ \cup glsl, !.driver = @ @@ (id :> dl),
                     !.uninit = @ \/ dl = NoLoc,
                     !.assigned = IF unallocated > 0
                                  THEN AssignRun(@, v.loc + size - unallocated, v.loc + size - 1, st.location)
                                  ELSE @,
                     !.location = IF unallocated > 0 THEN @ + unallocated ELSE @]
     ELSE [st EXCEPT !.processed = @ \cup glsl, !.driver = @ @@ (id :> st.location),
                     !.assigned = AssignRun(@, v.loc, v.loc + size - 1, st.location),
                     !.location = @ + size]

\* The loop of nir_assign_io_var_locations from the k-th sorted variable on.
RECURSIVE WalkFrom(_, _, _, _)
WalkFrom(st, vs, list, k) ==
  IF k > Len(list) THEN st ELSE WalkFrom(IoVarStep(st, vs, list[k]), vs, list, k + 1)

\* nir_assign_io_var_locations; .location is what it stores in *size.
AssignIoVarLocations(vs, mode) ==
  WalkFrom([location |-> 0, assigned |-> [s \in 0..(TessMax - 1) |-> NoLoc],
            processed |-> {}, driver |-> [i \in {} |-> 0], uninit |-> FALSE],
           vs, SortVaryings(vs, mode), 1)

(***************************************************************************)
(* nir_assign_linked_io_var_locations (part_002:1206-1304): slots of both  *)
(* stages are numbered by get_linked_variable_location (generic patch      *)
(* slots after four reserved ones), and a variable's driver_location is    *)
(* four times the number of slots of the joint mask below its own.  The    *)
(* tess level and bounding box builtins are not declared in this model.   *)
(***************************************************************************)
LinkedLocation(v) == IF v.patch THEN v.loc - PATCH0 + 4 ELSE v.loc

\* get_linked_variable_io_mask shifted to the variable's location.
LinkedSlots(v) == LinkedLocation(v)..(LinkedLocation(v) + NumSlots(v) - 1)

\* io_mask (patch FALSE) or patch_io_mask (patch TRUE): the producer's
\* outputs or'ed with the consumer's inputs.
LinkedIoMask(patch) ==
  LET decl == { pvars[p] : p \in Interface(pvars) } \cup { cvars[c] : c \in Interface(cvars) }
  IN UNION { LinkedSlots(v) : v \in { w \in decl : w.patch = patch } }

\* Mutation: the slot count takes the variable's own slot too.
LinkedDriverLocation_Inclusive(mask, loc) ==
  4 * Cardinality({ b \in mask : b <= loc })

\* driver_location: util_bitcount64(mask & u_bit_consecutive64(0, loc)) * 4.
LinkedDriverLocation(mask, loc) ==
  4 * Cardinality({ b \in mask : b < loc })

-----------------------------------------------------------------------------
(***************************************************************************)
(* Properties.                                                             *)
(***************************************************************************)
VarType(mode) ==
  [mode: {mode, "temp"}, loc: Int, frac: 0..3, type: Types, interp: 0..3,
   centroid: BOOLEAN, patch: BOOLEAN, aa: BOOLEAN, xfb: BOOLEAN]

TypeOK ==
  /\ pvars \in [OutIds -> VarType("out")]
  /\ cvars \in [InIds -> VarType("in")]
  /\ pLoads \subseteq OutIds /\ cLoads \subseteq InIds
  /\ pInfo \in [written: SUBSET Int, read: SUBSET Int, pwritten: SUBSET Int, pread: SUBSET Int]
  /\ cInfo \in [read: SUBSET Int, pread: SUBSET Int]
  /\ ops \in 0..MaxOps
  /\ lastOp \in {"none", "xfb", "remove", "compact"}
  /\ compactAssert \in BOOLEAN


(* After any sequence of passes, no two interface variables of the same    *)
(* stage occupy the same (slot, component): compaction (assign_remap_      *)
(* locations over assigned_comps) only hands out components that no        *)
(* variable staying in place holds.                                        *)
NoComponentOverlap ==
  \A vs \in {pvars, cvars} :
    \A a, b \in Interface(vs) :
      a # b => Footprint(vs[a]) \cap Footprint(vs[b]) = {}

(* An output and an input that were linked (same location and component)  *)
(* before linking are still linked afterwards, while both stay interface   *)
(* variables: remap_slots_and_components moves both sides by the same key. *)
LinkedPairsStayLinked ==
  \A pc \in pairs0 :
    pc[1] \in Interface(pvars) /\ pc[2] \in Interface(cvars) =>
      Matches(pvars[pc[1]], cvars[pc[2]])

(* Consumer inputs sharing a slot agree on interpolation type and location *)
(* (the packing rule assign_remap_locations enforces).                     *)
SharedSlotsInterpolateAlike ==
  \A a, b \in Interface(cvars) :
    a # b /\ Slots(cvars[a]) \cap Slots(cvars[b]) # {} =>
      InterpType(cvars[a]) = InterpType(cvars[b]) /\ InterpLoc(cvars[a]) = InterpLoc(cvars[b])

(* The shader_info masks cover the current slots of every input the        *)
(* consumer loads and every output the producer writes: after compaction   *)
(* rebuilds them, no live varying has dropped out of inputs_read or         *)
(* outputs_written.                                                         *)
MasksCoverLiveVaryings ==
  /\ \A c \in cLoads \cap Interface(cvars) :
       cvars[c].loc >= VAR0 =>
         IoMask(cvars[c]) \subseteq IF cvars[c].patch THEN cInfo.pread ELSE cInfo.read
  /\ \A p \in Interface(pvars) :
       IoMask(pvars[p]) \subseteq IF pvars[p].patch THEN pInfo.pwritten ELSE pInfo.written

(* A TCS output that the TCS loads back keeps its bits in outputs_read (or *)
(* patch_outputs_read) after every pass, builtins such as gl_Position      *)
(* included: remap_slots_and_components rebuilds outputs_read from the     *)
(* remapped generic outputs only (part_002:367-370 copy the builtin bits    *)
(* of slots_used alone), and the driver's TCS lowering reads that mask.    *)
TcsReadBackInOutputsRead ==
  \A p \in TcsReads :
    IoMask(pvars[p]) \subseteq IF pvars[p].patch THEN pInfo.pread ELSE pInfo.read

(* The assert(info->is_patch || cursor < MAX_VARYING) of compact_components *)
(* never fails.                                                             *)
CompactAssertHolds == compactAssert

Overlap(a, b) == Footprint(a) \cap Footprint(b) # {}

(* nir_remove_unused_varyings never demotes an output that the consumer    *)
(* loads or (TCS) the producer itself loads, nor an input the producer     *)
(* still writes.                                                           *)
NoLiveVaryingDemoted ==
  [][ /\ \A p \in Interface(pvars) :
           pvars'[p].mode = "temp" =>
             /\ ~\E c \in cLoads \cap Interface(cvars) : Overlap(pvars[p], cvars[c])
             /\ p \notin pLoads
      /\ \A c \in Interface(cvars) :
           cvars'[c].mode = "temp" =>
             ~\E p \in Interface(pvars) : Overlap(pvars[p], cvars[c])
    ]_vars


(* Whatever locations linking leaves, nir_assign_io_var_locations gives    *)
(* each stage's varyings driver locations that alias exactly as their      *)
(* slots do: a slot two variables share (component packing, or an array    *)
(* crossing other variables) gets one driver location, distinct slots get  *)
(* distinct ones, all below *size, and no variable starts at an entry of   *)
(* assigned_locations never written.  This rests on the ascending sort and *)
(* on the allocation of an array's slots past the earlier variables.       *)
IoLocationsAlias ==
  \A sv \in { <<pvars, "out">>, <<cvars, "in">> } :
    LET vs == sv[1]
        a == AssignIoVarLocations(vs, sv[2])
        at(i, s) == a.driver[i] + s - vs[i].loc
    IN /\ ~a.uninit
       /\ \A i, j \in DOMAIN a.driver :
            \A s \in Slots(vs[i]), t \in Slots(vs[j]) : (at(i, s) = at(j, t)) <=> (s = t)
       /\ \A i \in DOMAIN a.driver : at(i, vs[i].loc + NumSlots(vs[i]) - 1) < a.location

(* nir_assign_linked_io_var_locations numbers the slots of the producer's  *)
(* outputs and the consumer's inputs jointly: an output and an input at    *)
(* the same slot get the same driver location, distinct slots of either    *)
(* stage distinct vec4s, and every vec4 lies below four times              *)
(* num_linked_io_vars (num_linked_patch_io_vars for patch varyings), the   *)
(* size a driver allocates from the result.                                *)
LinkedIoLocationsAgree ==
  LET decl == { pvars[p] : p \in Interface(pvars) } \cup { cvars[c] : c \in Interface(cvars) }
      ioMask == LinkedIoMask(FALSE)
      patchIoMask == LinkedIoMask(TRUE)
      mask(v) == IF v.patch THEN patchIoMask ELSE ioMask
      at(v, s) == LinkedDriverLocation(mask(v), LinkedLocation(v)) + 4 * (s - LinkedLocation(v))
  IN /\ \A x, y \in decl : x.patch = y.patch =>
          \A s \in LinkedSlots(x), t \in LinkedSlots(y) : (at(x, s) = at(y, t)) <=> (s = t)
     /\ \A x \in decl : at(x, LinkedLocation(x) + NumSlots(x) - 1) < 4 * Cardinality(mask(x))

====
