# TLA+ models of osmesa-src's varying linker, format translator and rasterizer state

The repository's sources sit under `src/unnamed/` in three parts, and one
file under `src/mesa-src/`:

| part | contents |
|------|----------|
| `part_000` | `u_format.c`: format predicates, `util_copy_rect`, `util_is_format_compatible`, `util_format_fits_8unorm`, `util_format_translate(_3d)`, the swizzle helpers |
| `part_001` | the vmwgfx DRM target `create_screen` |
| `part_002` | `nir_linking_helpers.c`: xfb marking, unused-varying removal, varying compaction, `nir_link_opt_varyings`, IO location assignment |
| `src/mesa-src/src/mesa/state_tracker/st_atom_rasterizer.c` | `translate_fill`, `st_update_rasterizer`, and (297-316) the Intel PCI-id table |

Three of these parts hold non-trivial control and state, and each has a module:

* The NIR linker (`part_002`) rewrites the interface of two adjacent shader
  stages. The producer's outputs and the consumer's inputs must keep
  matching location and component while passes remove dead varyings and
  pack the live ones into fewer slots.
* The format translator (`part_000`) converts a rectangle, or a stack of
  slices, from one pipe format to another. It picks one of six paths,
  allocates a temporary row buffer, and walks the rows in batches of the
  larger block height.
* The rasterizer atom (`st_atom_rasterizer.c`) derives gallium's
  `pipe_rasterizer_state` from the GL context each time a draw finds
  rasterizer state dirty. The struct lives in the `st_context` and is
  rewritten in place.

The parts do not interact in the code, so there is no composed module.

## Modules

### `NirLinking.tla` / `MC_NirLinking.tla`

**State.**
* A stage is abstracted to its interface variables. `pvars` holds the
  producer outputs and `cvars` the consumer inputs. Each is a record with
  `loc`, `frac`, `type`, `interp`, `centroid`, `patch`, `aa`
  (always_active_io), `xfb` and `mode`, where mode `temp` means demoted to a
  global.
* `pLoads` and `cLoads` are the variables the shader bodies load.
* `pInfo` and `cInfo` are the `shader_info` slot masks: `outputs_written`,
  `outputs_read`, `inputs_read` and their patch forms.
* `ops` and `lastOp` record the passes run so far.
* `pairs0` is a ghost variable: the producer/consumer pairs linked at the
  start.
* `compactAssert` records whether the `assert(cursor < MAX_VARYING)` in
  `compact_components` has held.

**Actions.** Each action models one whole C function:

| action | code |
|--------|------|
| `LinkXfbVaryings` | `nir_link_xfb_varyings` (part_002:833-860) |
| `RemoveUnusedVaryings` | `nir_remove_unused_varyings` with `tcs_add_output_reads` and `remove_unused_io_vars` (71-212) |
| `CompactVaryings` | `nir_compact_varyings`: `get_unmoveable_components_masks`, `gather_varying_component_info`, `qsort`, `compact_components` / `assign_remap_locations`, `remap_slots_and_components` for both stages (263-827) |

`Next` runs xfb linking at most once, before the other passes. Removal runs
any number of times. Compaction runs only after a removal, as the comment at
part_002:797 requires. `MaxOps` bounds the number of passes.

**Algorithms as operators.**
* `qsort` with `cmp_varying_component` is `QsortResults`. It yields every
  ordering consistent with `Cmp`, because qsort is not stable and leaves
  ties in any order.
* The slot search of `assign_remap_locations` is the RECURSIVE `Scan`, which
  includes the retry from `VAR0` for packable varyings.
* Bitmasks are sets of slots or components. Types come from a small table
  with element count, slot count and 32-bit flag.

**IO location assignment.** The driver-location passes that run after
linking are operators over the interface a state holds, so every linking
state is also an input to them:
* `AssignIoVarLocations` is `nir_assign_io_var_locations` (1086-1204) for
  one stage's varyings. `SortVaryings` and `InsertSorted` are
  `sort_varyings` and `insert_sorted`, a stable insertion by location.
  The loop is the RECURSIVE `WalkFrom`, and `IoVarStep` is one iteration:
  `processed_locs`, the reuse of `assigned_locations` for a shared slot,
  and the allocation of an array's slots past the earlier variables.
  An `assigned_locations` entry that nothing wrote is `NoLoc`; reading it
  sets the `uninit` flag, because the C array is uninitialised.
* `LinkedLocation`, `LinkedSlots`, `LinkedIoMask` and
  `LinkedDriverLocation` are `nir_assign_linked_io_var_locations` and its
  helpers (1206-1304). A mask is a set of slot numbers and `util_bitcount64`
  is `Cardinality`.

**MC module.** It supplies the constant sets and restricted initial
predicates:
* `MC_Init` keeps an always-active output alone in its slot, which excludes
  finding F1 from the general runs.
* `MC_InitMirror` builds the consumer from the producer, so every output is
  read. This keeps the 3-variable enumeration tractable.
* `MC_InitExact` also has the interpolation match.

### `FormatTranslate.tla` / `MC_FormatTranslate.tla`

**State.**
* `call` holds the arguments of one call: its function (`2d` or `3d`), the
  two formats, block-aligned `y` and `z` origins, `height` and `depth`.
  Each format is stored as its description record (`Described`), which
  the translator looks up once at entry (579-590).
* `writes` holds the destination rows written. Each is a record: slice,
  pixel row, source slice and row, and what was written there (the copy, z,
  s or a conversion).
* `ret` is `success`, `failure` or `crash`. `crash` is a call through a NULL
  pack/unpack pointer.

**Actions.**
* `Translate` models `util_format_translate` (566-791).
* `Translate3D` models `util_format_translate_3d` (793-825).
* Each chooses the malloc outcomes with `\E a \in Allocs`. When
  `AllocMayFail` is FALSE, every malloc succeeds.

**Operators.**
* `Path` picks the branch (592-761).
* `IsFormatCompatible`, `Fits8unorm`, `IsPureSint` and `IsPureUint` are
  translated from their functions.
* `YStep` is `y_step`.
* `Batches` gives the row batches of the loop and its tail (682-694).
* `BatchWrites` computes the rows a batch writes. It starts from the row
  pointer exactly as the code computes it (`dst_y*dst_stride`, a stride of
  one block row).
* `CopyRectWrites` is `util_copy_rect`, which divides by the block height
  first.
* `Slices3D` is the slice loop with its early return.

Columns and pixel values are abstracted. A row record says what was written
there, not the bytes.

**Format catalogue.** `MC_FormatTranslate` describes nine formats:
R8G8B8A8_UNORM, R8G8B8X8_UNORM, R8G8B8A8_SRGB, R32_FLOAT, R8_UINT, R8_SINT,
Z32_FLOAT, Z24_UNORM_S8_UINT, and DXT1_RGB (4x4 blocks). Each has its
layout, block height, channel descriptions, swizzle, colorspace and the
pack/unpack functions its `u_format_table` entry provides. The generated
table is not in the repository, so the catalogue assumes the usual
generator output:
* non-integer colour formats have `unpack_rgba`, `unpack_rgba_8unorm`,
  `pack_rgba_float` and `pack_rgba_8unorm`;
* pure-integer formats have `unpack_rgba` and `pack_rgba_uint` /
  `pack_rgba_sint`;
* depth/stencil formats have only their z/s functions.

### `Swizzle.tla`

The swizzle helpers of `u_format.c` (part_000:827-909), written as
operators over four-channel vectors:
* `ComposeSwizzles` is `util_format_compose_swizzles`.
* `ApplyColorSwizzle` is `util_format_apply_color_swizzle`.
* `PipeSwizzle4f` is `pipe_swizzle_4f`.
* `Unswizzle4f` is `util_format_unswizzle_4f`. Its loop is the RECURSIVE
  `UnswizzleFrom` over `UnswizzleStep`, so when two source channels go to
  the same place the last one wins, as in the code.

A channel a helper does not write keeps the caller's buffer, which is
`Undef`. The reference definitions are:
* `ComposesSequentially`: applying a composed swizzle is applying the two
  swizzles one after the other.
* `UnswizzleInverts`: unswizzling restores every channel the swizzle read
  and leaves the others unwritten. It also states that
  `apply_color_swizzle` differs from `pipe_swizzle_4f` only on NONE.

`FormatTranslate` extends `Swizzle`, and the `translate` run checks both
definitions as invariants. The swizzles come from the two formats of the
call in each state, plus every swizzle over X, Y, 1 and NONE. The checks
have to be invariants over state because TLC reports a failing
constant-level invariant differently from a violation.

### `Rasterizer.tla` / `FaceSelection.tla` / `MC_Rasterizer.tla`

**State.**
* `gl` is the GL context and per-draw st state the atom reads: polygon,
  light, point, line, multisample, scissor, transform and conservative
  state, `st->state.fb_orientation` and `st->edgeflag_culls_prims`. The
  helpers the atom calls appear as their results (`TwoSideEnabled`,
  `PointSizePerVertex`, `MultisampleEnabled`, `Samples`, `FragReadsPntc`).
* `drv` holds the `st_context` capability flags (`lower_flatshade`,
  `lower_two_sided_color`, the `clamp_*_in_shader` flags, ...), the
  `ctx->Const` line-width limits and `ST_DEBUG & DEBUG_WIREFRAME`. They are
  fixed for a context.
* `raster` is `st->state.rasterizer`: a record of its 45 fields with
  bitfields as 0/1 or small integers and the `PIPE_*` values of
  `p_defines.h`. It starts zero (the context is calloc'd).
* `validated` records that the atom has run.

**Action.** `Validate` sets one field of `gl` to one of its values and then
runs `StUpdateRasterizer`, the whole of `st_update_rasterizer` (64-296). That
function is the composition of one operator per block of the code, in code
order, starting from the old struct: `Memset` (71), `FrontCcw`,
`LightState`, `CullFace`, `FillModes`, `PolygonOffset`, `PointState`,
`LineState`, `Multisample`, `Scissor`, `FragmentState`, `EdgeflagCull`,
`ClipAndConservative`. `TranslateFill` is `translate_fill`.
`cso_set_rasterizer` only passes the struct on and is not modelled.

**Assumptions.** `p_defines.h`, `p_state.h` and `st_program.h` are not in
the repository. The model takes the usual Mesa values: `PIPE_FACE_FRONT=1`,
`PIPE_FACE_BACK=2`, polygon modes FILL=0, LINE=1, POINT=2,
FILL_RECTANGLE=3, sprite coords UPPER_LEFT=0, LOWER_LEFT=1, an 8-bit
`line_stipple_factor`, and `st_get_generic_varying_index(PNTC) = 8`.
`MinSampleShadingValue` is a percentage.

**Abstract specification (`FaceSelection.tla`).** It states what the
rasterizer state promises about polygons using GL's rules only. Its one
variable, `drawn`, gives for a triangle of each winding on the gallium
surface either its GL polygon mode or `none`. It is recomputed from the GL
state after every change:
* facing comes from `glFrontFace`, with one winding inversion for a
  Y_0_BOTTOM (FBO) framebuffer and one for an upper-left clip origin, as
  the comment at lines 83-88 explains;
* culling comes from `glCullFace`;
* a face drawn as points or lines is discarded when all edge flags are
  FALSE.

`Rasterizer` instantiates it with `drawn <- DrawnBar`. `DrawnBar` reads
`front_ccw`, `cull_face` and `fill_front`/`fill_back` the way a gallium
driver does. The rasterizer run checks `Abstract!Spec` as a property
(`FaceSelectionSpec`). Before the first draw the abstract state is left
open, because the pipe state has not yet been derived.

**MC module.** Init is a new context drawing to a window. Thirteen fields
can change: winding, clip origin, framebuffer orientation, two-sided
lighting, cull flag and mode, front mode (POINT/FILL), back mode
(LINE/FILL), offset fill, point sprite and origin, tile order, and
edge-flag culling. There are two drivers: a plain one, and one that lowers
two-sided colour and flat shading and runs with the wireframe debug option.

## Runs

All runs except `rasterizer` use `CHECK_DEADLOCK FALSE`. A draw can
always follow a state change, so `rasterizer` checks deadlock. Every other
modelled call and pass
terminates, so a state in which the bound on passes is used up, or the one
call has returned, is a correct end state, not a deadlock. No liveness is
claimed, and no fairness is assumed. Nothing in the code makes a step
happen: a pass runs when the linker calls it, and the rasterizer atom runs
when the application draws. The code has no concurrency; its
hazards are orderings of passes, tie orders of qsort, input shapes and
malloc outcomes, all of which TLC enumerates exhaustively.

### Passing runs

| run | cfg | properties | what it shows |
|-----|-----|-----------|---------------|
| vs_fs | `MC_NirLinking.cfg` | NoComponentOverlap, LinkedPairsStayLinked, SharedSlotsInterpolateAlike, MasksCoverLiveVaryings, NoLiveVaryingDemoted | Over two outputs and two inputs of VS→FS with smooth/flat interpolation and always-active outputs, any sequence of up to four passes keeps live varyings on distinct components. It keeps linked pairs linked and keeps flat and smooth varyings out of a shared slot. The `shader_info` masks still cover every live varying, and no read varying is demoted. |
| tcs_tes | `MC_NirLinking_tcs_tes.cfg` | NoComponentOverlap, LinkedPairsStayLinked, MasksCoverLiveVaryings, CompactAssertHolds, NoLiveVaryingDemoted | The same over TCS→TES with builtin, generic and patch locations, where TCS outputs read by the TCS itself must survive. The compaction assertion holds. |
| pack3 | `MC_NirLinking_pack3.cfg` | TypeOK, LinkedPairsStayLinked, MasksCoverLiveVaryings, IoLocationsAlias, LinkedIoLocationsAgree, NoLiveVaryingDemoted | With three varyings of float/int/vec2/double at three components, slots fill up and the retry path of `assign_remap_locations` runs. Linking is still preserved. A two-slot `float[2]` can cross packed scalars. In every state, both driver-location passes give each slot exactly one driver location and each distinct slot a different one, below the size they report. |
| translate | `MC_FormatTranslate.cfg` | WritesStayInRegion, FailureLeavesPrefix, NoNullCall, SuccessWithMemoryConvertsRegion, ComposeIsSequential, UnswizzleInvertsSwizzle | With failing mallocs, every 2D and 3D call writes only rows of its region, and a failed 3D call leaves a prefix of slices written. No path calls a missing function. A call whose mallocs all succeeded and that returns TRUE converted every row of every slice, the short tail batch of block formats included. The swizzle helpers compose as sequential application, and unswizzling inverts swizzling (ComposeIsSequential, UnswizzleInvertsSwizzle). |
| rasterizer | `MC_Rasterizer.cfg` | FaceSelectionSpec, OrientationAgrees, DisabledStateCleared | After any sequence of state changes and validations, the pipe state refines `FaceSelection`: it draws a triangle of each winding exactly when GL does, in its GL polygon mode. This holds although the culled-face simplification rewrites the fill modes before edge-flag culling reads them. The winding and the edge rule flip together with the y inversions. Every conditionally assigned field reads 0 when its condition is off, as the memset guarantees. |

### Violation runs and findings

| run | property | what the code does |
|-----|----------|--------------------|
| xfb_scalar_collision | NoComponentOverlap | An always-active scalar is neither marked unmoveable nor packed (part_002:290), so a compacted varying lands on its component. |
| xfb_location_marking | MasksCoverLiveVaryings | `nir_link_xfb_varyings` indexes consumer inputs by location only (part_002:855). Two inputs sharing a location lose a mark. |
| retry_collision | NoComponentOverlap | A packable varying that finds no slot even after the retry keeps a zero remap entry and stays where it was, on top of a moved varying (part_002:405). |
| tcs_builtin_reads | TcsReadBackInOutputsRead | `remap_slots_and_components` copies the builtin bits of `slots_used` but rebuilds `outputs_read` from generic outputs only (part_002:366-370). A TCS that reads back `gl_Position` loses that bit after remove + compact, even when nothing moves. Restricted to generic outputs, the property holds over the whole run. |
| zs_alloc_failure | SuccessConvertsRegion | The depth/stencil path does not check malloc and returns TRUE having converted nothing (part_000:638). |
| uint_reinterpret | NoSilentReinterpretation | The uint path lacks the sint path's both-sides check, so an sRGB source is packed as uint bits (part_000:729). |
| block_row_offset | WritesStayInRegion | `dst_y*dst_stride` uses a pixel y with a block-row stride, so DXT1 at y=4 writes pixel rows 16-19 (part_000:608). |

The model also reproduces two defects that no run states; `PROJECT.json`
lists them as hazards:
* A second compaction may swap two components that qsort left tied
  (part_002:740).
* After a failed retry as in `retry_collision`, the next record starts at
  `MAX_VARYING` and fails `assert(cursor < MAX_VARYING)` (part_002:750).
  This needs four varyings. It has the same cause as `retry_collision`,
  so it has no run of its own; the passing `tcs_tes` run still checks the
  assertion as `CompactAssertHolds`.

Each property of a passing run has a mutant in `PROJECT.json`: a plausible
bug in a mapped definition that TLC shows the property catches.

## Bounds

* `MaxVarying = 2` gives two generic slots and two patch slots.
* pack3 adds `float[2]`, the one array type. At `VAR0` it crosses both
  generic slots, so it can share its first slot with a packed scalar
  declared before it and its second slot with one after. That is the case
  where `nir_assign_io_var_locations` extends an array's allocation.
* Two variables per stage are enough for overlap, pairing and
  interpolation conflicts. Three, with three components each, fill the
  slots and force the retry. Four are the least that reach the assertion
  failure.
* One builtin slot (`VAR0 = 1`) with a `vec4` type is enough for a TCS to
  read back a builtin output.
* `MaxOps` of 3-4 allows xfb, remove, compact, compact: enough for a second
  compaction after a removal.
* Formats cover each path of `util_format_translate` and both block heights
  (1 and 4). Heights 1, 2, 3 and 5 cover full batches, a lone tail, and a
  batch plus a tail. Depth 1-2 and z 0-1 cover a second slice and a slice
  offset.
* The rasterizer instance varies every input that decides culling, fill
  modes, winding, edge rule and a conditional assignment, with POINT and
  LINE on different faces so that a copied mode shows. Fourteen validations
  reach every combination (24,578 states).

## Not modelled

* `nir_link_opt_varyings` (constant and duplicate-varying propagation).
* In `nir_assign_io_var_locations`: compact arrays (clip and cull
  distances, `last_partial`), `data.index` (dual-source fragment outputs),
  and the VS-input and FS-output bases. A varying interface between the
  modelled stages declares none of them. In
  `get_linked_variable_location`: the tess level and bounding box patch
  builtins, and the `unreachable` for other patch builtins.
* The remaining format predicates, and `util_format_snorm8_to_sint8`,
  which is a table lookup.
* `util_get_depth_format_mrd`.
* The PCI-id table at the end of `st_atom_rasterizer.c`: data.
* In the rasterizer, the fields copied straight from GL (line and point
  sizes, stipple, clip planes, conservative dilate, subpixel bias) keep
  their defaults. They are assigned unconditionally, so no property tells
  their values apart; the model still computes them.
* `create_screen`: I/O with a leak on one error path.

## Plan for later work

1. Compact clip/cull distance arrays in `nir_assign_io_var_locations`,
   which need the builtin declarations extended with array lengths.
2. `nir_link_opt_varyings`, composed with `NirLinking` in the pass order the
   linker uses.
3. The remaining format predicates as operators, checked against
   reference definitions over all small inputs.
4. An abstract "interface map" specification of what linking promises
   (a bijection of live pairs preserved), with `NirLinking` shown to refine
   it under the restrictions that exclude the findings.
5. The rasterizer's remaining conditional assignments (point-size clamp,
   AA line-width limits, persample interpolation) varied in a second
   instance.
