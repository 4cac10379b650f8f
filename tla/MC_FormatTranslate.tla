------------------------- MODULE MC_FormatTranslate -------------------------
(***************************************************************************)
(* A catalogue of formats for FormatTranslate: their u_format.csv          *)
(* descriptions and the pack/unpack entries u_format_table provides:       *)
(* colour formats that are not pure integer have the float and 8-bit unorm *)
(* functions, pure integer formats unpack_rgba and both integer packs,     *)
(* depth/stencil formats only their depth and stencil functions.           *)
(***************************************************************************)
EXTENDS FormatTranslate, Sequences

Ch(type, norm, pure, size) == [type |-> type, norm |-> norm, pure |-> pure, size |-> size]
V0 == Ch("void", FALSE, FALSE, 0)
UN(n) == Ch("unsigned", TRUE, FALSE, n)
UP(n) == Ch("unsigned", FALSE, TRUE, n)
SP(n) == Ch("signed", FALSE, TRUE, n)
FL(n) == Ch("float", FALSE, FALSE, n)
X8 == Ch("void", FALSE, FALSE, 8)

ColourFuncs == [unpack |-> {"unpack_rgba", "unpack_rgba_8unorm"},
                pack   |-> {"pack_rgba_float", "pack_rgba_8unorm"}]
IntFuncs == [unpack |-> {"unpack_rgba"}, pack |-> {"pack_rgba_uint", "pack_rgba_sint"}]
Fmt(layout, bh, bits, chs, swz, cs, fn) ==
  [layout |-> layout, bh |-> bh, bits |-> bits, nr |-> Len(chs),
   ch |-> [i \in 0..3 |-> IF i < Len(chs) THEN chs[i + 1] ELSE V0],
   swz |-> [i \in 0..3 |-> swz[i + 1]], cs |-> cs,
   unpack |-> fn.unpack, pack |-> fn.pack]


N == PIPE_SWIZZLE_NONE
MC_Desc ==
  [R8G8B8A8_UNORM    |-> Fmt("plain", 1, 32, <<UN(8), UN(8), UN(8), UN(8)>>, <<0, 1, 2, 3>>, "rgb", ColourFuncs),
   R8G8B8X8_UNORM    |-> Fmt("plain", 1, 32, <<UN(8), UN(8), UN(8), X8>>, <<0, 1, 2, PIPE_SWIZZLE_1>>, "rgb", ColourFuncs),
   R8G8B8A8_SRGB     |-> Fmt("plain", 1, 32, <<UN(8), UN(8), UN(8), UN(8)>>, <<0, 1, 2, 3>>, "srgb", ColourFuncs),
   R32_FLOAT         |-> Fmt("plain", 1, 32, <<FL(32)>>, <<0, PIPE_SWIZZLE_0, PIPE_SWIZZLE_0, PIPE_SWIZZLE_1>>, "rgb", ColourFuncs),
   R8_UINT           |-> Fmt("plain", 1, 8, <<UP(8)>>, <<0, PIPE_SWIZZLE_0, PIPE_SWIZZLE_0, PIPE_SWIZZLE_1>>, "rgb", IntFuncs),
   R8_SINT           |-> Fmt("plain", 1, 8, <<SP(8)>>, <<0, PIPE_SWIZZLE_0, PIPE_SWIZZLE_0, PIPE_SWIZZLE_1>>, "rgb", IntFuncs),
   Z32_FLOAT         |-> Fmt("plain", 1, 32, <<FL(32)>>, <<0, N, N, N>>, "zs",
                             [unpack |-> {"unpack_z_float"}, pack |-> {"pack_z_float"}]),
   Z24_UNORM_S8_UINT |-> Fmt("plain", 1, 32, <<UN(24), UP(8)>>, <<0, 1, N, N>>, "zs",
                             [unpack |-> {"unpack_z_float", "unpack_s_8uint"},
                              pack |-> {"pack_z_float", "pack_s_8uint"}]),
   DXT1_RGB          |-> Fmt("s3tc", 4, 64, <<UN(8), UN(8), UN(8)>>, <<0, 1, 2, PIPE_SWIZZLE_1>>, "rgb", ColourFuncs)]

MC_Formats == DOMAIN MC_Desc
====
