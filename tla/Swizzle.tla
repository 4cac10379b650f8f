------------------------------- MODULE Swizzle -------------------------------
(***************************************************************************)
(* The swizzle helpers of u_format.c (part_000:827-912) as operators over  *)
(* four-channel vectors, checked against reference definitions:           *)
(* composition of swizzles is applying one after the other, and            *)
(* unswizzling undoes a swizzle on the channels it reads.                  *)
(*                                                                         *)
(* A swizzle maps each destination channel to a source channel X..W, to   *)
(* the constants 0 or 1, or to NONE.  A helper that leaves a destination  *)
(* channel unwritten leaves the caller's buffer there: the vectors carry   *)
(* Undef in those channels, and the caller's buffer is Undef throughout.  *)
(***************************************************************************)
EXTENDS Integers

PIPE_SWIZZLE_X == 0
PIPE_SWIZZLE_Y == 1
PIPE_SWIZZLE_W == 3
PIPE_SWIZZLE_0 == 4
PIPE_SWIZZLE_1 == 5
PIPE_SWIZZLE_NONE == 6

Chans == 0..3
Undef == -1                            \* a channel the call did not write
Buffer == [i \in Chans |-> Undef]       \* the caller's dst before a call

\* Mutation: the two swizzles are composed in the other order.
ComposeSwizzles_Swapped(swz1, swz2) ==
  [i \in Chans |-> IF swz1[i] <= PIPE_SWIZZLE_W THEN swz2[swz1[i]] ELSE swz1[i]]

\* util_format_compose_swizzles
ComposeSwizzles(swz1, swz2) ==
  [i \in Chans |-> IF swz2[i] <= PIPE_SWIZZLE_W THEN swz1[swz2[i]] ELSE swz2[i]]

\* util_format_apply_color_swizzle (the integer and float branches agree
\* up to the type of 0 and 1): anything that is not X..W or 1 gives 0.
ApplyColorSwizzle(src, swz) ==
  [c \in Chans |-> IF swz[c] <= PIPE_SWIZZLE_W THEN src[swz[c]]
                   ELSE IF swz[c] = PIPE_SWIZZLE_1 THEN 1 ELSE 0]

\* pipe_swizzle_4f: a NONE channel of dst is not written.
PipeSwizzle4f(dst, src, swz) ==
  [i \in Chans |-> IF swz[i] <= PIPE_SWIZZLE_W THEN src[swz[i]]
                   ELSE IF swz[i] = PIPE_SWIZZLE_0 THEN 0
                   ELSE IF swz[i] = PIPE_SWIZZLE_1 THEN 1
                   ELSE dst[i]]

\* Mutation: the unswizzle swizzles instead, dst[i] = src[swz[i]].
UnswizzleStep_Forward(dst, src, swz, i) ==
  [dst EXCEPT ![i] = IF swz[i] <= PIPE_SWIZZLE_W THEN src[swz[i]] ELSE @]

\* One iteration of util_format_unswizzle_4f's loop: source channel i goes
\* back to the channel the swizzle took it from; the last i wins.
UnswizzleStep(dst, src, swz, i) ==
  IF swz[i] <= PIPE_SWIZZLE_W THEN [dst EXCEPT ![swz[i]] = src[i]] ELSE dst

RECURSIVE UnswizzleFrom(_, _, _, _)
UnswizzleFrom(dst, src, swz, i) ==
  IF i > 3 THEN dst ELSE UnswizzleFrom(UnswizzleStep(dst, src, swz, i), src, swz, i + 1)

\* util_format_unswizzle_4f
Unswizzle4f(dst, src, swz) == UnswizzleFrom(dst, src, swz, 0)
-----------------------------------------------------------------------------
(* Reference definitions.  A texel has distinct channel values; swizzles   *)
(* are drawn from the formats at hand and a bounded set.                   *)
Texel == [i \in Chans |-> 10 + i]
SmallSwizzles == [Chans -> {PIPE_SWIZZLE_X, PIPE_SWIZZLE_Y, PIPE_SWIZZLE_1, PIPE_SWIZZLE_NONE}]

\* Applying the composition of swz1 and swz2 (util_format_compose_swizzles,
\* used to stack a view's swizzle on a format's) does what applying swz1 and
\* then swz2 with pipe_swizzle_4f does, unwritten channels included.
ComposesSequentially(swz1, swz2) ==
  PipeSwizzle4f(Buffer, PipeSwizzle4f(Buffer, Texel, swz1), swz2)
    = PipeSwizzle4f(Buffer, Texel, ComposeSwizzles(swz1, swz2))

\* util_format_unswizzle_4f undoes pipe_swizzle_4f: each channel the
\* swizzle reads comes back with its value and every other stays
\* unwritten; util_format_apply_color_swizzle agrees with pipe_swizzle_4f
\* except on NONE, which it turns into 0.
UnswizzleInverts(swz) ==
  /\ Unswizzle4f(Buffer, PipeSwizzle4f(Buffer, Texel, swz), swz)
       = [c \in Chans |-> IF \E i \in Chans : swz[i] = c THEN Texel[c] ELSE Undef]
  /\ \A c \in Chans :
       ApplyColorSwizzle(Texel, swz)[c]
         = IF swz[c] = PIPE_SWIZZLE_NONE THEN 0 ELSE PipeSwizzle4f(Buffer, Texel, swz)[c]
====
