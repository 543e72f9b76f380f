------------------------------ MODULE BlendPx ------------------------------
(***************************************************************************)
(* One pixel of a blended draw: the arithmetic of the pipeline             *)
(* (rtl/blend_px.sv), which has no divider, and the reference it is tested *)
(* against (sim/blend_ref.h).  A pixel is its four bytes, 3 the alpha.     *)
(***************************************************************************)
EXTENDS Integers

Byte == 0 .. 255
Channel == 0 .. 3
Alpha == 3
Pixel == [Channel -> Byte]

\* csf, cdf, cop: the colours' factors and operation; asf, adf, aop: alpha's.
Mode == [csf : 0 .. 15, cdf : 0 .. 15, cop : 0 .. 7,
         asf : 0 .. 15, adf : 0 .. 15, aop : 0 .. 7, single : BOOLEAN]

\* MODE_BLEND and MODE_NONE.
ModeBlend == [csf |-> 5, cdf |-> 6, cop |-> 1,
              asf |-> 2, adf |-> 6, aop |-> 1, single |-> FALSE]
ModeNone == [csf |-> 2, cdf |-> 1, cop |-> 1,
             asf |-> 2, adf |-> 1, aop |-> 1, single |-> FALSE]

\* SDL_BlendFactor: of a channel with source s and destination v, in pixels
\* with alphas a and va.
Factor(code, s, a, v, va) ==
    CASE code = 2 -> 255
      [] code = 3 -> s
      [] code = 4 -> 255 - s
      [] code = 5 -> a
      [] code = 6 -> 255 - a
      [] code = 7 -> v
      [] code = 8 -> 255 - v
      [] code = 9 -> va
      [] code = 10 -> 255 - va
      [] OTHER -> 0

ColourMode(m, c) == IF c = Alpha THEN <<m.asf, m.adf, m.aop>>
                                 ELSE <<m.csf, m.cdf, m.cop>>

-----------------------------------------------------------------------------
(* The pipeline.                                                           *)

\* div255: the high byte of a sixteen-bit sum.
Div255(x) == ((x + 1 + x \div 256) % 65536) \div 256

\* Stage 7: the remainder's low byte, from the product's and the quotient's.
Remainder(x) == ((x % 256) + Div255(x)) % 256

Carry(ps, pd, single) ==
    IF single /\ Remainder(ps) + Remainder(pd) >= 255 THEN 1 ELSE 0

\* Stage 8: the operation on the products ps and pd of the channel.
Operate(op, single, s, v, ps, pd) ==
    LET qs == Div255(ps)
        qd == Div255(pd)
        sum == qs + qd + Carry(ps, pd, single)
    IN  CASE op = 1 -> IF sum > 255 THEN 255 ELSE sum
          [] op = 2 -> IF qs < qd THEN 0 ELSE qs - qd
          [] op = 3 -> IF qd < qs THEN 0 ELSE qd - qs
          [] op = 4 -> IF s < v THEN s ELSE v
          [] OTHER -> IF s > v THEN s ELSE v

\* Stages 2 and 3: the source under the modulation word.
Modulated(src, mod, c) == Div255(src[c] * mod[c])

BlendChannel(src, dst, mod, m, c) ==
    LET s == Modulated(src, mod, c)
        a == Modulated(src, mod, Alpha)
        f == ColourMode(m, c)
    IN  Operate(f[3], m.single, s, dst[c],
                s * Factor(f[1], s, a, dst[c], dst[Alpha]),
                dst[c] * Factor(f[2], s, a, dst[c], dst[Alpha]))

BlendPixel(src, dst, mod, m) ==
    [c \in Channel |-> BlendChannel(src, dst, mod, m, c)]

-----------------------------------------------------------------------------
(* The reference: divisions truncate.                                      *)

RefOperate(op, single, s, v, ps, pd) ==
    LET ts == ps \div 255
        td == pd \div 255
        out == CASE op = 1 -> IF single THEN (ps + pd) \div 255 ELSE ts + td
                 [] op = 2 -> ts - td
                 [] op = 3 -> td - ts
                 [] op = 4 -> IF s < v THEN s ELSE v
                 [] OTHER -> IF s > v THEN s ELSE v
    IN  IF out < 0 THEN 0 ELSE IF out > 255 THEN 255 ELSE out

RefModulated(src, mod, c) == (src[c] * mod[c]) \div 255

RefChannel(src, dst, mod, m, c) ==
    LET s == RefModulated(src, mod, c)
        a == RefModulated(src, mod, Alpha)
        f == ColourMode(m, c)
    IN  RefOperate(f[3], m.single, s, dst[c],
                   s * Factor(f[1], s, a, dst[c], dst[Alpha]),
                   dst[c] * Factor(f[2], s, a, dst[c], dst[Alpha]))

\* noodles_mode_ref.
RefPixel(src, dst, mod, m) ==
    [c \in Channel |-> RefChannel(src, dst, mod, m, c)]

Identity == [c \in Channel |-> 255]
=============================================================================
