-------------------------- MODULE Arithmetic_proof --------------------------
(***************************************************************************)
(* The pure algorithms.  The pixel pipeline computes the reference for     *)
(* every pixel, modulation and mode, and the two shortcuts of the blend    *)
(* engine are exact.  What the demos' arithmetic guarantees for every      *)
(* size, position and file.                                                *)
(***************************************************************************)
EXTENDS BlendPx, ToolData, TLAPS

-----------------------------------------------------------------------------
(* blend_px.                                                               *)

Product == {x \in Nat : x <= 65025}

LEMMA ProductOfBytes ==
    ASSUME NEW x \in Byte, NEW y \in Byte
    PROVE  x * y \in Product
  <1>1. x \in Int /\ 0 <= x /\ x <= 255 /\ y \in Int /\ 0 <= y /\ y <= 255
    BY DEF Byte
  <1>2. x * y \in Int /\ 0 <= x * y
    BY <1>1, SMT
  <1>3. x * y <= 255 * y
    BY <1>1, SMT
  <1> DEFINE z == x * y
  <1>4. z \in Int /\ 0 <= z /\ z <= 255 * y
    BY <1>2, <1>3
  <1> HIDE DEF z
  <1>5. z \in Product
    BY <1>1, <1>4 DEF Product
  <1> QED BY <1>5 DEF z

LEMMA Quotient255 ==
    ASSUME NEW x \in Int, NEW q \in Int, q = x \div 255
    PROVE  255 * q <= x /\ x < 255 * q + 255
  BY SMT

LEMMA Quotient256 ==
    ASSUME NEW x \in Int, NEW q \in Int, q = x \div 256
    PROVE  256 * q <= x /\ x < 256 * q + 256
  BY SMT

LEMMA Unique255 ==
    ASSUME NEW x \in Int, NEW q \in Int, 255 * q <= x, x < 255 * q + 255
    PROVE  x \div 255 = q
  BY SMT

LEMMA Unique256 ==
    ASSUME NEW x \in Int, NEW q \in Int, NEW r \in Byte, x = 256 * q + r
    PROVE  x \div 256 = q /\ x % 256 = r
  BY SMT DEF Byte

(* The pipeline's division: no product reaches the sum's seventeenth bit.  *)
LEMMA Div255Exact ==
    ASSUME NEW x \in Product
    PROVE  Div255(x) = x \div 255 /\ Div255(x) \in Byte
  <1> DEFINE q == x \div 255
             h == x \div 256
             sum == x + 1 + h
  <1>1. x \in Int /\ 0 <= x /\ x <= 65025
    BY DEF Product
  <1>2. q \in Int /\ 255 * q <= x /\ x < 255 * q + 255
    BY <1>1, Quotient255
  <1>3. h \in Int /\ 256 * h <= x /\ x < 256 * h + 256
    BY <1>1, Quotient256
  <1>4. sum \in Int /\ 256 * q <= sum /\ sum < 256 * q + 256
        /\ 0 <= sum /\ sum < 65536 /\ q \in Byte
    BY <1>1, <1>2, <1>3, SMT DEF Byte
  <1> HIDE DEF q, h, sum
  <1>5. sum % 65536 = sum
    BY <1>4, SMT
  <1>6. sum - 256 * q \in Byte /\ sum = 256 * q + (sum - 256 * q)
    BY <1>2, <1>4 DEF Byte
  <1>7. sum \div 256 = q
    BY <1>2, <1>4, <1>6, Unique256
  <1>8. Div255(x) = (sum % 65536) \div 256
    BY DEF Div255, sum, h
  <1> QED BY <1>4, <1>5, <1>7, <1>8 DEF q

LEMMA RemainderExact ==
    ASSUME NEW x \in Product
    PROVE  /\ Remainder(x) = x - 255 * (x \div 255)
           /\ x - 255 * (x \div 255) \in 0 .. 254
  <1> DEFINE q == x \div 255
             h == x \div 256
             low == x % 256
             r == x - 255 * q
  <1>1. x \in Int /\ 0 <= x /\ x <= 65025
    BY DEF Product
  <1>2. q \in Int /\ 255 * q <= x /\ x < 255 * q + 255
    BY <1>1, Quotient255
  <1>3. h \in Int /\ 256 * h <= x /\ x < 256 * h + 256
    BY <1>1, Quotient256
  <1>4. x - 256 * h \in Byte /\ x = 256 * h + (x - 256 * h)
    BY <1>1, <1>3 DEF Byte
  <1>5. low = x - 256 * h
    BY <1>1, <1>3, <1>4, Unique256
  <1>6. r \in Byte /\ r \in 0 .. 254 /\ q - h \in Int
        /\ low + q = 256 * (q - h) + r
    BY <1>1, <1>2, <1>3, <1>5 DEF Byte
  <1>7. (low + q) % 256 = r
    BY <1>2, <1>3, <1>5, <1>6, Unique256
  <1>8. Remainder(x) = (low + q) % 256
    BY Div255Exact DEF Remainder
  <1> QED BY <1>6, <1>7, <1>8

LEMMA CarryExact ==
    ASSUME NEW ps \in Product, NEW pd \in Product
    PROVE  (ps + pd) \div 255 = ps \div 255 + pd \div 255 + Carry(ps, pd, TRUE)
  <1> DEFINE qs == ps \div 255
             qd == pd \div 255
             rs == ps - 255 * qs
             rd == pd - 255 * qd
  <1>1. ps \in Int /\ pd \in Int
    BY DEF Product
  <1>6. qs \in Int /\ qd \in Int
    BY <1>1
  <1>2. rs \in 0 .. 254 /\ rd \in 0 .. 254
        /\ Remainder(ps) = rs /\ Remainder(pd) = rd
    BY RemainderExact
  <1>3. Carry(ps, pd, TRUE) = IF rs + rd >= 255 THEN 1 ELSE 0
    BY <1>2 DEF Carry
  <1> DEFINE carry == Carry(ps, pd, TRUE)
             q == qs + qd + carry
  <1>7. ps = 255 * qs + rs /\ pd = 255 * qd + rd
    BY <1>1, <1>6
  <1>8. carry = IF rs + rd >= 255 THEN 1 ELSE 0
    BY <1>3
  <1>9. rs \in Int /\ 0 <= rs /\ rs <= 254 /\ rd \in Int /\ 0 <= rd /\ rd <= 254
    BY <1>2
  <1> HIDE DEF carry, qs, qd, rs, rd
  <1>4. q \in Int /\ 255 * q <= ps + pd /\ ps + pd < 255 * q + 255
    BY <1>6, <1>7, <1>8, <1>9
  <1> HIDE DEF q
  <1>5. (ps + pd) \div 255 = q
    BY <1>1, <1>4, Unique255
  <1> QED BY <1>5 DEF q, qs, qd, carry

LEMMA OperateExact ==
    ASSUME NEW op \in 0 .. 7, NEW single \in BOOLEAN, NEW s \in Byte,
           NEW v \in Byte, NEW ps \in Product, NEW pd \in Product
    PROVE  /\ Operate(op, single, s, v, ps, pd)
                = RefOperate(op, single, s, v, ps, pd)
           /\ Operate(op, single, s, v, ps, pd) \in Byte
  <1> DEFINE qs == Div255(ps)
             qd == Div255(pd)
             carry == Carry(ps, pd, single)
             both == (ps + pd) \div 255
             sum == qs + qd + carry
  <1>1. /\ qs = ps \div 255 /\ qs \in Byte
        /\ qd = pd \div 255 /\ qd \in Byte
    BY Div255Exact
  <1>2. single => both = qs + qd + carry
    <2>1. SUFFICES ASSUME single = TRUE
                   PROVE  both = qs + qd + carry
      OBVIOUS
    <2>2. both = ps \div 255 + pd \div 255 + Carry(ps, pd, TRUE)
      BY CarryExact, ZenonT(60)
    <2> QED BY <1>1, <2>1, <2>2
  <1>3. ~single => carry = 0
    BY DEF Carry
  <1>4. carry \in {0, 1}
    BY DEF Carry
  <1>5. Operate(op, single, s, v, ps, pd) =
          CASE op = 1 -> IF sum > 255 THEN 255 ELSE sum
            [] op = 2 -> IF qs < qd THEN 0 ELSE qs - qd
            [] op = 3 -> IF qd < qs THEN 0 ELSE qd - qs
            [] op = 4 -> IF s < v THEN s ELSE v
            [] OTHER -> IF s > v THEN s ELSE v
    BY DEF Operate
  <1> DEFINE out == CASE op = 1 -> IF single THEN both ELSE qs + qd
                      [] op = 2 -> qs - qd
                      [] op = 3 -> qd - qs
                      [] op = 4 -> IF s < v THEN s ELSE v
                      [] OTHER -> IF s > v THEN s ELSE v
  <1>6. RefOperate(op, single, s, v, ps, pd)
          = IF out < 0 THEN 0 ELSE IF out > 255 THEN 255 ELSE out
    BY <1>1 DEF RefOperate
  <1>7. qs \in Int /\ 0 <= qs /\ qs <= 255 /\ qd \in Int /\ 0 <= qd /\ qd <= 255
        /\ s \in Int /\ 0 <= s /\ s <= 255 /\ v \in Int /\ 0 <= v /\ v <= 255
    BY <1>1 DEF Byte
  <1> HIDE DEF qs, qd, carry, both
  <1>8. CASE op = 1 /\ single
    <2>1. Operate(op, single, s, v, ps, pd) = IF sum > 255 THEN 255 ELSE sum
      BY <1>5, <1>8
    <2>2. out = sum
      BY <1>2, <1>8
    <2>3. sum \in Int /\ 0 <= sum
      BY <1>4, <1>7
    <2> HIDE DEF sum, out
    <2>4. RefOperate(op, single, s, v, ps, pd)
            = IF sum > 255 THEN 255 ELSE sum
      BY <1>6, <2>2, <2>3
    <2> QED BY <2>1, <2>3, <2>4 DEF Byte
  <1>9. CASE op = 1 /\ ~single
    <2>1. Operate(op, single, s, v, ps, pd)
            = IF qs + qd > 255 THEN 255 ELSE qs + qd
      BY <1>3, <1>5, <1>7, <1>9
    <2>2. out = qs + qd
      BY <1>9
    <2>3. RefOperate(op, single, s, v, ps, pd)
            = IF qs + qd > 255 THEN 255 ELSE qs + qd
      <3> HIDE DEF out
      <3> QED BY <1>6, <1>7, <2>2
    <2> QED BY <1>7, <2>1, <2>3 DEF Byte
  <1>10. CASE op = 2
    BY <1>5, <1>6, <1>7, <1>10 DEF Byte
  <1>11. CASE op = 3
    BY <1>5, <1>6, <1>7, <1>11 DEF Byte
  <1>12. CASE op \notin {1, 2, 3}
    BY <1>5, <1>6, <1>7, <1>12 DEF Byte
  <1> QED BY <1>8, <1>9, <1>10, <1>11, <1>12

LEMMA FactorByte ==
    ASSUME NEW code \in 0 .. 15, NEW s \in Byte, NEW a \in Byte,
           NEW v \in Byte, NEW va \in Byte
    PROVE  Factor(code, s, a, v, va) \in Byte
  BY DEF Factor, Byte

LEMMA ModulatedExact ==
    ASSUME NEW src \in Pixel, NEW mod \in Pixel, NEW c \in Channel
    PROVE  /\ Modulated(src, mod, c) = RefModulated(src, mod, c)
           /\ Modulated(src, mod, c) \in Byte
  <1>1. src[c] * mod[c] \in Product
    BY ProductOfBytes DEF Pixel
  <1> QED BY <1>1, Div255Exact DEF Modulated, RefModulated

LEMMA ModulatedByIdentity ==
    ASSUME NEW src \in Pixel, NEW c \in Channel
    PROVE  Modulated(src, Identity, c) = src[c]
  <1>1. src[c] \in Byte /\ Identity[c] = 255
    BY DEF Pixel, Identity
  <1>2. src[c] \in Int /\ 255 * src[c] <= src[c] * 255
        /\ src[c] * 255 < 255 * src[c] + 255
    BY <1>1 DEF Byte
  <1>3. src[c] * 255 \in Product /\ src[c] * 255 \in Int
    BY <1>1, ProductOfBytes, SMTT(30) DEF Byte
  <1>4. (src[c] * 255) \div 255 = src[c]
    BY <1>2, <1>3, Unique255
  <1> QED BY <1>1, <1>3, <1>4, Div255Exact DEF Modulated

(* The pipeline (blend_px.sv) computes noodles_mode_ref of the reference   *)
(* (sim/blend_ref.h) for every source, destination, modulation and mode,   *)
(* the undefined factor and operation codes included.                      *)
THEOREM PipelineMatchesReference ==
    ASSUME NEW src \in Pixel, NEW dst \in Pixel, NEW mod \in Pixel,
           NEW m \in Mode
    PROVE  BlendPixel(src, dst, mod, m) = RefPixel(src, dst, mod, m)
  <1> SUFFICES ASSUME NEW c \in Channel
               PROVE  BlendChannel(src, dst, mod, m, c)
                        = RefChannel(src, dst, mod, m, c)
    BY DEF BlendPixel, RefPixel
  <1> DEFINE s == Modulated(src, mod, c)
             a == Modulated(src, mod, Alpha)
             f == ColourMode(m, c)
             fs == Factor(f[1], s, a, dst[c], dst[Alpha])
             fd == Factor(f[2], s, a, dst[c], dst[Alpha])
  <1>1. Alpha \in Channel
    BY DEF Alpha, Channel
  <1>2. /\ s = RefModulated(src, mod, c) /\ s \in Byte
        /\ a = RefModulated(src, mod, Alpha) /\ a \in Byte
    BY <1>1, ModulatedExact
  <1>3. dst[c] \in Byte /\ dst[Alpha] \in Byte
    BY <1>1 DEF Pixel
  <1>4. f[1] \in 0 .. 15 /\ f[2] \in 0 .. 15 /\ f[3] \in 0 .. 7
        /\ m.single \in BOOLEAN
    BY DEF ColourMode, Mode
  <1>5. fs \in Byte /\ fd \in Byte
    BY <1>2, <1>3, <1>4, FactorByte
  <1>6. s * fs \in Product /\ dst[c] * fd \in Product
    BY <1>2, <1>3, <1>5, ProductOfBytes
  <1>7. Operate(f[3], m.single, s, dst[c], s * fs, dst[c] * fd)
          = RefOperate(f[3], m.single, s, dst[c], s * fs, dst[c] * fd)
    <2> DEFINE ps == s * fs
               pd == dst[c] * fd
               v == dst[c]
               op == f[3]
               one == m.single
    <2>1. /\ ps \in Product /\ pd \in Product /\ v \in Byte /\ s \in Byte
          /\ op \in 0 .. 7 /\ one \in BOOLEAN
      BY <1>2, <1>3, <1>4, <1>6
    <2> HIDE DEF ps, pd, v, op, one, s
    <2>2. Operate(op, one, s, v, ps, pd) = RefOperate(op, one, s, v, ps, pd)
      BY <2>1, OperateExact, ZenonT(60)
    <2> QED BY <2>2 DEF ps, pd, v, op, one
  <1> QED BY <1>2, <1>7 DEF BlendChannel, RefChannel

LEMMA Div255Multiple ==
    ASSUME NEW x \in Byte
    PROVE  /\ x * 255 \in Product /\ x * 0 \in Product /\ 0 * x \in Product
           /\ Div255(x * 255) = x
           /\ Div255(x * 0) = 0 /\ Div255(0 * x) = 0
  <1>1. x \in Int /\ x * 255 \in Int /\ 255 * x <= x * 255
        /\ x * 255 < 255 * x + 255
    BY DEF Byte
  <1>2. x * 255 \in Product
    BY ProductOfBytes, SMTT(30) DEF Byte
  <1>3. (x * 255) \div 255 = x
    BY <1>1, Unique255
  <1>4. x * 0 = 0 /\ 0 * x = 0
    BY <1>1
  <1>5. 0 \in Product /\ 0 \div 255 = 0
    BY Unique255 DEF Product
  <1> QED BY <1>2, <1>3, <1>4, <1>5, Div255Exact

LEMMA AddExact ==
    ASSUME NEW s \in Byte, NEW v \in Byte, NEW ps \in Int, NEW pd \in Int,
           NEW x \in Byte, NEW y \in Byte,
           x + y <= 255, Div255(ps) = x, Div255(pd) = y
    PROVE  Operate(1, ModeBlend.single, s, v, ps, pd) = x + y
  <1> DEFINE carry == Carry(ps, pd, ModeBlend.single)
             sum == Div255(ps) + Div255(pd) + carry
  <1>1. carry = 0
    BY DEF Carry, ModeBlend
  <1>2. Operate(1, ModeBlend.single, s, v, ps, pd) = IF sum > 255 THEN 255 ELSE sum
    BY DEF Operate
  <1> HIDE DEF carry
  <1>3. sum = x + y
    BY <1>1 DEF Byte
  <1> HIDE DEF sum
  <1>4. x + y \in Int /\ ~(x + y > 255)
    BY DEF Byte
  <1> QED BY <1>2, <1>3, <1>4

LEMMA BlendModeChannel ==
    ASSUME NEW src \in Pixel, NEW dst \in Pixel, NEW c \in Channel
    PROVE  BlendChannel(src, dst, Identity, ModeBlend, c)
             = Operate(1, ModeBlend.single, src[c], dst[c],
                       src[c] * (IF c = Alpha THEN 255 ELSE src[Alpha]),
                       dst[c] * (255 - src[Alpha]))
  <1>1. Alpha \in Channel
    BY DEF Alpha, Channel
  <1>2. Modulated(src, Identity, c) = src[c]
        /\ Modulated(src, Identity, Alpha) = src[Alpha]
    BY <1>1, ModulatedByIdentity
  <1> DEFINE f == ColourMode(ModeBlend, c)
             fs == Factor(f[1], src[c], src[Alpha], dst[c], dst[Alpha])
             fd == Factor(f[2], src[c], src[Alpha], dst[c], dst[Alpha])
  <1>3. f[1] = (IF c = Alpha THEN 2 ELSE 5) /\ f[2] = 6 /\ f[3] = 1
    BY DEF ColourMode, ModeBlend
  <1>4. BlendChannel(src, dst, Identity, ModeBlend, c)
          = Operate(f[3], ModeBlend.single, src[c], dst[c],
                    src[c] * fs, dst[c] * fd)
    BY <1>2 DEF BlendChannel
  <1> HIDE DEF f
  <1>5. fs = IF c = Alpha THEN 255 ELSE src[Alpha]
    BY <1>3 DEF Factor
  <1>6. fd = 255 - src[Alpha]
    BY <1>3 DEF Factor
  <1> HIDE DEF fs, fd
  <1> QED BY <1>3, <1>4, <1>5, <1>6

(* A blended pixel of alpha 0 leaves the destination as it is, so the      *)
(* engine may skip it without reading the destination (d_alpha_zero,       *)
(* blit_blend.sv).                                                         *)
THEOREM TransparentKeepsDestination ==
    ASSUME NEW src \in Pixel, NEW dst \in Pixel, src[Alpha] = 0
    PROVE  BlendPixel(src, dst, Identity, ModeBlend) = dst
  <1> SUFFICES ASSUME NEW c \in Channel
               PROVE  BlendChannel(src, dst, Identity, ModeBlend, c) = dst[c]
    BY DEF BlendPixel, Pixel
  <1>1. src[c] \in Byte /\ dst[c] \in Byte /\ 255 - src[Alpha] = 255
    BY DEF Pixel
  <1>2. Div255(src[c] * (IF c = Alpha THEN 255 ELSE src[Alpha])) = 0
    <2>1. CASE c = Alpha
      BY <1>1, <2>1, Div255Multiple
    <2>2. CASE c # Alpha
      BY <1>1, <2>2, Div255Multiple
    <2> QED BY <2>1, <2>2
  <1>3. Div255(dst[c] * (255 - src[Alpha])) = dst[c]
    BY <1>1, Div255Multiple
  <1>4. 0 \in Byte /\ 0 + dst[c] = dst[c] /\ 0 + dst[c] <= 255
    BY <1>1 DEF Byte
  <1>5. Operate(1, ModeBlend.single, src[c], dst[c],
                src[c] * (IF c = Alpha THEN 255 ELSE src[Alpha]),
                dst[c] * (255 - src[Alpha])) = 0 + dst[c]
    <2> DEFINE ps == src[c] * (IF c = Alpha THEN 255 ELSE src[Alpha])
               pd == dst[c] * (255 - src[Alpha])
               s == src[c]
               v == dst[c]
    <2>1. /\ s \in Byte /\ v \in Byte /\ ps \in Int /\ pd \in Int
          /\ Div255(ps) = 0 /\ Div255(pd) = v
      BY <1>1, <1>2, <1>3 DEF Byte
    <2> HIDE DEF ps, pd, s, v
    <2>2. 0 + v <= 255 /\ 0 \in Byte
      BY <2>1 DEF Byte
    <2>3. Operate(1, ModeBlend.single, s, v, ps, pd) = 0 + v
      BY <2>1, <2>2, AddExact
    <2> QED BY <2>3 DEF ps, pd, s, v
  <1>6. BlendChannel(src, dst, Identity, ModeBlend, c) = 0 + dst[c]
    BY <1>5, BlendModeChannel
  <1> QED BY <1>4, <1>6

(* One of alpha 255 replaces it, so the engine may write the source pixel  *)
(* itself (d_alpha_opaque).                                                *)
THEOREM OpaqueReplacesDestination ==
    ASSUME NEW src \in Pixel, NEW dst \in Pixel, src[Alpha] = 255
    PROVE  BlendPixel(src, dst, Identity, ModeBlend) = src
  <1> SUFFICES ASSUME NEW c \in Channel
               PROVE  BlendChannel(src, dst, Identity, ModeBlend, c) = src[c]
    BY DEF BlendPixel, Pixel
  <1>1. src[c] \in Byte /\ dst[c] \in Byte /\ 255 - src[Alpha] = 0
    BY DEF Pixel
  <1>2. Div255(src[c] * (IF c = Alpha THEN 255 ELSE src[Alpha])) = src[c]
    BY <1>1, Div255Multiple
  <1>3. Div255(dst[c] * (255 - src[Alpha])) = 0
    BY <1>1, Div255Multiple
  <1>4. 0 \in Byte /\ src[c] + 0 = src[c] /\ src[c] + 0 <= 255
    BY <1>1 DEF Byte
  <1>5. Operate(1, ModeBlend.single, src[c], dst[c],
                src[c] * (IF c = Alpha THEN 255 ELSE src[Alpha]),
                dst[c] * (255 - src[Alpha])) = src[c] + 0
    <2> DEFINE ps == src[c] * (IF c = Alpha THEN 255 ELSE src[Alpha])
               pd == dst[c] * (255 - src[Alpha])
               s == src[c]
               v == dst[c]
    <2>1. /\ s \in Byte /\ v \in Byte /\ ps \in Int /\ pd \in Int
          /\ Div255(ps) = s /\ Div255(pd) = 0
      BY <1>1, <1>2, <1>3 DEF Byte
    <2> HIDE DEF ps, pd, s, v
    <2>2. s + 0 <= 255 /\ 0 \in Byte
      BY <2>1 DEF Byte
    <2>3. Operate(1, ModeBlend.single, s, v, ps, pd) = s + 0
      BY <2>1, <2>2, AddExact
    <2> QED BY <2>3 DEF ps, pd, s, v
  <1>6. BlendChannel(src, dst, Identity, ModeBlend, c) = src[c] + 0
    BY <1>5, BlendModeChannel
  <1> QED BY <1>4, <1>6

-----------------------------------------------------------------------------
(* The demos.                                                              *)

\* A sprite that is inside the picture stays inside, whatever its step and
\* however narrow the margin: when a step leads out it is taken back, so that
\* the raw destination addresses of stress_demo and sprite_demo stay in the
\* back buffer.
THEOREM BounceStaysInside ==
    ASSUME NEW max \in Nat, NEW s \in [at : 0 .. max, step : Int]
    PROVE  Bounce(s, max) \in [at : 0 .. max, step : Int]
<1> DEFINE moved == s.at + s.step
<1>1. s.at \in 0 .. max /\ s.step \in Int
  OBVIOUS
<1>2. CASE moved <= 0 \/ moved >= max
  <2>1. Bounce(s, max) = [at |-> moved - s.step, step |-> -s.step]
    BY <1>2 DEF Bounce
  <2>2. moved - s.step = s.at /\ -s.step \in Int
    BY <1>1
  <2> QED  BY <1>1, <2>1, <2>2
<1>3. CASE ~(moved <= 0 \/ moved >= max)
  <2>1. Bounce(s, max) = [at |-> moved, step |-> s.step]
    BY <1>3 DEF Bounce
  <2>2. moved \in 0 .. max
    BY <1>1, <1>3
  <2> QED  BY <1>1, <2>1, <2>2
<1> QED  BY <1>2, <1>3

\* A quotient by a positive number, as an inequality.
LEMMA DivBounds ==
    ASSUME NEW a \in Nat, NEW b \in Nat \ {0}
    PROVE  /\ a \div b \in Nat
           /\ b * (a \div b) <= a
           /\ a < b * (a \div b) + b
  BY Z3

\* A product with a smaller factor is smaller.
LEMMA TimesMonotonic ==
    ASSUME NEW a \in Nat, NEW b \in Nat, NEW c \in Nat, a <= b
    PROVE  a * c <= b * c
  BY Z3

\* Resizing a picture reads no pixel outside of it (stress_demo's
\* downsample_nearest, enlarging or shrinking).
THEOREM NearestInside ==
    ASSUME NEW from \in Nat \ {0}, NEW to \in Nat \ {0}, NEW i \in 0 .. to - 1
    PROVE  Nearest(i, from, to) \in 0 .. from - 1
<1> DEFINE q == (i * from) \div to
<1>1. i * from \in Nat
  BY Z3
<1>2. q \in Nat /\ to * q <= i * from
  BY <1>1, DivBounds
<1>3. i * from < to * from
  BY Z3
<1>4. q < from
  <2>1. SUFFICES ASSUME from <= q PROVE FALSE
    BY <1>2
  <2>2. from * to <= q * to
    BY <1>2, <2>1, TimesMonotonic
  <2> QED  BY <1>2, <1>3, <2>2, Z3
<1> QED  BY <1>2, <1>4 DEF Nearest

\* A row of an accepted file holds its pixels.
LEMMA RowHoldsPixels ==
    ASSUME NEW width \in Nat \ {0}
    PROVE  RowSize(width) \in Nat /\ width * 3 <= RowSize(width)
<1>1. width * 3 + 3 \in Nat /\ 4 \in Nat \ {0}
  OBVIOUS
<1>2. /\ (width * 3 + 3) \div 4 \in Nat
      /\ width * 3 + 3 < 4 * ((width * 3 + 3) \div 4) + 4
  BY <1>1, DivBounds
<1> QED  BY <1>2 DEF RowSize

BmpFile == [size : Nat, magic : BOOLEAN, offset : Nat, dib_size : Nat,
            bpp : Nat, compression : Nat, width : Int, height : Int]

\* Converting an accepted BMP file reads no byte outside of it, whichever way
\* up its rows are (noodles_bmp_load).
THEOREM BmpReadsInside ==
    ASSUME NEW file \in BmpFile, NEW max_width \in Nat, NEW max_height \in Nat,
           BmpAccepted(file, max_width, max_height),
           NEW x \in 0 .. file.width - 1, NEW y \in 0 .. Rows(file.height) - 1
    PROVE  /\ 0 <= PixelOffset(file, x, y)
           /\ PixelOffset(file, x, y) + 2 < file.size
<1> DEFINE row == RowSize(file.width)
           rows == Rows(file.height)
           r == SourceRow(file, y)
<1>1. /\ file.size \in Nat /\ file.offset \in Nat
      /\ file.width \in Nat \ {0} /\ file.height \in Int
      /\ rows \in Nat \ {0}
      /\ file.offset + row * rows <= file.size
  BY DEF BmpFile, BmpAccepted, SizeAccepted, Rows
<1>2. row \in Nat /\ file.width * 3 <= row
  BY <1>1, RowHoldsPixels
<1>3. r \in 0 .. rows - 1
  BY <1>1 DEF SourceRow
<1>4. r * row + row <= row * rows
  <2>1. r + 1 \in Nat /\ r + 1 <= rows
    BY <1>1, <1>3
  <2>2. (r + 1) * row <= rows * row
    BY <1>1, <1>2, <2>1, TimesMonotonic
  <2>3. (r + 1) * row = r * row + row /\ rows * row = row * rows
    BY <1>1, <1>2, <1>3, Z3
  <2> QED  BY <2>2, <2>3
<1>5. r * row \in Nat
  BY <1>2, <1>3, Z3
<1>6. x * 3 + 2 < row
  BY <1>1, <1>2
<1> HIDE DEF row, rows, r
<1>7. row * rows \in Nat
  BY <1>1, <1>2, Z3
<1>8. PixelOffset(file, x, y) = file.offset + r * row + x * 3
  BY DEF PixelOffset, r, row
<1> DEFINE before == r * row
           all == row * rows
<1>9. x \in Nat /\ before \in Nat /\ all \in Nat /\ before + row <= all
  BY <1>1, <1>4, <1>5, <1>7
<1> HIDE DEF before, all
<1>10. file.offset + before + x * 3 + 2 < file.offset + all
  BY <1>1, <1>2, <1>6, <1>9
<1>11. file.offset + all <= file.size
  BY <1>1 DEF all
<1>12. PixelOffset(file, x, y) = file.offset + before + x * 3
  BY <1>8 DEF before
<1> QED  BY <1>1, <1>9, <1>10, <1>11, <1>12

=============================================================================
