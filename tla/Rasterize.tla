------------------------------ MODULE Rasterize ------------------------------
(***************************************************************************)
(* Video memory, what reads it - the palette cache (gpu/texture.rs), the   *)
(* texels of a texture (gpu/rasterize.rs) and the transfers of images      *)
(* (MemTransfer of gpu/mod.rs) - and which pixels a primitive covers       *)
(* (gpu/rasterize.rs), as sets of points.                                  *)
(*                                                                         *)
(* A halfword is four texels of the smallest depth, as in the code, where  *)
(* TEXEL is 16.  What interpolation in f32 or dithering gives a pixel is   *)
(* not followed: the halfword is Mixed.  `area` is the draw area [x_min,   *)
(* x_max, y_min, y_max], which belongs to it with its borders.             *)
(***************************************************************************)
EXTENDS Integers, SequencesExt, Option

CONSTANTS WIDTH, HEIGHT,  \* of video memory, in halfwords: 1024 and 512
          TEXEL,          \* values of a texel of depth B4: 16
          COORD,          \* values of a texture coordinate: 256
          Mixed

ASSUME VramAssumption ==
  /\ WIDTH \in Nat \ {0} /\ HEIGHT \in Nat \ {0}
  /\ TEXEL \in Nat \ {0, 1} /\ COORD \in Nat \ {0} /\ Mixed \notin Int

\* What these powers are, as follows from their recursive definition.
ASSUME TexelPowers ==
  /\ \A k \in 0 .. 3 : TEXEL ^ k \in Nat \ {0} /\ (TEXEL * TEXEL) ^ k \in Nat \ {0}
  /\ TEXEL ^ 4 \in Nat \ {0, 1}

Depths == {"B4", "B8", "B15"}

Point(x, y) == [x |-> x, y |-> y]

\* A column past the right edge is in the next row.
offset_16(x, y) == (x + y * WIDTH) % (WIDTH * HEIGHT)
load_16(vram, x, y) == vram[offset_16(x, y)]
store_16(vram, x, y, val) == [vram EXCEPT ![offset_16(x, y)] = val]

-----------------------------------------------------------------------------
\* The palette cache: the entries and where they are from.

clut_size(depth) == IF depth = "B4" THEN TEXEL ELSE TEXEL * TEXEL

EmptyClut == [data |-> [i \in 0 .. TEXEL * TEXEL - 1 |-> 0], status |-> None]

clear(clut) == [clut EXCEPT !.status = None]

\* Fault: the depth is not compared.
Fault_clut_hit(clut, pos, depth) == \E s \in clut.status : s.pos = pos

\* A palette of the same place and of no greater depth is in the cache.
clut_hit(clut, pos, depth) ==
  \E s \in clut.status : s.pos = pos /\ clut_size(depth) <= clut_size(s.depth)

maybe_fetch(clut, pos, depth, vram) ==
  IF depth = "B15" \/ clut_hit(clut, pos, depth) THEN clut
  ELSE [status |-> Some([pos |-> pos, depth |-> depth]),
        data |-> [i \in DOMAIN clut.data |->
                    IF i < clut_size(depth) THEN load_16(vram, pos.x + i, pos.y) ELSE clut.data[i]]]

\* Where the texel at u, v of the page is, among those of its halfword.
per_halfword(depth) == [B4 |-> 4, B8 |-> 2, B15 |-> 1][depth]
texel_offset(page, depth, u, v) == offset_16(page.x + u \div per_halfword(depth), page.y + v)

\* Its place in the palette.
texel_index(val, depth, u) ==
  (val \div clut_size(depth) ^ (u % per_halfword(depth))) % clut_size(depth)

load_texel(clut, vram, page, depth, u, v) ==
  LET val == vram[texel_offset(page, depth, u, v)]
  IN  IF depth = "B15" \/ val = Mixed THEN val ELSE clut.data[texel_index(val, depth, u)]

is_invisible(texel) == texel = 0

\* The colour of a texel as a pixel: without its top bit.
as_color(texel) == IF texel = Mixed THEN Mixed ELSE texel % (TEXEL ^ 4 \div 2)

-----------------------------------------------------------------------------
\* An image on its way to or from video memory.

MemTransfer(x, y, width, height) ==
  [x |-> x, y |-> y, x_start |-> x, x_end |-> x + width, y_end |-> y + height]

\* Fault: the columns of the next row are not counted from the left.
Fault_next(tran) ==
  IF tran.x + 1 = tran.x_end THEN [tran EXCEPT !.y = @ + 1] ELSE [tran EXCEPT !.x = @ + 1]

\* The next halfword.  Goes past the end.
next(tran) ==
  IF tran.x + 1 = tran.x_end THEN [tran EXCEPT !.x = tran.x_start, !.y = @ + 1]
                             ELSE [tran EXCEPT !.x = @ + 1]

is_done(tran) == tran.y >= tran.y_end

-----------------------------------------------------------------------------
\* Primitives.
LANES == 4   \* columns that are tested at a time

\* Positive if c is to the left of the line from a to b.
edge_function(a, b, c) == (b.x - a.x) * (c.y - a.y) - (b.y - a.y) * (c.x - a.x)

\* The points of a triangle, counter-clockwise.
wound(p) == IF edge_function(p[1], p[2], p[3]) < 0 THEN <<p[1], p[3], p[2]>> ELSE p

is_top_left(a, b) == a.y - b.y < 0 \/ (a.y = b.y /\ b.x < a.x)

\* Fault: no bias, pixels of a common edge belong to both triangles.
Fault_bias(a, b) == 0

\* A pixel on an edge belongs to the triangle if the edge is a top left one.
bias(a, b) == IF is_top_left(a, b) THEN 0 ELSE -1

\* An edge as the coefficients of its barycentric coordinate (Edges::new).
setup(a, b) == [x |-> a.y - b.y, y |-> b.x - a.x, base |-> a.x * b.y - a.y * b.x + bias(a, b)]

next_multiple_of_lanes(n) == ((n + LANES - 1) \div LANES) * LANES

\* The bounding box, clipped to the draw area, and extended to whole lanes.
bounding_box(p, area) ==
  LET xs == {p[i].x : i \in 1 .. 3}
      ys == {p[i].y : i \in 1 .. 3}
  IN  [x_min |-> Max({Min(xs), area.x_min}), y_min |-> Max({Min(ys), area.y_min}),
       x_max |-> next_multiple_of_lanes(Min({Max(xs), area.x_max})), y_max |-> Min({Max(ys), area.y_max})]

\* The coordinates advance from the origin of the box: by LANES columns at
\* x_step, by a row at y_step.  A pixel is drawn if none of them is negative.
draw_triangle(points, area) ==
  LET p      == wound(points)
      edges  == {setup(p[2], p[3]), setup(p[3], p[1]), setup(p[1], p[2])}
      box    == bounding_box(p, area)
      origin(e, lane) == e.x * (box.x_min + lane) + e.y * box.y_min + e.base
      bary(e, row, step, lane) == origin(e, lane) + row * e.y + step * (e.x * LANES)
      rows   == 0 .. box.y_max - box.y_min
      steps  == {s \in 0 .. box.x_max : box.x_min + LANES * s <= box.x_max}
  IN  {Point(box.x_min + LANES * i[2] + i[3], box.y_min + i[1]) :
         i \in {i \in rows \X steps \X (0 .. LANES - 1) :
                  \A e \in edges : bary(e, i[1], i[2], i[3]) >= 0}}

-----------------------------------------------------------------------------
clamp(n, low, high) == IF n < low THEN low ELSE IF n > high THEN high ELSE n
clamp_to_da(p, area) == Point(clamp(p.x, area.x_min, area.x_max), clamp(p.y, area.y_min, area.y_max))

sign(n) == IF n < 0 THEN -1 ELSE 1
Abs(n) == IF n < 0 THEN -n ELSE n

\* Fault: a step aside costs nothing.
Fault_side_step(d, long, short) == IF d < 0 THEN d + 2 * short ELSE d

\* The decision variable after a step, aside too if it was not negative.
side_step(d, long, short) == IF d < 0 THEN d + 2 * short ELSE d + 2 * short - 2 * long

\* The pixels of a line between two points of the draw area, in order.
draw_line(a, b) ==
  LET dx    == b.x - a.x
      dy    == b.y - a.y
      flat  == Abs(dx) > Abs(dy)
      long  == IF flat THEN Abs(dx) ELSE Abs(dy)
      short == IF flat THEN Abs(dy) ELSE Abs(dx)
      pen[n \in 0 .. long] ==
        IF n = 0 THEN [at |-> a, d |-> 2 * short - long]
        ELSE LET prev  == pen[n - 1]
                 aside == prev.d >= 0
             IN  [at |-> Point(IF flat \/ aside THEN prev.at.x + sign(dx) ELSE prev.at.x,
                               IF ~flat \/ aside THEN prev.at.y + sign(dy) ELSE prev.at.y),
                  d  |-> side_step(prev.d, long, short)]
  IN  [n \in 1 .. long + 1 |-> pen[n - 1].at]

\* A shaded line divides by the longer distance, cut to a byte.
line_divides_by_zero(a, b) == Max({Abs(b.x - a.x), Abs(b.y - a.y)}) % 256 = 0

-----------------------------------------------------------------------------
fill_rect(start, dim) ==
  {Point(start.x + x, start.y + y) : x \in 0 .. dim.x - 1, y \in 0 .. dim.y - 1}

\* The part of a rectangle that is drawn.
clip_rect(start, dim, area) ==
  [x_min |-> Max({start.x, area.x_min}), x_max |-> Min({start.x + dim.x, area.x_max + 1}) - 1,
   y_min |-> Max({start.y, area.y_min}), y_max |-> Min({start.y + dim.y, area.y_max + 1}) - 1]

\* Its pixels, row by row.
rect_pixels(box) ==
  LET w == box.x_max - box.x_min + 1
      h == box.y_max - box.y_min + 1
  IN  IF w <= 0 \/ h <= 0 THEN <<>>
      ELSE [n \in 1 .. w * h |-> Point(box.x_min + ((n - 1) % w), box.y_min + ((n - 1) \div w))]

\* Fault: what is clipped away does not move the texture.
Fault_clip_coord(tc, delta, start, min) == tc

\* The texture coordinate of the first pixel, for the part that is clipped away
\* at the left or at the top.
clip_coord(tc, delta, start, min) == IF start < min THEN (tc + (min - start) * delta) % COORD ELSE tc

\* The pixels of a rectangle with a raw texture, drawn one after the other.
draw_rect(vram, clut, page, depth, flip, start, box, tc) ==
  LET delta(flipped) == IF flipped THEN -1 ELSE 1
      u == clip_coord(tc.x, delta(flip.x), start.x, box.x_min)
      v == clip_coord(tc.y, delta(flip.y), start.y, box.y_min)
      draw(mem, p) ==
        LET texel == load_texel(clut, mem, page, depth,
                                (u + (p.x - box.x_min) * delta(flip.x)) % COORD,
                                (v + (p.y - box.y_min) * delta(flip.y)) % COORD)
        IN  IF is_invisible(texel) THEN mem ELSE store_16(mem, p.x, p.y, as_color(texel))
      pixels == rect_pixels(box)
      drawn[n \in 0 .. Len(pixels)] == IF n = 0 THEN vram ELSE draw(drawn[n - 1], pixels[n])
  IN  drawn[Len(pixels)]
==============================================================================
