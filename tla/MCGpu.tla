------------------------------- MODULE MCGpu -------------------------------
(* Video memory of 8 x 4 halfwords of four bits.  Four guests: one draws   *)
(* polygons and lines, one textured rectangles, one moves images, and one  *)
(* changes the display, with frames of four (NTSC) and six (PAL) lines.    *)
EXTENDS Gpu

FewLines == [ntsc |-> 4, pal |-> 6, pal_interlaced |-> 5]
Times == [ntsc |-> 2, pal |-> 3]
Area(start, end) == [start |-> start, end |-> end]
After == Area(1, 3)
SomeAreas == {Area(0, 2), Area(1, 3), Area(2, 4)}
AllDisplays == [video : VideoModes, interlace : BOOLEAN, res480 : BOOLEAN]

Points(xs, ys) == {Point(x, y) : x \in xs, y \in ys}
Corner(name, p) == [cmd |-> name, at |-> p]

Poly(points, shaded) == [cmd |-> "poly", points |-> points, shaded |-> shaded, textured |-> FALSE, color |-> 1]
Line(points, shaded) == [cmd |-> "line", points |-> points, shaded |-> shaded]

Grid == Points({0, 2, 3, 6}, {0, 1, 3})
Quads == {q \in [1 .. 4 -> Grid] : Convex(<<q[1], q[2], q[4], q[3]>>)}
Triangles == {t \in [1 .. 3 -> Grid] : edge_function(t[1], t[2], t[3]) # 0 \/ t[1] = Point(0, 0)}
Shapes ==
  {Corner("top_left", p) : p \in {Point(0, 0), Point(1, 1)}}
    \cup {Corner("bottom_right", p) : p \in {Point(2, 2), Point(6, 3)}}
    \cup {Corner("offset", p) : p \in {Point(0, 0), Point(-1, -1)}}
    \cup {Poly(q, FALSE) : q \in Quads} \cup {Poly(t, TRUE) : t \in Triangles}
    \cup {Line(l, shaded) : l \in [1 .. 2 -> Points({-1, 0, 2, 5, 6}, -1 .. 3)], shaded \in BOOLEAN}

\* A texture in the right half of the first two rows; palettes in the last row.
Picture == [o \in 0 .. 31 |-> IF o \in {4, 5, 6, 7} THEN 2 * o - 1 ELSE IF o \in {12, 13, 14, 15} THEN 27 - o
                              ELSE IF o = 24 THEN 0 ELSE IF o > 24 THEN o - 22 ELSE 1]
Rect(at, dim, tc, clut) == [cmd |-> "rect", at |-> at, dim |-> dim, tc |-> tc, clut |-> clut]
Textures ==
  {Corner("top_left", Point(1, 0)), Corner("bottom_right", Point(2, 1)), [cmd |-> "clear"],
   [cmd |-> "fill", at |-> Point(1, 3), dim |-> Point(1, 1), color |-> 9],
   [cmd |-> "poly", points |-> <<Point(0, 0), Point(0, 2), Point(2, 0)>>, shaded |-> FALSE,
    textured |-> TRUE, page |-> Point(4, 0), depth |-> "B8", clut |-> Point(0, 3)]}
    \cup [cmd : {"mode"}, page : {Point(4, 0)}, depth : Depths, flip : [x : BOOLEAN, y : BOOLEAN]]
    \cup {Rect(at, dim, tc, clut) :
            at \in {Point(-1, -1), Point(1, 1)}, dim \in {Point(3, 2), Point(4, 3)},
            tc \in {Point(0, 0), Point(3, 1)}, clut \in {Point(0, 3), Point(4, 3)}}

Image(cmd, at, dim) == [cmd |-> cmd, at |-> at, dim |-> dim]
Images ==
  {Image(cmd, at, dim) : cmd \in {"store", "load"}, at \in {Point(0, 0), Point(5, 2)},
                         dim \in Points(0 .. 3, 0 .. 2)}

Guests_ == [shapes |-> Shapes, textures |-> Textures, images |-> Images, displays |-> {}]
Draws == [shapes |-> 1, textures |-> 2, images |-> 2, displays |-> 0]
Pictures == {Picture}
=============================================================================
