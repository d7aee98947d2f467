-------------------------------- MODULE Gpu --------------------------------
(***************************************************************************)
(* The picture: what the commands of the guest draw into video memory, and *)
(* the beam that displays it.  GP0 commands arrive complete and one after  *)
(* the other, which is the business of GpuPort; the words of an image are  *)
(* actions of their own.  GP1(0) resets both halves.                       *)
(*                                                                         *)
(* Scanlines and drawing have no state in common, so that the beam rests   *)
(* while a guest draws.  Colours are halfwords: the arithmetic of blending *)
(* and dithering is left out, as are the mask bits and the texture window. *)
(***************************************************************************)
EXTENDS Raster, Rasterize, FiniteSets

CONSTANTS FILL,        \* columns that a fill is rounded to: 16
          Colors,      \* halfwords of an image
          FirstVram,   \* contents of video memory that images may have left
          Repertoire,  \* the commands of each guest
          MaxDraws,    \* bound: commands of each guest that draw
          MaxWords     \* bound: words of an image

Guests == DOMAIN Repertoire
Displays_only == "displays"   \* the guest that stores to GP1

Drawing == {"fill", "poly", "line", "rect", "store", "load"}
Setting == {"clear", "top_left", "bottom_right", "offset", "mode"}

\* The draw area is set within video memory.
Screen == [x : 0 .. WIDTH - 1, y : 0 .. HEIGHT - 1]
Position == [x : Int, y : Int]

IsCommand(cmd) ==
  /\ cmd.cmd \in Drawing \cup Setting
  /\ cmd.cmd \in {"store", "load"} => {cmd.at.x, cmd.at.y, cmd.dim.x, cmd.dim.y} \subseteq Nat
  /\ cmd.cmd = "rect" => {cmd.at, cmd.dim, cmd.tc, cmd.clut} \subseteq Position
  /\ cmd.cmd = "fill" => cmd.color \in Nat
  /\ cmd.cmd = "line" => cmd.points \in [1 .. 2 -> Position]
  /\ cmd.cmd = "poly" => cmd.points \in [1 .. 3 -> Position] \cup [1 .. 4 -> Position]
  /\ cmd.cmd = "poly" =>
       IF cmd.textured THEN {cmd.page, cmd.clut} \subseteq Position /\ cmd.depth \in Depths
                       ELSE cmd.shaded \/ cmd.color \in Nat
  /\ cmd.cmd \in {"top_left", "bottom_right"} => cmd.at \in Screen
  /\ cmd.cmd = "offset" => cmd.at \in Position
  /\ cmd.cmd = "mode" => cmd.page \in Position /\ cmd.depth \in Depths

Parameters ==
  /\ WIDTH \in Nat \ {0} /\ HEIGHT \in Nat \ {0}
  /\ FILL \in Nat \ {0} /\ Colors \subseteq Nat /\ MaxWords \in Nat
  /\ MaxDraws \in [Guests -> Nat] /\ Displays_only \in Guests
  /\ FirstVram \subseteq [0 .. WIDTH * HEIGHT - 1 -> Nat]
  /\ \A g \in Guests : \A cmd \in Repertoire[g] : IsCommand(cmd)

ASSUME GpuAssumption == Parameters

VARIABLES guest,
          canvas,  \* video memory, the palette cache and the drawing registers
          log      \* the last command, what it found and drew, and what was
                   \* written since the palette cache was cleared

gpu_vars == <<raster_vars, guest, canvas, log>>

NoTransfer == [kind |-> "none"]

\* The registers after a reset.
ResetDraw ==
  [area |-> [x_min |-> 0, x_max |-> 0, y_min |-> 0, y_max |-> 0], offset |-> Point(0, 0),
   page |-> Point(0, 0), depth |-> "B4", flip |-> [x |-> FALSE, y |-> FALSE]]

NoCommand == [cmd |-> "none"]

GpuInit ==
  /\ RasterInit
  /\ guest \in Guests
  /\ \E vram \in FirstVram :
       canvas = [vram |-> vram, clut |-> EmptyClut, reg |-> ResetDraw, tran |-> NoTransfer,
                 panicked |-> FALSE]
  /\ log = [cmd |-> NoCommand, before |-> None, drawn |-> <<>>, halfwords |-> <<>>, written |-> {},
            draws |-> 0]

-----------------------------------------------------------------------------
\* What a command does to the canvas and the pixels that it covers, as a
\* sequence of sets.

Covers(c, drawn) == [canvas |-> c, drawn |-> drawn]

paint(c, pixels, color) ==
  LET at == {offset_16(p.x, p.y) : p \in pixels}
  IN  [c EXCEPT !.vram = [o \in DOMAIN @ |-> IF o \in at THEN color ELSE @[o]]]

with_offset(p, offset) == Point(p.x + offset.x, p.y + offset.y)

gp0_fill_rect(c, cmd) ==
  LET down(n) == (n \div FILL) * FILL
      start  == Point(down(cmd.at.x % WIDTH), cmd.at.y % (2 * HEIGHT))
      dim    == Point(down((cmd.dim.x % WIDTH) + FILL - 1), cmd.dim.y % HEIGHT)
      pixels == fill_rect(start, dim)
  IN  Covers(paint(c, pixels, cmd.color), <<pixels>>)

\* A textured polygon brings its page and depth, and any polygon loads the
\* palette if the depth has one.  A quad is the triangles of its first and of
\* its last three points.
gp0_poly(c, cmd) ==
  LET reg    == IF cmd.textured THEN [c.reg EXCEPT !.page = cmd.page, !.depth = cmd.depth] ELSE c.reg
      pos    == IF cmd.textured THEN cmd.clut ELSE Point(0, 0)
      p      == [i \in DOMAIN cmd.points |-> with_offset(cmd.points[i], reg.offset)]
      drawn  == [i \in 1 .. Len(p) - 2 |-> draw_triangle(SubSeq(p, i, i + 2), reg.area)]
      ready  == [c EXCEPT !.reg = reg, !.clut = maybe_fetch(@, pos, reg.depth, c.vram)]
      color  == IF cmd.textured \/ cmd.shaded THEN Mixed ELSE cmd.color
  IN  Covers(paint(ready, UNION Range(drawn), color), drawn)

\* `clamp` panics on an empty draw area.  Lines are always dithered.
gp0_line(c, cmd) ==
  LET da   == c.reg.area
      end(i) == clamp_to_da(with_offset(cmd.points[i], c.reg.offset), da)
      path == draw_line(end(1), end(2))
  IN  IF da.x_min > da.x_max \/ da.y_min > da.y_max
           \/ (cmd.shaded /\ line_divides_by_zero(end(1), end(2)))
      THEN Covers([c EXCEPT !.panicked = TRUE], <<>>)
      ELSE Covers(paint(c, Range(path), Mixed), [i \in DOMAIN path |-> {path[i]}])

gp0_rect(c, cmd) ==
  LET reg   == c.reg
      start == with_offset(cmd.at, reg.offset)
      box   == clip_rect(start, cmd.dim, reg.area)
      clut  == maybe_fetch(c.clut, cmd.clut, reg.depth, c.vram)
      drawn == draw_rect(c.vram, clut, reg.page, reg.depth, reg.flip, start, box, cmd.tc)
  IN  Covers([c EXCEPT !.clut = clut,
                       !.vram = [o \in DOMAIN @ |-> drawn[o]]],
             <<Range(rect_pixels(box))>>)

\* The height of an image is cut to nine bits on the way in, to ten on the way out.
gp0_copy_rect(c, cmd) ==
  LET height == cmd.dim.y % (IF cmd.cmd = "store" THEN HEIGHT ELSE 2 * HEIGHT)
  IN  [c EXCEPT !.tran = [kind |-> cmd.cmd,
         pos |-> MemTransfer(cmd.at.x % WIDTH, cmd.at.y % (2 * HEIGHT), cmd.dim.x % WIDTH, height)]]

\* Drawing, and the start of a transfer.
gp0_exec(c, cmd) ==
  CASE cmd.cmd = "fill" -> gp0_fill_rect(c, cmd)
    [] cmd.cmd = "poly" -> gp0_poly(c, cmd)
    [] cmd.cmd = "line" -> gp0_line(c, cmd)
    [] cmd.cmd = "rect" -> gp0_rect(c, cmd)
    [] OTHER            -> Covers(gp0_copy_rect(c, cmd), <<>>)

\* The commands that set registers.
gp0_set(c, cmd) ==
  CASE cmd.cmd = "clear"        -> [c EXCEPT !.clut = clear(@)]
    [] cmd.cmd = "top_left"     -> [c EXCEPT !.reg.area = [@ EXCEPT !.x_min = cmd.at.x, !.y_min = cmd.at.y]]
    [] cmd.cmd = "bottom_right" -> [c EXCEPT !.reg.area = [@ EXCEPT !.x_max = cmd.at.x, !.y_max = cmd.at.y]]
    [] cmd.cmd = "offset"       -> [c EXCEPT !.reg.offset = cmd.at]
    [] cmd.cmd = "mode"         -> [c EXCEPT !.reg.page = cmd.page, !.reg.depth = cmd.depth,
                                             !.reg.flip = cmd.flip]

-----------------------------------------------------------------------------
Ready == ~canvas.panicked /\ canvas.tran = NoTransfer /\ log.draws < MaxDraws[guest]

offsets(drawn) == {offset_16(p.x, p.y) : p \in UNION Range(drawn)}

Draw ==
  /\ Ready
  /\ \E cmd \in {c \in Repertoire[guest] : c.cmd \in Drawing} :
       LET done == gp0_exec(canvas, cmd)
       IN  /\ canvas' = done.canvas
           /\ log' = [cmd |-> cmd, before |-> Some(canvas), drawn |-> done.drawn, halfwords |-> <<>>,
                      written |-> log.written \cup offsets(done.drawn), draws |-> log.draws + 1]
  /\ UNCHANGED <<raster_vars, guest>>

\* The log without the last command.
Forgotten == [log EXCEPT !.cmd = NoCommand, !.before = None, !.drawn = <<>>, !.halfwords = <<>>]

SetRegister ==
  /\ Ready
  /\ \E cmd \in {c \in Repertoire[guest] : c.cmd \notin Drawing} :
       /\ canvas' = gp0_set(canvas, cmd)
       /\ log' = [Forgotten EXCEPT !.written = IF cmd.cmd = "clear" THEN {} ELSE @]
  /\ UNCHANGED <<raster_vars, guest>>

\* The canvas and the transfer after a halfword.
Transferred(tran) == IF is_done(tran) THEN NoTransfer ELSE [canvas.tran EXCEPT !.pos = tran]

\* A word of an image for video memory (`fifo_to_vram_store`).
StoreWord ==
  /\ canvas.tran.kind = "store" /\ Len(log.halfwords) < 2 * MaxWords
  /\ \E low, high \in Colors :
       LET one == canvas.tran.pos
           two == next(one)
       IN  /\ canvas' = [canvas EXCEPT
                           !.vram = store_16(store_16(@, one.x, one.y, low), two.x, two.y, high),
                           !.tran = Transferred(next(two))]
           /\ log' = [log EXCEPT !.halfwords = @ \o <<low, high>>,
                                 !.written = @ \cup {offset_16(one.x, one.y), offset_16(two.x, two.y)}]
  /\ UNCHANGED <<raster_vars, guest>>

\* The guest reads a word of an image (`gpu_read`).
LoadWord ==
  /\ canvas.tran.kind = "load" /\ Len(log.halfwords) < 2 * MaxWords
  /\ LET one == canvas.tran.pos
         two == next(one)
     IN  /\ canvas' = [canvas EXCEPT !.tran = Transferred(next(two))]
         /\ log' = [log EXCEPT !.halfwords = @ \o <<load_16(canvas.vram, one.x, one.y),
                                                    load_16(canvas.vram, two.x, two.y)>>]
  /\ UNCHANGED <<raster_vars, guest>>

\* GP1(0).  A transfer goes on.
Reset ==
  /\ guest # Displays_only => gp1_stores = 0 /\ log.draws < MaxDraws[guest]
  /\ Gp1Reset
  /\ canvas' = [canvas EXCEPT !.clut = clear(@), !.reg = ResetDraw]
  /\ log' = IF canvas.tran = NoTransfer THEN [Forgotten EXCEPT !.written = {}]
                                        ELSE [log EXCEPT !.written = {}]
  /\ UNCHANGED guest

Display ==
  /\ guest = Displays_only
  /\ EndOfScanline \/ Gp1DisplayMode \/ Gp1VerticalDisplayRange
  /\ UNCHANGED <<guest, canvas, log>>

GpuNext == Draw \/ SetRegister \/ StoreWord \/ LoadWord \/ Reset \/ Display

\* The repeating event is never unscheduled.
GpuSpec == GpuInit /\ [][GpuNext]_gpu_vars /\ WF_gpu_vars(Display /\ EndOfScanline)

-----------------------------------------------------------------------------
In(p, da) == p.x \in da.x_min .. da.x_max /\ p.y \in da.y_min .. da.y_max
Times_drawn(p, drawn) == Cardinality({i \in DOMAIN drawn : p \in drawn[i]})

\* The outline of a triangle or quad: the last two points of a quad cross over.
Outline(cmd, offset) ==
  LET p == [i \in DOMAIN cmd.points |-> with_offset(cmd.points[i], offset)]
  IN  IF Len(p) = 3 THEN p ELSE <<p[1], p[2], p[4], p[3]>>

\* The sides of an outline that p is on the left of, on or left of.
LeftOf(p, outline) == {i \in DOMAIN outline : edge_function(outline[i], outline[(i % Len(outline)) + 1], p) > 0}
RightOf(p, outline) == {i \in DOMAIN outline : edge_function(outline[i], outline[(i % Len(outline)) + 1], p) < 0}
Convex(outline) ==
  LET corners(side(_, _)) == \A k \in DOMAIN outline : side(outline[k], outline) = {i \in DOMAIN outline :
        k \notin {i, (i % Len(outline)) + 1}}
  IN  corners(LeftOf) \/ corners(RightOf)

\* A triangle or convex quad that is not textured covers, in the draw area, every
\* pixel inside of it once, on its outline at most once and none beyond: the two
\* halves of a quad leave no gap and share no pixel ("to avoid drawing pixels
\* twice if triangles are next to each-other", gpu/rasterize.rs).  Of what is
\* outside the area, only the columns that fill up the last lanes may be drawn.
PolygonIsWhole(c, cmd, drawn) ==
  LET outline == Outline(cmd, c.reg.offset)
      da == c.reg.area
  IN  /\ ~cmd.textured /\ Convex(outline) =>
           \A x \in da.x_min .. da.x_max, y \in da.y_min .. da.y_max :
             LET p == Point(x, y)
             IN  CASE DOMAIN outline \in {LeftOf(p, outline), RightOf(p, outline)} -> Times_drawn(p, drawn) = 1
                   [] LeftOf(p, outline) # {} /\ RightOf(p, outline) # {}          -> Times_drawn(p, drawn) = 0
                   [] OTHER                                                        -> Times_drawn(p, drawn) <= 1
      /\ \A p \in UNION Range(drawn) :
           In(p, [da EXCEPT !.x_max = @ + 2 * (LANES - 1)])

\* A line goes from one end to the other, an adjacent pixel at a time and at most
\* half a pixel beside the line between them, in the draw area.
LineIsStraight(c, cmd, drawn) ==
  LET end(i) == clamp_to_da(with_offset(cmd.points[i], c.reg.offset), c.reg.area)
      long == Max({Abs(end(2).x - end(1).x), Abs(end(2).y - end(1).y)})
      at(i) == The(drawn[i])
  IN  /\ Len(drawn) = long + 1 /\ at(1) = end(1) /\ at(long + 1) = end(2)
      /\ \A i \in 1 .. long + 1 : In(at(i), c.reg.area) /\ 2 * Abs(edge_function(end(1), end(2), at(i))) <= long
      /\ \A i \in 1 .. long : at(i) # at(i + 1)
           /\ Abs(at(i).x - at(i + 1).x) <= 1 /\ Abs(at(i).y - at(i + 1).y) <= 1

\* Polygons and lines are drawn as their points say, at whatever offset and
\* however the draw area clips them.
DrawnIsTheShape ==
  \A c \in log.before :
    /\ log.cmd.cmd = "poly" => PolygonIsWhole(c, log.cmd, log.drawn)
    /\ log.cmd.cmd = "line" /\ ~canvas.panicked => LineIsStraight(c, log.cmd, log.drawn)

\* The texel of a texture in video memory, without the cache.
StoredTexel(c, cmd, u, v) ==
  LET depth == c.reg.depth
      val   == c.vram[texel_offset(c.reg.page, depth, u, v)]
  IN  IF depth = "B15" \/ val = Mixed THEN val
      ELSE load_16(c.vram, cmd.clut.x + texel_index(val, depth, u), cmd.clut.y)

\* The pixels that a textured rectangle is to show, each with its texel.
RectIsTextured(c, cmd, vram, written) ==
  LET reg   == c.reg
      start == with_offset(cmd.at, reg.offset)
      along(tc, flip, n) == (IF flip THEN tc - n ELSE tc + n) % COORD
      u(p) == along(cmd.tc.x, reg.flip.x, p.x - start.x)
      v(p) == along(cmd.tc.y, reg.flip.y, p.y - start.y)
      texel(p) == StoredTexel(c, cmd, u(p), v(p))
      shown == {p \in fill_rect(start, cmd.dim) : In(p, reg.area)}
      at(p) == offset_16(p.x, p.y)
      palette == {offset_16(cmd.clut.x + i, cmd.clut.y) : i \in 0 .. clut_size(reg.depth) - 1}
      texture == {texel_offset(reg.page, reg.depth, u(p), v(p)) : p \in shown}
  IN  /\ reg.depth = "B15" \/ palette \cap written = {}
      /\ texture \cap {at(p) : p \in shown} = {}
      =>
        /\ \A p \in shown : vram[at(p)] = IF texel(p) = 0 THEN c.vram[at(p)] ELSE as_color(texel(p))
        /\ \A o \in DOMAIN c.vram \ {at(p) : p \in shown} : vram[o] = c.vram[o]

\* A textured rectangle shows, in the draw area and nowhere else, for each pixel
\* the texel as many columns and rows from the first one as the pixel is from the
\* corner, however it is clipped and flipped, through a palette as it is in video
\* memory: if the guest cleared the cache (GP0(01)) since it changed it, and does
\* not draw over the texture itself.
TexturedAsStored ==
  \A c \in log.before :
    log.cmd.cmd = "rect" => RectIsTextured(c, log.cmd, canvas.vram, log.written)

\* An image within video memory is stored in its rectangle, row by row, and
\* read from it in the same order, in as many words as it has; of the rest of
\* video memory nothing changes but the halfword that fills up the last word.
ImageInPlace ==
  \A c \in log.before : log.cmd.cmd \in {"store", "load"} =>
    LET at   == log.cmd.at
        w    == log.cmd.dim.x
        h    == log.cmd.dim.y
        size == w * h
        place(i) == offset_16(at.x + ((i - 1) % w), at.y + ((i - 1) \div w))
        sent == {i \in DOMAIN log.halfwords : i <= size}
        pad  == IF size % 2 = 1 THEN {offset_16(at.x, at.y + h)} ELSE {}
    IN  w > 0 /\ h > 0 /\ at.x + w <= WIDTH /\ at.y + h <= HEIGHT /\ w < WIDTH /\ h < HEIGHT =>
          /\ (canvas.tran = NoTransfer) = (Len(log.halfwords) >= size)
          /\ \A i \in sent : canvas.vram[place(i)] = log.halfwords[i]
          /\ \A o \in DOMAIN c.vram \ ({place(i) : i \in sent} \cup pad) : canvas.vram[o] = c.vram[o]

\* The interrupt games wait for keeps coming, whatever modes and areas were set
\* and at whatever scanline, once the area ends within the frame; and at the rate
\* of the video mode, though the event's interval is only changed with the mode
\* (end_of_scanline, gp1_reset, gp1_display_mode).
VBlankKeepsComing ==
  guest = Displays_only /\ <>[](area.end < scanline_count) => []<>(vblank /\ period = Time[mode.video])
============================================================================
