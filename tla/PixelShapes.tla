---------------------------- MODULE PixelShapes ----------------------------
(* The pixel shape generator (frontend/src/pixels/ and secret_pixels.ts): a *)
(* shape is rasterised on a grid of cells, walled, closed at its diagonals  *)
(* and trimmed; the page redraws at the next frame after a change.  Cells   *)
(* are pairs <<x, y>>, a mask is its width, its height and its cells.       *)
(* Lengths inside a cell are in twentieths, the step of the sliders.  Stars *)
(* are left out: their corners are sines and cosines.                       *)
EXTENDS Integers, Sequences, FiniteSets, FiniteSetsExt

CONSTANTS Sides,       \* the lengths a side is set to (3..512 in the code)
          Biases,      \* the smoothing, in twentieths of a cell: -20..20
          Depths,      \* what the slider of the wall's depth is set to
          Pixels,      \* the size of a pixel in its cell, in twentieths
          Steps        \* the step of the ruled grid, in cells

ASSUME PixelConstants == /\ Sides \subseteq 1..512 /\ Sides # {}
                         /\ Biases \subseteq -20..20
                         /\ Depths \subseteq Nat \ {0, 1}
                         /\ Pixels \subseteq 1..20 /\ Steps \subseteq Nat \ {0}

VARIABLES shape, values, mode, thickness, bias, frame, current

pixelVars == <<shape, values, mode, thickness, bias, frame, current>>

Shapes == {"ellipse", "semi", "quarter", "square"}
Modes == {"outline", "diagonal", "thick", "filled"}
Facings == {"Up", "Down", "Left", "Right"}
Corners == {"TL", "TR", "BL", "BR"}

(* Masks. *)

Grid(w, h) == (0..w - 1) \X (0..h - 1)

WallDepth(m, t) == CASE m = "filled" -> 0 [] m = "thick" -> t [] OTHER -> 1

\* Squared distance to the middle of the grid, in half cells.
CentreDistance(m, c) == (2 * c[1] + 1 - m.w) ^ 2 + (2 * c[2] + 1 - m.h) ^ 2

\* Of the two cells beside a gap the one inside the shape, or the nearer.
FillGap(m, solid, a, b) ==
  LET inside == {a, b} \cap solid IN
  IF inside = {a, b}
  THEN {IF CentreDistance(m, a) <= CentreDistance(m, b) THEN a ELSE b}
  ELSE inside

\* closeDiagonals: every two cells that meet only at a corner get a third.
CloseDiagonals(m, solid) ==
  [m EXCEPT !.cells = @ \cup UNION
    {LET tl == <<x, y>>  tr == <<x + 1, y>>  bl == <<x, y + 1>>  br == <<x + 1, y + 1>> IN
     IF {tl, br} \subseteq m.cells /\ {tr, bl} \cap m.cells = {} THEN FillGap(m, solid, tr, bl)
     ELSE IF {tr, bl} \subseteq m.cells /\ {tl, br} \cap m.cells = {} THEN FillGap(m, solid, tl, br)
     ELSE {} : x \in 0..m.w - 2, y \in 0..m.h - 2}]

\* The part of some cells in a box, moved to its corner.
Cut(cells, x0, y0, x1, y1) ==
  {<<c[1] - x0, c[2] - y0>> : c \in {d \in cells : d[1] \in x0..x1 /\ d[2] \in y0..y1}}

\* bounds and trim: the box of the cells that are drawn, and nothing else.
Trim(m) ==
  IF m.cells = {} THEN m
  ELSE LET xs == {c[1] : c \in m.cells}  ys == {c[2] : c \in m.cells} IN
       [w |-> Max(xs) - Min(xs) + 1, h |-> Max(ys) - Min(ys) + 1,
        cells |-> Cut(m.cells, Min(xs), Min(ys), Max(xs), Max(ys))]

\* rows: the filled runs of a row, by their first and last cells.
Runs(m, y) ==
  LET on(x) == <<x, y>> \in m.cells IN
  {r \in Grid(m.w, m.w) :
     /\ r[1] <= r[2] /\ (\A x \in r[1]..r[2] : on(x)) /\ ~on(r[1] - 1) /\ ~on(r[2] + 1)}

(* Rasterisers: what is drawn, and the same shape filled. *)

\* spanAt and the scan of a row: is a cell on or in the ellipse of semi-axes a
\* and b about the middle of the grid?
InEllipse(w, h, a, b, c) ==
  LET dx == 10 * (2 * c[1] + 1 - w)  dy == 10 * (2 * c[2] + 1 - h) IN
  a > 0 /\ b > 0 /\ dx * dx * b * b <= a * a * (b * b - dy * dy)

\* cropBox: the half or the quarter that is kept, the middle row included.
CropBox(keep, w, h) ==
  [x0 |-> IF keep \in {"Right", "TR", "BR"} THEN w \div 2 ELSE 0,
   x1 |-> IF keep \in {"Left", "TL", "BL"} THEN (w + 1) \div 2 - 1 ELSE w - 1,
   y0 |-> IF keep \in {"Down", "BL", "BR"} THEN h \div 2 ELSE 0,
   y1 |-> IF keep \in {"Up", "TL", "TR"} THEN (h + 1) \div 2 - 1 ELSE h - 1]

\* An ellipse of the size asked for, its edge moved by the bias, the grid grown
\* to hold it; cut sides get a wall as deep as the curved one.
Ellipse(w0, h0, beta, depth, keep) ==
  LET pad == IF beta > 0 THEN (beta + 19) \div 20 ELSE 0
      w == w0 + 2 * pad
      h == h0 + 2 * pad
      a == 10 * w0 + beta
      b == 10 * h0 + beta
      solid == {c \in Grid(w, h) : InEllipse(w, h, a, b, c)}
      hole == {c \in solid : depth > 0
                 /\ InEllipse(w, h, a - 20 * depth, b - 20 * depth, c)}
      box == CropBox(keep, w, h)
      cut(cells) == Cut(cells, box.x0, box.y0, box.x1, box.y1)
      W == box.x1 - box.x0 + 1
      H == box.y1 - box.y0 + 1
      walls == {c \in cut(solid) : \/ box.y0 > 0 /\ c[2] < depth
                                   \/ box.y1 < h - 1 /\ c[2] >= H - depth
                                   \/ box.x0 > 0 /\ c[1] < depth
                                   \/ box.x1 < w - 1 /\ c[1] >= W - depth} IN
  [mask |-> [w |-> W, h |-> H, cells |-> cut(solid \ hole) \cup walls],
   solid |-> cut(solid)]

Square(n, depth) ==
  [mask |-> [w |-> n, h |-> n,
             cells |-> {c \in Grid(n, n) : \/ depth = 0
                                           \/ c[1] < depth \/ c[2] < depth
                                           \/ c[1] >= n - depth \/ c[2] >= n - depth}],
   solid |-> Grid(n, n)]

(* The table of shapes. *)

\* maxThickness: a wall that just reaches the middle.
EllipseCap(w, h, beta) == Max({1, (10 * Min({w, h}) + beta + 19) \div 20})
SquareCap(n) == (n + 1) \div 2

Inputs(s) == CASE s = "ellipse" -> {"circle", "w", "h"}
               [] s = "semi" -> {"circle", "w", "h", "facing"}
               [] s = "quarter" -> {"circle", "w", "h", "corner"}
               [] s = "square" -> {"size"}

\* The defaults of the code, but for the sizes: one of the model's.
Default == [circle |-> TRUE, w |-> Max(Sides), h |-> Max(Sides),
            facing |-> "Up", corner |-> "TL", size |-> Max(Sides)]

\* visibleInputs: the width is hidden while the shape is a circle.
Visible(s, v) == {k \in Inputs(s) : k = "w" => ~v.circle}

\* defaultsFor: what the shape before had under the same key is kept.
DefaultsFor(s, v) ==
  [k \in Inputs(s) |-> IF k \in DOMAIN v THEN v[k] ELSE Default[k]]

Width(v) == IF v.circle THEN v.h ELSE v.w
Keep(s, v) == CASE s = "semi" -> v.facing [] s = "quarter" -> v.corner [] OTHER -> "all"

MaxThicknessFor(s, v, beta) ==
  IF s = "square" THEN SquareCap(v.size) ELSE EllipseCap(Width(v), v.h, beta)

Raster(s, v, m, t, beta) ==
  IF s = "square" THEN Square(v.size, WallDepth(m, t))
  ELSE Ellipse(Width(v), v.h, beta, WallDepth(m, t), Keep(s, v))

\* withMode and generate; what is kept beside the mask is for the properties.
Generate(s, v, m, t, beta) ==
  LET r == Raster(s, v, m, t, beta)
      drawn == IF m = "diagonal" THEN CloseDiagonals(r.mask, r.solid) ELSE r.mask IN
  [mask |-> Trim(drawn), drawn |-> drawn.cells, solid |-> r.solid]

(* Painting: how large a pixel is in its cell and where the grid is ruled.  The *)
(* two sliders change nothing else and are inputs of the properties.            *)

Distance(i, j) == IF i < j THEN j - i ELSE i - j

\* cellRect: the nearest size whose margin is the same on both sides.
CellSize(scale, p) ==
  LET size == Min({scale, Max({1, (scale * p + 10) \div 20})}) IN
  IF (scale - size) % 2 = 0 THEN size
  ELSE IF size = 1 \/ Distance(scale * p, 20 * (size - 1)) > Distance(scale * p, 20 * (size + 1))
  THEN size + 1 ELSE size - 1

\* backingScale: room in a cell only when there are gaps to draw.
BackingScale(side, p) == IF p = 20 THEN 1 ELSE Max({3, Min({16, 1200 \div side})})

\* Mutant of GridOffset: an odd shape is treated like an even one.
GridOffsetOfEven(size, step) == (size \div 2) % step

\* gridOffset: where the first line falls, in cells from the edge.
GridOffset(size, step) ==
  (IF size % 2 = 0 THEN size \div 2 ELSE (size - step + 1) \div 2) % step

GridStep(m, step) == Min({step, Max({m.w, m.h})})

(* The page. *)

\* draw: one frame is asked for, and what is drawn stays until then.  Bound:
\* the next change comes after the frame.
Redraw == ~frame /\ frame' = TRUE /\ UNCHANGED current

\* The shape's select.
ChooseShape(s) ==
  /\ s # shape /\ shape' = s /\ values' = DefaultsFor(s, values)
  /\ Redraw /\ UNCHANGED <<mode, thickness, bias>>

SettingsOf(k) == CASE k = "circle" -> BOOLEAN [] k = "facing" -> Facings
              [] k = "corner" -> Corners [] OTHER -> Sides

\* One of the shape's own controls.
SetInput(k) ==
  /\ k \in Visible(shape, values)
  /\ \E x \in SettingsOf(k) : x # values[k] /\ values' = [values EXCEPT ![k] = x]
  /\ Redraw /\ UNCHANGED <<shape, mode, thickness, bias>>

ChooseMode(m) ==
  m # mode /\ mode' = m /\ Redraw /\ UNCHANGED <<shape, values, thickness, bias>>

\* The slider of the depth shows in its mode only, and stops at the cap that
\* the last frame has set.
Cap == Max({2, MaxThicknessFor(shape, values, bias)})
SlideDepth(t) ==
  /\ mode = "thick" /\ t <= Cap /\ t # thickness /\ thickness' = t
  /\ Redraw /\ UNCHANGED <<shape, values, mode, bias>>

SlideBias(b) ==
  /\ shape # "square" /\ b # bias /\ bias' = b
  /\ Redraw /\ UNCHANGED <<shape, values, mode, thickness>>

\* The frame: the depth is brought within its limits, the shape generated.
Frame2D ==
  /\ frame /\ frame' = FALSE
  /\ thickness' = Min({thickness, Cap})
  /\ current' = Generate(shape, values, mode, thickness',
                         IF shape = "square" THEN 0 ELSE bias)
  /\ UNCHANGED <<shape, values, mode, bias>>

PixelInit ==
  /\ shape = "ellipse" /\ values = DefaultsFor("ellipse", Default)
  /\ mode = "outline" /\ thickness = 2 /\ bias = 0
  /\ frame = TRUE
  /\ current = Generate("ellipse", values, "outline", 2, 0)

PixelNext ==
  \/ \E s \in Shapes : ChooseShape(s)
  \/ \E k \in DOMAIN values : SetInput(k)
  \/ \E m \in Modes : ChooseMode(m)
  \/ \E t \in Depths : SlideDepth(t)
  \/ \E b \in Biases : SlideBias(b)
  \/ Frame2D

(* What should hold of it. *)

Near(c, diagonal) ==
  {<<c[1] + i, c[2] + j>> : i \in -1..1, j \in -1..1}
    \ (IF diagonal THEN {} ELSE {<<c[1] + i, c[2] + j>> : i \in {-1, 1}, j \in {-1, 1}})

\* The cells outside the shape, and those one comes to from there without
\* crossing a drawn cell.
Reached(from, free, diagonal) ==
  LET walk[seen \in SUBSET (from \cup free)] ==
        LET next == seen \cup {c \in free : Near(c, diagonal) \cap seen # {}} IN
        IF next = seen THEN seen ELSE walk[next]
  IN walk[from]

\* An outline is closed: from outside one does not get in without crossing a
\* drawn cell, and with the diagonals closed not even between two cells that
\* meet at a corner (secret_pixels.ts: "No diagonal gaps to see through").
OutlineIsClosed ==
  ~frame /\ mode # "filled" /\ (shape = "square" \/ values.circle) =>
    LET all == {<<c[1] + i, c[2] + j>> : c \in current.solid, i \in -1..1, j \in -1..1}
        outside == all \ current.solid
        free == all \ current.drawn IN
    Reached(outside \cap free, free, mode = "diagonal") \cap current.solid
      \subseteq current.drawn

\* The deepest wall is solid, whatever the bias (ellipse.ts: "a maxed wall can
\* leave a single cell sitting in the centre"; square.ts: "the maximum would
\* not be solid").
DeepestWallIsSolid ==
  ~frame /\ mode = "thick" /\ thickness = Cap => current.drawn = current.solid

\* The whole ellipse and the square are their own mirror images, with walls and
\* closed diagonals (mask.ts: "either answer is symmetric").
ShapesAreSymmetric ==
  ~frame /\ shape \in {"ellipse", "square"} =>
    LET m == current.mask IN
    /\ {<<m.w - 1 - c[1], c[2]>> : c \in m.cells} = m.cells
    /\ {<<c[1], m.h - 1 - c[2]>> : c \in m.cells} = m.cells

\* What the table of rows, the copied text and the files are made from is the
\* mask: each cell in one run of its row (mask.ts: rows; export.ts).
RowsAreTheMask ==
  ~frame => LET m == current.mask IN
    \A c \in Grid(m.w, m.h) :
      Cardinality({r \in Runs(m, c[2]) : c[1] \in r[1]..r[2]})
        = (IF c \in m.cells THEN 1 ELSE 0)

\* A pixel with a gap around it stands in the middle of its cell and is as near
\* to the size asked for as that allows, on the canvas and in a file
\* (render.ts: "the nearest size with the right parity wins").
PixelsAreCentred ==
  ~frame => \A p \in Pixels, cell \in 1..8 :
    \A scale \in {BackingScale(Max({current.mask.w, current.mask.h}), p), cell} :
      LET size == CellSize(scale, p) IN
      /\ size \in 1..scale /\ (scale - size) % 2 = 0
      /\ \A s \in {t \in 1..scale : (scale - t) % 2 = 0} :
           Distance(20 * size, scale * p) <= Distance(20 * s, scale * p)

\* The grid is ruled from the middle of the shape: a line through it, or a square
\* about it, to within half a cell (grid.ts: "it has to line up with the shape").
GridIsCentred ==
  ~frame => \A n \in {current.mask.w, current.mask.h}, st \in Steps :
    LET step == GridStep(current.mask, st)
        lines == {x \in -step..n : x % step = GridOffset(n, step)} IN
    IF n % 2 = 0 THEN n \div 2 \in lines
    ELSE \E x \in lines : Distance(2 * x + step, n) <= 1

\* What is painted, listed and saved is the shape, in the middle of its picture.
PictureIsTheShape == ShapesAreSymmetric /\ RowsAreTheMask /\ PixelsAreCentred /\ GridIsCentred
=============================================================================
