------------------------------- MODULE Display -------------------------------
(***************************************************************************)
(* The double-buffered surface of kernel/display_surface.c, the calls of   *)
(* kernel/runtime_display_demo.c on it and the transfer of a rectangle to  *)
(* the panel by targets/esp32c3/src/panel_gc9a01.c.                        *)
(*                                                                         *)
(* Drawing goes to the back buffer and grows one dirty rectangle.          *)
(* Publishing swaps the buffers, copies nothing, and hands the rectangle   *)
(* of the new front buffer to the panel.  A buffer is an array of colours  *)
(* with the rows `stride' = Width apart.  Drawing a text is a sequence of  *)
(* blits, drawing a scaled glyph one of fills.                             *)
(***************************************************************************)
EXTENDS Integers, FiniteSets

CONSTANTS
  Width, Height,      (* DISPLAY_DEMO_WIDTH and DISPLAY_DEMO_HEIGHT        *)
  Colors, Background, (* DISPLAY_DEMO_BACKGROUND                           *)
  Xs, Ys, Extents,    (* bound: the arguments of the drawing calls         *)
  SourceStride,       (* of the pixels that are blitted                    *)
  Fills,              (* bound: the colours of fills                       *)
  Sources, Logos      (* bound: the pixels that are blitted or drawn first *)

ASSUME DisplayAssumption ==
  /\ Width \in Nat \ {0} /\ Height \in Nat \ {0} /\ SourceStride \in Nat \ {0}
  /\ Background \in Colors /\ Fills \subseteq Colors
  /\ Xs \subseteq Int /\ Ys \subseteq Int /\ Extents \subseteq 0 .. SourceStride
  /\ Sources \subseteq [0 .. (SourceStride * SourceStride - 1) -> Colors]
  /\ Logos \subseteq [0 .. (Width * Height - 1) -> Colors]

Memory == 0 .. (Width * Height - 1)
Nothing == [x |-> 0, y |-> 0, width |-> 0, height |-> 0]

\* The memory of a rectangle
Area(r) ==
  {(r.y + row) * Width + r.x + col : row \in 0 .. (r.height - 1), col \in 0 .. (r.width - 1)}

VARIABLES
  initialized,  \* g_display_initialized
  front, back,  \* what the two buffers hold
  dirty,        \* surface->dirty_rect, Nothing when surface->dirty is 0
  panel,        \* what the panel shows
  drawn,        \* history: the pixels drawn to since the last publish
  picture       \* history: the colour last drawn to each pixel

displayVars == <<initialized, front, back, dirty, panel, drawn, picture>>

-----------------------------------------------------------------------------
(* The surface.                                                            *)

\* display_surface_clip_rect, in one dimension: where the rectangle starts
\* and how long it is, at most 0 if nothing is left
Clip(at, length, limit) ==
  LET start == IF at < 0 THEN 0 ELSE at
      left  == IF at < 0 THEN length + at ELSE length
  IN  [at |-> start, length |-> IF start + left > limit THEN limit - start ELSE left]

\* display_surface_clip_rect, or Nothing if it returns 0
Clipped(x, y, w, h) ==
  LET cx == Clip(x, w, Width)
      cy == Clip(y, h, Height)
  IN  IF w <= 0 \/ h <= 0 \/ cx.length <= 0 \/ cy.length <= 0 THEN Nothing
      ELSE [x |-> cx.at, y |-> cy.at, width |-> cx.length, height |-> cy.length]

Lower(a, b) == IF a < b THEN a ELSE b
Upper(a, b) == IF a > b THEN a ELSE b

\* display_surface_mark_dirty: the least rectangle around the two (mutated
\* forms: it keeps the larger width; it marks the whole surface)
WithAll(r) == [x |-> 0, y |-> 0, width |-> Width, height |-> Height]
WithWider(r) ==
  IF dirty = Nothing THEN r
  ELSE [x |-> Lower(dirty.x, r.x), y |-> Lower(dirty.y, r.y),
        width |-> Upper(dirty.width, r.width), height |-> Upper(dirty.height, r.height)]
With(r) ==
  IF dirty = Nothing THEN r
  ELSE LET x0 == Lower(dirty.x, r.x)
           y0 == Lower(dirty.y, r.y)
       IN  [x |-> x0, y |-> y0,
            width |-> Upper(dirty.x + dirty.width, r.x + r.width) - x0,
            height |-> Upper(dirty.y + dirty.height, r.y + r.height) - y0]

\* What a caller means by the rectangle
Meant(x, y, w, h) ==
  {m \in Memory : m % Width \in x .. (x + w - 1) /\ m \div Width \in y .. (y + h - 1)}

\* The loops of display_surface_fill_rect and display_surface_blit_rgb565,
\* and display_surface_mark_dirty: the pixel at this column and row of the
\* source goes to the back buffer.
Draw(x, y, w, h, pixel(_, _)) ==
  LET r     == Clipped(x, y, w, h)
      area  == Area(r)
      meant == Meant(x, y, w, h)
  IN  /\ r # Nothing
      /\ back' = [m \in Memory |->
           IF m \in area
           THEN pixel((r.x - x) + ((m % Width) - r.x), (r.y - y) + ((m \div Width) - r.y))
           ELSE back[m]]
      /\ dirty' = With(r)
      /\ drawn' = drawn \cup meant
      /\ picture' = [m \in Memory |->
           IF m \in meant THEN pixel((m % Width) - x, (m \div Width) - y)
           ELSE picture[m]]
      /\ UNCHANGED <<initialized, front, panel>>

-----------------------------------------------------------------------------
(* The calls of runtime_display_demo.c.                                    *)

\* runtime_display_demo_fill_rect, with display_surface_fill_rect;
\* runtime_display_demo_clear is one that fills the screen
FillRect(x, y, w, h, c) ==
  /\ initialized
  /\ Draw(x, y, w, h, LAMBDA col, row : c)

\* runtime_display_demo_blit_rgb565, with display_surface_blit_rgb565;
\* runtime_display_demo_draw_char blits a glyph
BlitRgb565(x, y, w, h, pixels) ==
  /\ initialized
  /\ Draw(x, y, w, h, LAMBDA col, row : pixels[row * SourceStride + col])

\* esp32c3_panel_gc9a01_flush_rect_pixels: the panel fills its address
\* window, row by row, with the pixels it is sent, from the given address of
\* the buffer on, rows Width apart
Flushed(r, buffer, from) ==
  LET window == Area(r)
      pixel(k) == buffer[from + (k \div r.width) * Width + (k % r.width)]
  IN  [m \in Memory |->
         IF m \in window THEN pixel(((m \div Width) - r.y) * r.width + ((m % Width) - r.x))
         ELSE panel[m]]

\* runtime_display_demo_present and runtime_display_demo_flush:
\* display_surface_publish, then runtime_display_demo_flush_to_panel
Present ==
  /\ initialized
  /\ dirty # Nothing
  /\ front' = back
  /\ back' = front
  /\ dirty' = Nothing
  /\ panel' = Flushed(dirty, back, dirty.y * Width + dirty.x)
  /\ drawn' = {}
  /\ UNCHANGED <<initialized, picture>>

\* runtime_display_demo_init: both buffers are cleared, a logo is drawn over
\* a cleared back buffer and presented
DemoInit(logo) ==
  /\ ~initialized
  /\ initialized' = TRUE
  /\ front' = logo
  /\ back' = [m \in Memory |-> Background]
  /\ panel' = logo
  /\ picture' = logo
  /\ UNCHANGED <<dirty, drawn>>

-----------------------------------------------------------------------------
DisplayInit ==
  /\ initialized = FALSE
  /\ front = [m \in Memory |-> Background]
  /\ back = front /\ panel = front /\ picture = front
  /\ dirty = Nothing
  /\ drawn = {}

DisplayNext ==
  \/ \E logo \in Logos : DemoInit(logo)
  \/ \E x \in Xs, y \in Ys, w, h \in Extents :
       \/ \E c \in Fills : FillRect(x, y, w, h, c)
       \/ \E pixels \in Sources : BlitRgb565(x, y, w, h, pixels)
  \/ Present

DisplaySpec == DisplayInit /\ [][DisplayNext]_displayVars

-----------------------------------------------------------------------------
(* Properties.                                                             *)

(* What was drawn since the last publish, however many rectangles, clipped *)
(* at whatever edge, is on the panel when runtime_display_demo_present     *)
(* returns, in the colours drawn last.                                     *)
PresentShowsDrawn ==
  [][drawn # {} /\ drawn' = {} => \A m \in drawn : panel'[m] = picture[m]]_displayVars

(* The dirty rectangle is the least one around what was drawn since the    *)
(* last publish, in however many rectangles, clipped at whatever edge: its *)
(* first and last column and its first and last row were drawn to, so that *)
(* no smaller rectangle could be sent to the panel                         *)
(* (display_surface_mark_dirty).                                           *)
DamageTight ==
  dirty # Nothing =>
    /\ \A col \in {dirty.x, dirty.x + dirty.width - 1} : \E m \in drawn : m % Width = col
    /\ \A row \in {dirty.y, dirty.y + dirty.height - 1} : \E m \in drawn : m \div Width = row
=============================================================================
