------------------------ MODULE RuntimeScreenProofs ------------------------
(***************************************************************************)
(* Proofs about what a program sees of its screen: Display, for every      *)
(* screen and every drawing call on it, and RuntimeUi, for queues and      *)
(* timer tables of every size, which implement UiEvents and keep their     *)
(* timers on time.                                                         *)
(*                                                                         *)
(* Three parts of the second need no state: ranks of table entries (what   *)
(* collecting takes, and in which order), the ring as a sequence, the      *)
(* table as a set.                                                         *)
(***************************************************************************)
EXTENDS Display, RuntimeUi, NatLemmas, SequenceTheorems

-----------------------------------------------------------------------------
(* The display surface.                                                    *)

(* What the proofs need to know of the screen.                             *)
LEMMA ScreenFacts ==
  /\ Width \in Nat \ {0} /\ Height \in Nat \ {0}
  /\ Xs \subseteq Int /\ Ys \subseteq Int /\ Extents \subseteq Nat
BY DisplayAssumption

USE ScreenFacts

-----------------------------------------------------------------------------
(* Addresses and pixels.                                                   *)

(* The column and the row of an address.                                   *)
LEMMA PixelOf ==
  ASSUME NEW m \in Memory
  PROVE  /\ m \in Nat /\ m % Width \in 0 .. (Width - 1) /\ m \div Width \in 0 .. (Height - 1)
         /\ m = (m \div Width) * Width + (m % Width)
<1>1. m \in Nat /\ m < Height * Width
  BY DEF Memory
<1>2. /\ m \div Width \in Nat /\ m % Width \in 0 .. (Width - 1)
      /\ m = (m \div Width) * Width + (m % Width)
  BY <1>1, DivMod
<1>3. m \div Width < Height
  <2>1. PICK p \in Nat : p = m \div Width
    BY <1>2
  <2>2. PICK c \in Nat : c = m % Width
    BY <1>2
  <2>3. m = p * Width + c
    BY <1>2, <2>1, <2>2
  <2>4. ASSUME ~(p < Height) PROVE FALSE
    <3>1. CASE p = Height
      <4>1. Height * Width \in Nat
        OBVIOUS
      <4> QED
        BY <1>1, <2>3, <3>1, <4>1
    <3>2. CASE Height < p
      <4>1. Height * Width + Width <= p * Width
        BY <3>2, MultiplesApart
      <4>2. Height * Width \in Nat /\ p * Width \in Nat
        OBVIOUS
      <4> QED
        BY <1>1, <2>3, <4>1, <4>2
    <3> QED
      BY <2>4, <3>1, <3>2
  <2> QED
    BY <2>1, <2>4
<1> QED
  BY <1>1, <1>2, <1>3

(* The address of a column and a row.                                      *)
LEMMA AddressOf ==
  ASSUME NEW x \in 0 .. (Width - 1), NEW y \in 0 .. (Height - 1)
  PROVE  LET m == y * Width + x
         IN  m \in Memory /\ m % Width = x /\ m \div Width = y
<1>1. PICK m : m = y * Width + x
  OBVIOUS
<1>2. m % Width = x /\ m \div Width = y
  BY <1>1, DivModUnique
<1>3. m \in Memory
  <2>1. y * Width + Width <= Height * Width
    BY MultiplesApart
  <2>2. PICK a \in Nat : a = y * Width
    <3>1. y * Width \in Nat
      OBVIOUS
    <3> QED
      BY <3>1
  <2>3. PICK b \in Nat : b = Width * Height
    <3>1. Width * Height \in Nat
      OBVIOUS
    <3> QED
      BY <3>1
  <2>4. a + Width <= b
    <3>1. Height * Width = Width * Height
      OBVIOUS
    <3> QED
      BY <2>1, <2>2, <2>3, <3>1
  <2>5. m = a + x
    BY <1>1, <2>2
  <2>6. m \in 0 .. (b - 1)
    BY <2>4, <2>5
  <2> QED
    BY <2>3, <2>6 DEF Memory
<1> QED
  BY <1>1, <1>2, <1>3

-----------------------------------------------------------------------------
(* Rectangles.                                                             *)

(* A rectangle that is not empty and lies on the screen.                   *)
Inside(r) ==
  /\ r.x \in Nat /\ r.y \in Nat /\ r.width \in Nat \ {0} /\ r.height \in Nat \ {0}
  /\ r.x + r.width <= Width /\ r.y + r.height <= Height

(* The pixels of a rectangle.                                              *)
Covers(r, m) ==
  /\ m % Width \in r.x .. (r.x + r.width - 1)
  /\ m \div Width \in r.y .. (r.y + r.height - 1)

(* The memory of a rectangle on the screen is that of its pixels.          *)
LEMMA AreaIs ==
  ASSUME NEW r, Inside(r)
  PROVE  Area(r) = {m \in Memory : Covers(r, m)}
<1>1. /\ r.x \in Nat /\ r.y \in Nat /\ r.width \in Nat \ {0} /\ r.height \in Nat \ {0}
      /\ r.x + r.width <= Width /\ r.y + r.height <= Height
  BY DEF Inside
<1>2. ASSUME NEW row \in 0 .. (r.height - 1), NEW col \in 0 .. (r.width - 1)
      PROVE  LET m == (r.y + row) * Width + r.x + col
             IN  m \in Memory /\ Covers(r, m)
  <2>1. PICK a \in 0 .. (Width - 1) : a = r.x + col
    BY <1>1
  <2>2. PICK b \in 0 .. (Height - 1) : b = r.y + row
    BY <1>1
  <2>3. PICK m : m = b * Width + a
    OBVIOUS
  <2>4. (r.y + row) * Width + r.x + col = m
    <3>1. PICK k \in Nat : k = b * Width
      <4>1. b * Width \in Nat
        OBVIOUS
      <4> QED
        BY <4>1
    <3>2. k + r.x + col = k + a
      BY <1>1, <2>1, <3>1
    <3> QED
      BY <2>2, <2>3, <3>1, <3>2
  <2>5. m \in Memory /\ m % Width = a /\ m \div Width = b
    BY <2>3, AddressOf
  <2>6. a \in r.x .. (r.x + r.width - 1) /\ b \in r.y .. (r.y + r.height - 1)
    BY <1>1, <2>1, <2>2
  <2>7. Covers(r, m)
    BY <2>5, <2>6 DEF Covers
  <2> QED
    BY <2>4, <2>5, <2>7
<1>3. ASSUME NEW m \in Memory, Covers(r, m)
      PROVE  m \in Area(r)
  <2>1. PICK a \in Nat, b \in Nat : a = m % Width /\ b = m \div Width
    BY PixelOf
  <2>2. m = b * Width + a
    BY <2>1, PixelOf
  <2>3. a \in r.x .. (r.x + r.width - 1) /\ b \in r.y .. (r.y + r.height - 1)
    BY <1>3, <2>1 DEF Covers
  <2>4. PICK col \in 0 .. (r.width - 1) : a = r.x + col
    <3>1. a - r.x \in 0 .. (r.width - 1) /\ a = r.x + (a - r.x)
      BY <1>1, <2>3
    <3> QED
      BY <3>1
  <2>5. PICK row \in 0 .. (r.height - 1) : b = r.y + row
    <3>1. b - r.y \in 0 .. (r.height - 1) /\ b = r.y + (b - r.y)
      BY <1>1, <2>3
    <3> QED
      BY <3>1
  <2>6. m = (r.y + row) * Width + r.x + col
    <3>1. PICK k \in Nat : k = b * Width
      <4>1. b * Width \in Nat
        OBVIOUS
      <4> QED
        BY <4>1
    <3>2. m = k + r.x + col
      BY <1>1, <2>2, <2>4, <3>1
    <3> QED
      BY <2>5, <3>1, <3>2
  <2> QED
    BY <2>4, <2>5, <2>6 DEF Area
<1>4. \A m \in Area(r) : m \in Memory /\ Covers(r, m)
  BY <1>2 DEF Area
<1> QED
  BY <1>3, <1>4

(* Clipping keeps what lies on the screen, in one dimension.               *)
LEMMA ClipFacts ==
  ASSUME NEW at \in Int, NEW length \in Int, NEW limit \in Nat, NEW c,
         c = Clip(at, length, limit), c.length > 0
  PROVE  /\ c.at \in Nat /\ c.length \in Nat \ {0} /\ c.at + c.length <= limit
         /\ \A k \in 0 .. (limit - 1) :
              k \in at .. (at + length - 1) <=> k \in c.at .. (c.at + c.length - 1)
<1>1. PICK start \in Nat : start = IF at < 0 THEN 0 ELSE at
  OBVIOUS
<1>2. PICK left \in Int : left = IF at < 0 THEN length + at ELSE length
  OBVIOUS
<1>3. c = [at |-> start, length |-> IF start + left > limit THEN limit - start ELSE left]
  BY <1>1, <1>2 DEF Clip
<1>4. c.at = start /\ c.length = IF start + left > limit THEN limit - start ELSE left
  BY <1>3
<1>5. PICK len \in Int : len = IF start + left > limit THEN limit - start ELSE left
  <2>1. limit - start \in Int /\ left \in Int
    OBVIOUS
  <2> QED
    BY <2>1, Zenon
<1>6. len > 0
  BY <1>4, <1>5
<1>7. len \in Nat \ {0} /\ start + len <= limit
  BY <1>5, <1>6
<1>8. ASSUME NEW k \in 0 .. (limit - 1)
      PROVE  k \in at .. (at + length - 1) <=> k \in start .. (start + len - 1)
  BY <1>1, <1>2, <1>5
<1> QED
  BY <1>4, <1>5, <1>7, <1>8

(* A clipped rectangle lies on the screen, and is what its caller meant of *)
(* it.                                                                     *)
LEMMA ClippedFacts ==
  ASSUME NEW x \in Int, NEW y \in Int, NEW w \in Int, NEW h \in Int,
         NEW r, r = Clipped(x, y, w, h), r # Nothing
  PROVE  Inside(r) /\ Area(r) = Meant(x, y, w, h)
<1>1. PICK cx : cx = Clip(x, w, Width)
  OBVIOUS
<1>2. PICK cy : cy = Clip(y, h, Height)
  OBVIOUS
<1>3. /\ ~(cx.length <= 0) /\ ~(cy.length <= 0)
      /\ r = [x |-> cx.at, y |-> cy.at, width |-> cx.length, height |-> cy.length]
  BY <1>1, <1>2 DEF Clipped
<1>4. cx.length \in Int /\ cy.length \in Int
  BY <1>1, <1>2 DEF Clip
<1>5. cx.length > 0 /\ cy.length > 0
  BY <1>3, <1>4
<1>6. /\ cx.at \in Nat /\ cx.length \in Nat \ {0} /\ cx.at + cx.length <= Width
      /\ \A k \in 0 .. (Width - 1) : k \in x .. (x + w - 1) <=> k \in cx.at .. (cx.at + cx.length - 1)
  BY <1>1, <1>5, ClipFacts
<1>7. /\ cy.at \in Nat /\ cy.length \in Nat \ {0} /\ cy.at + cy.length <= Height
      /\ \A k \in 0 .. (Height - 1) : k \in y .. (y + h - 1) <=> k \in cy.at .. (cy.at + cy.length - 1)
  BY <1>2, <1>5, ClipFacts
<1>8. r.x = cx.at /\ r.y = cy.at /\ r.width = cx.length /\ r.height = cy.length
  BY <1>3
<1>9. Inside(r)
  BY <1>6, <1>7, <1>8 DEF Inside
<1>10. \A m \in Memory : Covers(r, m) <=> m % Width \in x .. (x + w - 1) /\ m \div Width \in y .. (y + h - 1)
  <2> TAKE m \in Memory
  <2>1. m % Width \in 0 .. (Width - 1) /\ m \div Width \in 0 .. (Height - 1)
    BY PixelOf
  <2> QED
    BY <1>6, <1>7, <1>8, <2>1 DEF Covers
<1>11. Area(r) = {m \in Memory : Covers(r, m)}
  BY <1>9, AreaIs
<1> QED
  BY <1>9, <1>10, <1>11 DEF Meant

-----------------------------------------------------------------------------
(* The damage.                                                             *)

(* What display_surface_mark_dirty makes of the damage d and r.            *)
Joined(d, r) ==
  LET x0 == Lower(d.x, r.x)
      y0 == Lower(d.y, r.y)
  IN  [x |-> x0, y |-> y0,
       width |-> Upper(d.x + d.width, r.x + r.width) - x0,
       height |-> Upper(d.y + d.height, r.y + r.height) - y0]

(* Adding a rectangle to the damage: each edge of the result is an edge of *)
(* one of the two, and it covers both.                                     *)
LEMMA JoinFacts ==
  ASSUME NEW d, Inside(d), NEW r, Inside(r), NEW j, j = Joined(d, r)
  PROVE  /\ Inside(j)
         /\ j.x \in {d.x, r.x} /\ j.y \in {d.y, r.y}
         /\ j.x + j.width - 1 \in {d.x + d.width - 1, r.x + r.width - 1}
         /\ j.y + j.height - 1 \in {d.y + d.height - 1, r.y + r.height - 1}
         /\ \A m \in Memory : Covers(d, m) \/ Covers(r, m) => Covers(j, m)
<1>1. /\ d.x \in Nat /\ d.y \in Nat /\ d.width \in Nat \ {0} /\ d.height \in Nat \ {0}
      /\ d.x + d.width <= Width /\ d.y + d.height <= Height
  BY DEF Inside
<1>2. /\ r.x \in Nat /\ r.y \in Nat /\ r.width \in Nat \ {0} /\ r.height \in Nat \ {0}
      /\ r.x + r.width <= Width /\ r.y + r.height <= Height
  BY DEF Inside
<1>3. /\ j.x = Lower(d.x, r.x) /\ j.y = Lower(d.y, r.y)
      /\ j.width = Upper(d.x + d.width, r.x + r.width) - Lower(d.x, r.x)
      /\ j.height = Upper(d.y + d.height, r.y + r.height) - Lower(d.y, r.y)
  BY DEF Joined
<1>4. PICK x0 \in Nat, y0 \in Nat, x1 \in Nat, y1 \in Nat :
        /\ x0 = Lower(d.x, r.x) /\ y0 = Lower(d.y, r.y)
        /\ x1 = Upper(d.x + d.width, r.x + r.width) /\ y1 = Upper(d.y + d.height, r.y + r.height)
  BY <1>1, <1>2 DEF Lower, Upper
<1>5. j.x = x0 /\ j.y = y0 /\ j.width = x1 - x0 /\ j.height = y1 - y0
  BY <1>3, <1>4
<1>6. /\ x0 \in {d.x, r.x} /\ x0 <= d.x /\ x0 <= r.x
      /\ x1 \in {d.x + d.width, r.x + r.width} /\ d.x + d.width <= x1 /\ r.x + r.width <= x1
  BY <1>1, <1>2, <1>4 DEF Lower, Upper
<1>7. /\ y0 \in {d.y, r.y} /\ y0 <= d.y /\ y0 <= r.y
      /\ y1 \in {d.y + d.height, r.y + r.height} /\ d.y + d.height <= y1 /\ r.y + r.height <= y1
  BY <1>1, <1>2, <1>4 DEF Lower, Upper
<1>8. x1 - x0 \in Nat \ {0} /\ x1 <= Width
  BY <1>1, <1>2, <1>6
<1>9. y1 - y0 \in Nat \ {0} /\ y1 <= Height
  BY <1>1, <1>2, <1>7
<1>10. x0 + (x1 - x0) = x1 /\ y0 + (y1 - y0) = y1
  OBVIOUS
<1>11. Inside(j)
  BY <1>5, <1>8, <1>9, <1>10 DEF Inside
<1>12. /\ j.x \in {d.x, r.x} /\ j.y \in {d.y, r.y}
       /\ j.x + j.width - 1 \in {d.x + d.width - 1, r.x + r.width - 1}
       /\ j.y + j.height - 1 \in {d.y + d.height - 1, r.y + r.height - 1}
  <2>1. j.x + j.width - 1 = x1 - 1 /\ j.y + j.height - 1 = y1 - 1
    BY <1>5, <1>10
  <2>2. j.x \in {d.x, r.x} /\ j.y \in {d.y, r.y}
    BY <1>5, <1>6, <1>7, Zenon
  <2>3. x1 - 1 \in {d.x + d.width - 1, r.x + r.width - 1}
    BY <1>1, <1>2, <1>6
  <2>4. y1 - 1 \in {d.y + d.height - 1, r.y + r.height - 1}
    BY <1>1, <1>2, <1>7
  <2> QED
    BY <2>1, <2>2, <2>3, <2>4, Zenon
<1>13. ASSUME NEW m \in Memory, Covers(d, m) \/ Covers(r, m)
       PROVE  Covers(j, m)
  <2>1. PICK a \in Nat, b \in Nat : a = m % Width /\ b = m \div Width
    BY PixelOf
  <2>2. \/ a \in d.x .. (d.x + d.width - 1) /\ b \in d.y .. (d.y + d.height - 1)
        \/ a \in r.x .. (r.x + r.width - 1) /\ b \in r.y .. (r.y + r.height - 1)
    BY <1>13, <2>1 DEF Covers
  <2>3. a \in x0 .. (x1 - 1)
    BY <1>1, <1>2, <1>6, <2>2
  <2>4. b \in y0 .. (y1 - 1)
    BY <1>1, <1>2, <1>7, <2>2
  <2> QED
    BY <1>5, <1>10, <2>1, <2>3, <2>4 DEF Covers
<1> QED
  BY <1>11, <1>12, <1>13

(* Each edge of a rectangle on the screen has a pixel of it.               *)
LEMMA EdgesDrawn ==
  ASSUME NEW r, Inside(r)
  PROVE  /\ \A col \in {r.x, r.x + r.width - 1} : \E m \in Area(r) : m % Width = col
         /\ \A row \in {r.y, r.y + r.height - 1} : \E m \in Area(r) : m \div Width = row
<1>1. /\ r.x \in Nat /\ r.y \in Nat /\ r.width \in Nat \ {0} /\ r.height \in Nat \ {0}
      /\ r.x + r.width <= Width /\ r.y + r.height <= Height
  BY DEF Inside
<1>2. ASSUME NEW col \in r.x .. (r.x + r.width - 1), NEW row \in r.y .. (r.y + r.height - 1)
      PROVE  \E m \in Area(r) : m % Width = col /\ m \div Width = row
  <2>1. col \in 0 .. (Width - 1) /\ row \in 0 .. (Height - 1)
    BY <1>1
  <2>2. PICK m \in Memory : m % Width = col /\ m \div Width = row
    BY <2>1, AddressOf
  <2>3. Covers(r, m)
    BY <2>2 DEF Covers
  <2> QED
    BY <2>2, <2>3, AreaIs
<1>3. /\ {r.x, r.x + r.width - 1} \subseteq r.x .. (r.x + r.width - 1)
      /\ {r.y, r.y + r.height - 1} \subseteq r.y .. (r.y + r.height - 1)
      /\ r.x \in r.x .. (r.x + r.width - 1) /\ r.y \in r.y .. (r.y + r.height - 1)
  BY <1>1
<1> QED
  BY <1>2, <1>3

(* What holds of the damage: it covers what was drawn, it is the least     *)
(* rectangle that does, and the back buffer has what was drawn.            *)
DisplayInv ==
  /\ drawn \subseteq Memory
  /\ ~initialized => drawn = {}
  /\ dirty = Nothing => drawn = {}
  /\ dirty # Nothing => Inside(dirty) /\ drawn \subseteq Area(dirty)
  /\ DamageTight
  /\ \A m \in drawn : back[m] = picture[m]

(* No rectangle on the screen is Nothing.                                  *)
LEMMA InsideIsSome == ASSUME NEW r, Inside(r) PROVE r # Nothing
<1>1. Nothing.width = 0
  BY DEF Nothing
<1>2. r.width # 0
  BY DEF Inside
<1> QED
  BY <1>1, <1>2

(* Drawing keeps the invariant, whatever the pixels are that the buffer    *)
(* gets.                                                                   *)
LEMMA DrawInv ==
  ASSUME DisplayInv,
         NEW x \in Int, NEW y \in Int, NEW w \in Int, NEW h \in Int,
         NEW r, r = Clipped(x, y, w, h), r # Nothing,
         initialized',
         dirty' = With(r),
         drawn' = drawn \cup Meant(x, y, w, h),
         \A m \in Meant(x, y, w, h) : back'[m] = picture'[m],
         \A m \in Memory \ Meant(x, y, w, h) : back'[m] = back[m] /\ picture'[m] = picture[m]
  PROVE  DisplayInv'
<1>1. Inside(r) /\ Area(r) = Meant(x, y, w, h)
  BY ClippedFacts
<1>2. Area(r) = {m \in Memory : Covers(r, m)}
  BY <1>1, AreaIs
<1>3. drawn' \subseteq Memory
  BY <1>1, <1>2 DEF DisplayInv
<1>4. \A m \in drawn' : back'[m] = picture'[m]
  BY DEF DisplayInv
<1>5. /\ \A col \in {r.x, r.x + r.width - 1} : \E m \in Area(r) : m % Width = col
      /\ \A row \in {r.y, r.y + r.height - 1} : \E m \in Area(r) : m \div Width = row
  BY <1>1, EdgesDrawn
<1>6. CASE dirty = Nothing
  <2>1. dirty' = r /\ drawn' = Area(r)
    BY <1>1, <1>6 DEF With, DisplayInv
  <2>2. DamageTight'
    BY <1>5, <2>1 DEF DamageTight
  <2> QED
    BY <1>1, <1>3, <1>4, <2>1, <2>2 DEF DisplayInv
<1>7. CASE dirty # Nothing
  <2>1. PICK d : d = dirty
    OBVIOUS
  <2>2. PICK j : j = dirty'
    OBVIOUS
  <2>3. Inside(d) /\ drawn \subseteq Area(d)
    BY <1>7, <2>1 DEF DisplayInv
  <2>4. j = Joined(d, r)
    BY <1>7, <2>1, <2>2 DEF With, Joined
  <2>5. /\ Inside(j)
        /\ j.x \in {d.x, r.x} /\ j.y \in {d.y, r.y}
        /\ j.x + j.width - 1 \in {d.x + d.width - 1, r.x + r.width - 1}
        /\ j.y + j.height - 1 \in {d.y + d.height - 1, r.y + r.height - 1}
        /\ \A m \in Memory : Covers(d, m) \/ Covers(r, m) => Covers(j, m)
    BY <1>1, <2>3, <2>4, JoinFacts
  <2>6. drawn' \subseteq Area(j)
    <3>1. Area(d) = {m \in Memory : Covers(d, m)} /\ Area(j) = {m \in Memory : Covers(j, m)}
      BY <2>3, <2>5, AreaIs
    <3> QED
      BY <1>1, <1>2, <2>3, <2>5, <3>1
  <2>7. /\ \A col \in {d.x, d.x + d.width - 1} : \E m \in drawn : m % Width = col
        /\ \A row \in {d.y, d.y + d.height - 1} : \E m \in drawn : m \div Width = row
    BY <1>7, <2>1 DEF DisplayInv, DamageTight
  <2>8. /\ \A col \in {j.x, j.x + j.width - 1} : \E m \in drawn' : m % Width = col
        /\ \A row \in {j.y, j.y + j.height - 1} : \E m \in drawn' : m \div Width = row
    <3>1. drawn' = drawn \cup Area(r)
      BY <1>1
    <3>2. \A col \in {j.x, j.x + j.width - 1} :
            col \in {d.x, d.x + d.width - 1} \/ col \in {r.x, r.x + r.width - 1}
      BY <2>5
    <3>3. \A row \in {j.y, j.y + j.height - 1} :
            row \in {d.y, d.y + d.height - 1} \/ row \in {r.y, r.y + r.height - 1}
      BY <2>5
    <3>4. \A col \in {j.x, j.x + j.width - 1} : \E m \in drawn' : m % Width = col
      BY <1>5, <2>7, <3>1, <3>2, Zenon
    <3>5. \A row \in {j.y, j.y + j.height - 1} : \E m \in drawn' : m \div Width = row
      BY <1>5, <2>7, <3>1, <3>3, Zenon
    <3> QED
      BY <3>4, <3>5
  <2>9. DamageTight'
    BY <2>2, <2>8 DEF DamageTight
  <2>10. dirty' # Nothing
    BY <2>2, <2>5, InsideIsSome
  <2> QED
    BY <1>3, <1>4, <2>2, <2>5, <2>6, <2>9, <2>10 DEF DisplayInv
<1> QED
  BY <1>6, <1>7

-----------------------------------------------------------------------------
(* The theorems.                                                           *)

(* display_surface_fill_rect keeps the invariant.                          *)
LEMMA FillInv ==
  ASSUME DisplayInv, NEW x \in Xs, NEW y \in Ys, NEW w \in Extents, NEW h \in Extents, NEW c,
         FillRect(x, y, w, h, c)
  PROVE  DisplayInv' /\ drawn \subseteq drawn'
<1>1. x \in Int /\ y \in Int /\ w \in Int /\ h \in Int
  OBVIOUS
<1>2. PICK r : r = Clipped(x, y, w, h)
  OBVIOUS
<1>3. PICK meant : meant = Meant(x, y, w, h)
  OBVIOUS
<1>4. /\ r # Nothing /\ initialized'
      /\ back' = [m \in Memory |-> IF m \in Area(r) THEN c ELSE back[m]]
      /\ dirty' = With(r)
      /\ drawn' = drawn \cup meant
      /\ picture' = [m \in Memory |-> IF m \in meant THEN c ELSE picture[m]]
  BY <1>2, <1>3 DEF FillRect, Draw
<1>5. Area(r) = meant /\ meant \subseteq Memory
  BY <1>1, <1>2, <1>3, <1>4, ClippedFacts DEF Meant
<1>6. /\ \A m \in meant : back'[m] = picture'[m]
      /\ \A m \in Memory \ meant : back'[m] = back[m] /\ picture'[m] = picture[m]
  BY <1>4, <1>5
<1>7. DisplayInv'
  BY <1>1, <1>2, <1>3, <1>4, <1>6, DrawInv
<1> QED
  BY <1>4, <1>7

(* display_surface_blit_rgb565 keeps the invariant: a pixel that is not    *)
(* clipped off comes from its own place in the source.                     *)
LEMMA BlitInv ==
  ASSUME DisplayInv, NEW x \in Xs, NEW y \in Ys, NEW w \in Extents, NEW h \in Extents, NEW pixels,
         BlitRgb565(x, y, w, h, pixels)
  PROVE  DisplayInv' /\ drawn \subseteq drawn'
<1>1. x \in Int /\ y \in Int /\ w \in Int /\ h \in Int
  OBVIOUS
<1>2. PICK r : r = Clipped(x, y, w, h)
  OBVIOUS
<1>3. PICK meant : meant = Meant(x, y, w, h)
  OBVIOUS
<1>4. /\ r # Nothing /\ initialized'
      /\ back' = [m \in Memory |->
           IF m \in Area(r)
           THEN pixels[((r.y - y) + ((m \div Width) - r.y)) * SourceStride
                        + ((r.x - x) + ((m % Width) - r.x))]
           ELSE back[m]]
      /\ dirty' = With(r)
      /\ drawn' = drawn \cup meant
      /\ picture' = [m \in Memory |->
           IF m \in meant THEN pixels[((m \div Width) - y) * SourceStride + ((m % Width) - x)]
           ELSE picture[m]]
  BY <1>2, <1>3 DEF BlitRgb565, Draw
<1>5. Inside(r) /\ Area(r) = meant /\ meant \subseteq Memory
  BY <1>1, <1>2, <1>3, <1>4, ClippedFacts DEF Meant
<1>6. ASSUME NEW m \in meant PROVE back'[m] = picture'[m]
  <2>1. m \in Memory
    BY <1>5
  <2>2. PICK a \in Int, b \in Int : a = m % Width /\ b = m \div Width
    BY <2>1, PixelOf
  <2>3. PICK p \in Int, q \in Int : p = r.x /\ q = r.y
    BY <1>5 DEF Inside
  <2>4. (q - y) + (b - q) = b - y /\ (p - x) + (a - p) = a - x
    BY <1>1
  <2>5. back'[m] = pixels[((q - y) + (b - q)) * SourceStride + ((p - x) + (a - p))]
    BY <1>4, <1>5, <2>1, <2>2, <2>3
  <2>6. picture'[m] = pixels[(b - y) * SourceStride + (a - x)]
    BY <1>4, <2>1, <2>2
  <2> QED
    BY <2>4, <2>5, <2>6, Zenon
<1>7. \A m \in Memory \ meant : back'[m] = back[m] /\ picture'[m] = picture[m]
  BY <1>4, <1>5
<1>8. DisplayInv'
  BY <1>1, <1>2, <1>3, <1>4, <1>6, <1>7, DrawInv
<1> QED
  BY <1>4, <1>8

(* The panel shows the buffer where a rectangle of it was sent, although   *)
(* the rows of the one are Width apart and those of the other are not.     *)
LEMMA FlushedFacts ==
  ASSUME NEW r, Inside(r), NEW buffer, NEW m \in Area(r)
  PROVE  Flushed(r, buffer, r.y * Width + r.x)[m] = buffer[m]
<1>1. m \in Memory /\ Covers(r, m)
  BY AreaIs
<1>2. /\ r.x \in Nat /\ r.y \in Nat /\ r.width \in Nat \ {0} /\ r.height \in Nat \ {0}
      /\ r.x + r.width <= Width /\ r.y + r.height <= Height
  BY DEF Inside
<1>3. PICK a \in Nat, b \in Nat : a = m % Width /\ b = m \div Width
  BY <1>1, PixelOf
<1>4. m = b * Width + a
  BY <1>1, <1>3, PixelOf
<1>5. a \in r.x .. (r.x + r.width - 1) /\ b \in r.y .. (r.y + r.height - 1)
  BY <1>1, <1>3 DEF Covers
<1>6. PICK col \in 0 .. (r.width - 1) : col = a - r.x
  BY <1>2, <1>5
<1>7. PICK row \in Nat : row = b - r.y
  BY <1>2, <1>5
<1>8. PICK k : k = row * r.width + col
  OBVIOUS
<1>9. k \div r.width = row /\ k % r.width = col
  BY <1>2, <1>8, DivModUnique
<1>10. Flushed(r, buffer, r.y * Width + r.x)[m]
         = buffer[(r.y * Width + r.x) + row * Width + col]
  <2>1. Flushed(r, buffer, r.y * Width + r.x)[m]
          = buffer[(r.y * Width + r.x) + (k \div r.width) * Width + (k % r.width)]
    BY <1>1, <1>3, <1>6, <1>7, <1>8 DEF Flushed
  <2> QED
    BY <1>9, <2>1, Zenon
<1>11. (r.y * Width + r.x) + row * Width + col = m
  <2>1. PICK y \in Nat, x \in Nat : y = r.y /\ x = r.x
    BY <1>2
  <2>2. b = y + row /\ a = x + col
    BY <1>6, <1>7, <2>1
  <2>3. (y + row) * Width = y * Width + row * Width
    OBVIOUS
  <2>4. PICK u \in Nat, v \in Nat : u = y * Width /\ v = row * Width
    <3>1. y * Width \in Nat /\ row * Width \in Nat
      OBVIOUS
    <3> QED
      BY <3>1
  <2>5. m = u + v + (x + col)
    BY <1>4, <2>2, <2>3, <2>4
  <2>6. (u + x) + v + col = m
    BY <2>5
  <2> QED
    BY <2>1, <2>4, <2>6
<1> QED
  BY <1>10, <1>11

(* The surface starts clean.                                               *)
LEMMA DisplayInvInit == DisplayInit => DisplayInv
BY DEF DisplayInit, DisplayInv, DamageTight

(* What a step does: the invariant stays, and only a present that shows    *)
(* what was drawn forgets it.                                              *)
LEMMA DisplayStep ==
  ASSUME DisplayInv, [DisplayNext]_displayVars
  PROVE  /\ DisplayInv'
         /\ drawn # {} /\ drawn' = {} => \A m \in drawn : panel'[m] = picture[m]
<1>1. ASSUME NEW logo \in Logos, DemoInit(logo)
      PROVE  DisplayInv' /\ drawn' = drawn
  <2>1. dirty' = dirty /\ drawn' = drawn /\ initialized' /\ drawn = {}
    BY <1>1 DEF DemoInit, DisplayInv
  <2> QED
    BY <2>1 DEF DisplayInv, DamageTight
<1>2. ASSUME NEW x \in Xs, NEW y \in Ys, NEW w \in Extents, NEW h \in Extents, NEW c \in Fills,
             FillRect(x, y, w, h, c)
      PROVE  DisplayInv' /\ drawn \subseteq drawn'
  BY <1>2, FillInv
<1>3. ASSUME NEW x \in Xs, NEW y \in Ys, NEW w \in Extents, NEW h \in Extents, NEW pixels \in Sources,
             BlitRgb565(x, y, w, h, pixels)
      PROVE  DisplayInv' /\ drawn \subseteq drawn'
  BY <1>3, BlitInv
<1>4. CASE Present
  <2>1. dirty' = Nothing /\ drawn' = {} /\ dirty # Nothing
    BY <1>4 DEF Present
  <2>2. DisplayInv'
    BY <2>1 DEF DisplayInv, DamageTight
  <2>3. ASSUME NEW m \in drawn PROVE panel'[m] = picture[m]
    <3>1. Inside(dirty) /\ m \in Area(dirty) /\ back[m] = picture[m]
      BY <2>1 DEF DisplayInv
    <3>2. PICK d, buffer : d = dirty /\ buffer = back
      OBVIOUS
    <3>3. PICK p : p = Flushed(dirty, back, dirty.y * Width + dirty.x)
      OBVIOUS
    <3>4. panel' = p
      BY <1>4, <3>3 DEF Present
    <3>5. p[m] = back[m]
      BY <3>1, <3>3, FlushedFacts
    <3> QED
      BY <3>1, <3>4, <3>5
  <2> QED
    BY <2>2, <2>3
<1>5. CASE UNCHANGED displayVars
  <2>1. dirty' = dirty /\ drawn' = drawn /\ back' = back /\ picture' = picture /\ initialized' = initialized
    BY <1>5 DEF displayVars
  <2> QED
    BY <2>1 DEF DisplayInv, DamageTight
<1> QED
  BY <1>1, <1>2, <1>3, <1>4, <1>5 DEF DisplayNext

(* The invariant holds in every reachable state.                           *)
LEMMA DisplayInvAlways == DisplaySpec => []DisplayInv
<1>1. DisplayInv /\ [DisplayNext]_displayVars => DisplayInv'
  BY DisplayStep
<1> QED
  BY <1>1, DisplayInvInit, PTL DEF DisplaySpec

(* However many rectangles were drawn, clipped at whatever edge of         *)
(* whatever screen, the damage is the least rectangle around them          *)
(* (display_surface_mark_dirty).                                           *)
THEOREM DamageIsLeast == DisplaySpec => []DamageTight
<1>1. DisplayInv => DamageTight
  BY DEF DisplayInv
<1> QED
  BY <1>1, DisplayInvAlways, PTL

(* A present shows everything that was drawn since the last one, in the    *)
(* colours drawn last, although the buffers swap and nothing is copied     *)
(* from one to the other (display_surface_publish,                         *)
(* esp32c3_panel_gc9a01_flush_rect_pixels).                                *)
THEOREM PresentShowsAll == DisplaySpec => PresentShowsDrawn
<1>1. DisplayInv /\ [DisplayNext]_displayVars
        => [drawn # {} /\ drawn' = {} => \A m \in drawn : panel'[m] = picture[m]]_displayVars
  BY DisplayStep
<1> QED
  BY <1>1, DisplayInvAlways, PTL DEF DisplaySpec, PresentShowsDrawn

HIDE ScreenFacts

-----------------------------------------------------------------------------
(* Events and timers.                                                      *)

(* What the proofs need to know of the constants.                          *)
LEMMA UiFacts ==
  /\ QueueCapacity \in Nat \ {0} /\ TimerCapacity \in Nat \ {0} /\ Word \in Nat \ {0}
  /\ Delays \subseteq Nat /\ Owners \subseteq Nat \ {0}
BY RuntimeUiAssumption

USE UiFacts

-----------------------------------------------------------------------------
(* Ranks.                                                                  *)

(* There are n numbers below n.                                            *)
LEMMA NumbersBelow ==
  ASSUME NEW n \in Nat
  PROVE  IsFiniteSet(0 .. (n - 1)) /\ Cardinality(0 .. (n - 1)) = n
<1>1. PICK e \in Int : e = n - 1
  OBVIOUS
<1>2. IsFiniteSet(0 .. e) /\ Cardinality(0 .. e) = IF 0 > e THEN 0 ELSE e - 0 + 1
  BY FS_Interval
<1>3. (IF 0 > e THEN 0 ELSE e - 0 + 1) = n
  BY <1>1
<1> QED
  BY <1>1, <1>2, <1>3, Zenon

(* The rank of each element of a finite set of numbers, from 0 on: no two  *)
(* have the same, and every rank up to the size of the set is taken.       *)
LEMMA RankFacts ==
  ASSUME NEW S \in SUBSET Nat, IsFiniteSet(S), NEW n \in Nat, n = Cardinality(S)
  PROVE  /\ \A i \in S : Before(S, i) \in 0 .. (n - 1)
         /\ \A i, j \in S : Before(S, i) = Before(S, j) => i = j
         /\ \A k \in 0 .. (n - 1) : \E i \in S : Before(S, i) = k
<1>1. ASSUME NEW i \in S
      PROVE  /\ IsFiniteSet({j \in S : j < i}) /\ Before(S, i) \in Nat
             /\ Before(S, i) = Cardinality({j \in S : j < i})
  <2>1. PICK L \in SUBSET S : L = {j \in S : j < i}
    OBVIOUS
  <2>2. IsFiniteSet(L) /\ Cardinality(L) \in Nat
    BY FS_Subset, FS_CardinalityType
  <2> QED
    BY <2>1, <2>2 DEF Before
<1>2. ASSUME NEW i \in S, NEW T, IsFiniteSet(T), {j \in S : j < i} \subseteq T, i \in T
      PROVE  Before(S, i) + 1 <= Cardinality(T)
  <2>1. PICK L : L = {j \in S : j < i}
    OBVIOUS
  <2>2. IsFiniteSet(L) /\ i \notin L /\ L \cup {i} \in SUBSET T /\ Cardinality(L) \in Nat
    BY <1>1, <1>2, <2>1
  <2>3. Cardinality(L \cup {i}) = Cardinality(L) + 1
    BY <2>2, FS_AddElement
  <2>4. Cardinality(L \cup {i}) <= Cardinality(T)
    BY <1>2, <2>2, FS_Subset
  <2> QED
    BY <1>1, <2>1, <2>3, <2>4
<1>3. ASSUME NEW i \in S PROVE Before(S, i) \in 0 .. (n - 1)
  <2>1. {j \in S : j < i} \subseteq S
    OBVIOUS
  <2>2. Before(S, i) + 1 <= Cardinality(S)
    BY <1>2, <2>1
  <2>3. PICK b \in Nat : b = Before(S, i)
    BY <1>1
  <2>4. b + 1 <= n
    BY <2>2, <2>3
  <2>5. b \in 0 .. (n - 1)
    BY <2>4
  <2> QED
    BY <2>3, <2>5
<1>4. ASSUME NEW i \in S, NEW j \in S, i < j PROVE Before(S, i) < Before(S, j)
  <2>1. PICK T : T = {m \in S : m < j}
    OBVIOUS
  <2>2. IsFiniteSet(T) /\ Before(S, j) = Cardinality(T) /\ i \in T
    BY <1>1, <1>4, <2>1
  <2>3. {m \in S : m < i} \subseteq T
    <3>1. \A m \in S : m < i => m < j
      BY <1>4
    <3> QED
      BY <2>1, <3>1
  <2>4. Before(S, i) + 1 <= Before(S, j)
    BY <1>2, <2>2, <2>3
  <2>5. PICK b \in Nat, d \in Nat : b = Before(S, i) /\ d = Before(S, j)
    BY <1>1
  <2>6. b < d
    BY <2>4, <2>5
  <2> QED
    BY <2>5, <2>6
<1>5. \A i, j \in S : Before(S, i) = Before(S, j) => i = j
  <2> TAKE i, j \in S
  <2>1. i < j \/ j < i \/ i = j
    OBVIOUS
  <2>2. Before(S, i) \in Nat /\ Before(S, j) \in Nat
    BY <1>1
  <2> QED
    BY <1>4, <2>1, <2>2
<1>6. \A k \in 0 .. (n - 1) : \E i \in S : Before(S, i) = k
  <2> DEFINE R == 0 .. (n - 1)
             f == [i \in S |-> Before(S, i)]
  <2>1. f \in [S -> R]
    BY <1>3
  <2>2. f \in Injection(S, R)
    BY <1>5, <2>1 DEF Injection, IsInjective
  <2>3. IsFiniteSet(R) /\ Cardinality(R) = n
    BY NumbersBelow
  <2>4. f \in Surjection(S, R)
    BY <2>2, <2>3, FS_Injection
  <2> QED
    BY <2>4 DEF Surjection
<1> QED
  BY <1>3, <1>5, <1>6

(* What runtime_ui_timer_collect_due takes is everything, or fills the     *)
(* queue.                                                                  *)
LEMMA TakenFacts ==
  ASSUME NEW S \in SUBSET Nat, IsFiniteSet(S), NEW c \in Nat, NEW q \in Nat, c <= q,
         NEW T, T = {i \in S : c + Before(S, i) < q}
  PROVE  /\ IsFiniteSet(T) /\ Cardinality(T) \in Nat /\ c + Cardinality(T) <= q
         /\ T = S \/ c + Cardinality(T) = q
<1>1. PICK n \in Nat : n = Cardinality(S)
  BY FS_CardinalityType
<1>2. /\ \A i \in S : Before(S, i) \in 0 .. (n - 1)
      /\ \A i, j \in S : Before(S, i) = Before(S, j) => i = j
      /\ \A k \in 0 .. (n - 1) : \E i \in S : Before(S, i) = k
  BY <1>1, RankFacts
<1>3. IsFiniteSet(T) /\ Cardinality(T) \in Nat
  BY FS_Subset, FS_CardinalityType
<1>4. CASE c + n <= q
  <2>1. \A i \in S : c + Before(S, i) < q
    BY <1>2, <1>4
  <2>2. T = S
    BY <2>1
  <2> QED
    BY <1>1, <1>3, <1>4, <2>2
<1>5. CASE ~(c + n <= q)
  <2>1. PICK m \in Nat : m = q - c
    OBVIOUS
  <2>2. m < n /\ c + m = q
    BY <1>5, <2>1
  <2> DEFINE R == 0 .. (m - 1)
             f == [i \in T |-> Before(S, i)]
  <2>3. \A i \in T : Before(S, i) \in R
    <3> TAKE i \in T
    <3>1. i \in S /\ c + Before(S, i) < q
      OBVIOUS
    <3> QED
      BY <1>2, <2>1, <3>1
  <2>4. f \in Bijection(T, R)
    <3>1. f \in [T -> R]
      BY <2>3
    <3>2. f \in Injection(T, R)
      BY <1>2, <3>1 DEF Injection, IsInjective
    <3>3. \A k \in R : \E i \in T : f[i] = k
      <4> TAKE k \in R
      <4>1. k \in 0 .. (n - 1) /\ c + k < q
        BY <2>1, <2>2
      <4>2. PICK i \in S : Before(S, i) = k
        BY <1>2, <4>1
      <4>3. i \in T
        BY <4>1, <4>2
      <4> QED
        BY <4>2, <4>3
    <3>4. f \in Surjection(T, R)
      BY <3>1, <3>3 DEF Surjection
    <3> QED
      BY <3>2, <3>4 DEF Bijection
  <2>5. IsFiniteSet(R) /\ Cardinality(R) = m
    BY NumbersBelow
  <2>6. Cardinality(R) = Cardinality(T)
    BY <1>3, <2>4, FS_Bijection DEF ExistsBijection
  <2> QED
    BY <1>3, <2>2, <2>5, <2>6
<1> QED
  BY <1>4, <1>5

(* The order in which runtime_ui_timer_collect_due goes through the table. *)
OrderOf(T) ==
  [k \in 1 .. Cardinality(T) |-> CHOOSE i \in T : Before(T, i) = k - 1]

(* That order has each entry that is taken once.                           *)
LEMMA OrderFacts ==
  ASSUME NEW T \in SUBSET Nat, IsFiniteSet(T), NEW n \in Nat, n = Cardinality(T)
  PROVE  /\ OrderOf(T) \in [1 .. n -> T]
         /\ \A j, k \in 1 .. n : OrderOf(T)[j] = OrderOf(T)[k] => j = k
         /\ \A i \in T : \E k \in 1 .. n : OrderOf(T)[k] = i
<1>1. ASSUME NEW k \in 1 .. n
      PROVE  OrderOf(T)[k] \in T /\ Before(T, OrderOf(T)[k]) = k - 1
  <2>1. k - 1 \in 0 .. (n - 1)
    OBVIOUS
  <2>2. \E i \in T : Before(T, i) = k - 1
    BY <2>1, RankFacts
  <2>3. OrderOf(T)[k] = CHOOSE i \in T : Before(T, i) = k - 1
    BY DEF OrderOf
  <2> QED
    BY <2>2, <2>3
<1>2. OrderOf(T) = [k \in 1 .. n |-> OrderOf(T)[k]]
  BY DEF OrderOf
<1>3. OrderOf(T) \in [1 .. n -> T]
  BY <1>1, <1>2
<1>4. ASSUME NEW j \in 1 .. n, NEW k \in 1 .. n, OrderOf(T)[j] = OrderOf(T)[k] PROVE j = k
  <2>1. j - 1 = k - 1
    BY <1>1, <1>4
  <2> QED
    BY <2>1
<1>5. ASSUME NEW i \in T PROVE \E k \in 1 .. n : OrderOf(T)[k] = i
  <2>1. Before(T, i) \in 0 .. (n - 1)
    BY RankFacts
  <2>2. PICK k \in 1 .. n : k - 1 = Before(T, i)
    <3>1. Before(T, i) + 1 \in 1 .. n /\ (Before(T, i) + 1) - 1 = Before(T, i)
      BY <2>1
    <3> QED
      BY <3>1
  <2>3. OrderOf(T)[k] \in T /\ Before(T, OrderOf(T)[k]) = Before(T, i)
    BY <1>1, <2>2
  <2> QED
    BY <2>3, RankFacts
<1> QED
  BY <1>3, <1>4, <1>5

-----------------------------------------------------------------------------
(* The ring.                                                               *)

(* The c events of a ring from slot r on.                                  *)
Ring(ev, r, c) == [k \in 1 .. c |-> ev[(r + k - 1) % QueueCapacity]]

(* The ring ev after the events new were written behind its c events.      *)
Written(ev, r, c, new) ==
  [s \in Slot |->
     LET k == {j \in DOMAIN new : (r + c + (j - 1)) % QueueCapacity = s}
     IN  IF k = {} THEN ev[s] ELSE new[Max(k)]]

(* A ring is a sequence of the events in its slots.                        *)
LEMMA RingIsSeq ==
  ASSUME NEW ev, NEW r \in Nat, NEW c \in Nat, NEW S, \A s \in Slot : ev[s] \in S
  PROVE  Ring(ev, r, c) \in Seq(S) /\ Len(Ring(ev, r, c)) = c
<1> DEFINE q == Ring(ev, r, c)
<1>1. \A k \in 1 .. c : ev[(r + k - 1) % QueueCapacity] \in S
  <2> TAKE k \in 1 .. c
  <2>1. PICK x \in Nat : x = r + k - 1
    OBVIOUS
  <2>2. x % QueueCapacity \in Slot
    BY DivMod DEF Slot
  <2> QED
    BY <2>1, <2>2
<1>2. q \in [1 .. c -> S]
  BY <1>1 DEF Ring
<1> HIDE DEF q
<1>3. q \in Seq(S)
  BY <1>2
<1>4. Len(q) = c
  BY <1>2, <1>3
<1> QED
  BY <1>3, <1>4 DEF q

(* A sequence with the elements of two, one after the other.               *)
LEMMA IsConcat ==
  ASSUME NEW S, NEW s \in Seq(S), NEW t \in Seq(S), NEW r \in Seq(S),
         Len(r) = Len(s) + Len(t),
         \A k \in 1 .. Len(s) : r[k] = s[k],
         \A k \in 1 .. Len(t) : r[Len(s) + k] = t[k]
  PROVE  r = s \o t
<1>1. PICK u : u = s \o t
  OBVIOUS
<1>2. /\ u \in Seq(S) /\ Len(u) = Len(s) + Len(t)
      /\ \A k \in 1 .. (Len(s) + Len(t)) : u[k] = IF k <= Len(s) THEN s[k] ELSE t[k - Len(s)]
  BY <1>1, ConcatProperties
<1>3. Len(s) \in Nat /\ Len(t) \in Nat
  OBVIOUS
<1>4. ASSUME NEW k \in 1 .. Len(r) PROVE r[k] = u[k]
  <2>1. CASE k <= Len(s)
    BY <1>2, <1>3, <2>1
  <2>2. CASE ~(k <= Len(s))
    <3>1. PICK j \in 1 .. Len(t) : k = Len(s) + j
      <4>1. k - Len(s) \in 1 .. Len(t) /\ k = Len(s) + (k - Len(s))
        BY <1>3, <2>2
      <4> QED
        BY <4>1
    <3>2. k - Len(s) = j
      BY <1>3, <3>1
    <3>3. u[k] = t[j]
      BY <1>2, <2>2, <3>2
    <3> QED
      BY <3>1, <3>3
  <2> QED
    BY <2>1, <2>2
<1>5. r = u
  BY <1>2, <1>4, SeqEqual
<1> QED
  BY <1>1, <1>5

(* Writing behind the last event appends: no event that is in the ring is  *)
(* overwritten, and the new ones come in order, wherever the ring wraps.   *)
LEMMA RingPush ==
  ASSUME NEW ev, NEW r \in Slot, NEW c \in Nat, NEW E, NEW new \in Seq(E),
         c + Len(new) <= QueueCapacity
  PROVE  Ring(Written(ev, r, c, new), r, c + Len(new)) = Ring(ev, r, c) \o new
<1>1. PICK n \in Nat : n = Len(new)
  OBVIOUS
<1>2. PICK nv : nv = Written(ev, r, c, new)
  OBVIOUS
<1>3. r \in Nat /\ c + n <= QueueCapacity /\ DOMAIN new = 1 .. n
  BY <1>1 DEF Slot
<1>4. ASSUME NEW q \in 1 .. c
      PROVE  Ring(nv, r, c + n)[q] = Ring(ev, r, c)[q]
  <2>1. PICK x \in Nat : x = r + q - 1
    BY <1>3
  <2>2. x % QueueCapacity \in Slot
    BY DivMod DEF Slot
  <2>3. ASSUME NEW j \in 1 .. n, (r + c + (j - 1)) % QueueCapacity = x % QueueCapacity PROVE FALSE
    <3>1. PICK y \in Nat : y = r + c + (j - 1)
      BY <1>3
    <3>2. x <= y /\ x # y /\ y < x + QueueCapacity
      BY <1>3, <2>1, <3>1
    <3>3. x % QueueCapacity = y % QueueCapacity
      BY <2>3, <3>1
    <3> QED
      BY <3>2, <3>3, ModApart
  <2>4. {j \in DOMAIN new : (r + c + (j - 1)) % QueueCapacity = x % QueueCapacity} = {}
    BY <1>3, <2>3
  <2>5. nv[x % QueueCapacity] = ev[x % QueueCapacity]
    BY <1>2, <2>2, <2>4 DEF Written
  <2>6. Ring(nv, r, c + n)[q] = nv[x % QueueCapacity]
    <3>1. q \in 1 .. (c + n)
      OBVIOUS
    <3> QED
      BY <2>1, <3>1 DEF Ring
  <2>7. Ring(ev, r, c)[q] = ev[x % QueueCapacity]
    BY <2>1 DEF Ring
  <2> QED
    BY <2>5, <2>6, <2>7
<1>5. ASSUME NEW j \in 1 .. n
      PROVE  Ring(nv, r, c + n)[c + j] = new[j]
  <2>1. PICK x \in Nat : x = r + c + (j - 1)
    BY <1>3
  <2>2. x % QueueCapacity \in Slot
    BY DivMod DEF Slot
  <2>3. ASSUME NEW i \in 1 .. n, (r + c + (i - 1)) % QueueCapacity = x % QueueCapacity PROVE i = j
    <3>1. PICK y \in Nat : y = r + c + (i - 1)
      BY <1>3
    <3>2. x % QueueCapacity = y % QueueCapacity
      BY <2>3, <3>1
    <3>3. y < x + QueueCapacity /\ x < y + QueueCapacity /\ (x <= y \/ y <= x)
      BY <1>3, <2>1, <3>1
    <3>4. x = y
      BY <3>2, <3>3, ModApart
    <3> QED
      BY <1>3, <2>1, <3>1, <3>4
  <2>4. {i \in DOMAIN new : (r + c + (i - 1)) % QueueCapacity = x % QueueCapacity} = {j}
    BY <1>3, <2>1, <2>3
  <2>5. Max({j}) = j
    BY DEF Max
  <2>6. nv[x % QueueCapacity] = new[j]
    <3>1. nv[x % QueueCapacity] = new[Max({j})]
      BY <1>2, <2>2, <2>4 DEF Written
    <3> QED
      BY <2>5, <3>1
  <2>7. Ring(nv, r, c + n)[c + j] = nv[x % QueueCapacity]
    <3>1. c + j \in 1 .. (c + n) /\ r + (c + j) - 1 = x
      BY <1>3, <2>1
    <3> QED
      BY <3>1 DEF Ring
  <2> QED
    BY <2>6, <2>7
<1> DEFINE S == {ev[s] : s \in Slot} \cup E \cup {nv[s] : s \in Slot}
<1>6. Ring(ev, r, c) \in Seq(S) /\ Len(Ring(ev, r, c)) = c
  <2>1. \A s \in Slot : ev[s] \in S
    OBVIOUS
  <2> HIDE DEF S
  <2> QED
    BY <1>3, <2>1, RingIsSeq
<1>7. Ring(nv, r, c + n) \in Seq(S) /\ Len(Ring(nv, r, c + n)) = c + n
  <2>1. \A s \in Slot : nv[s] \in S
    OBVIOUS
  <2>2. c + n \in Nat
    OBVIOUS
  <2> HIDE DEF S
  <2> QED
    BY <1>3, <2>1, <2>2, RingIsSeq
<1>8. new \in Seq(S)
  <2>1. \A i \in 1 .. n : new[i] \in S
    BY <1>1
  <2> HIDE DEF S
  <2> QED
    BY <1>1, <1>3, <2>1
<1> HIDE DEF S
<1>9. PICK a, b : a = Ring(ev, r, c) /\ b = Ring(nv, r, c + n)
  OBVIOUS
<1>10. b = a \o new
  <2>1. a \in Seq(S) /\ b \in Seq(S) /\ Len(b) = Len(a) + Len(new)
    BY <1>1, <1>6, <1>7, <1>9
  <2>2. \A k \in 1 .. Len(a) : b[k] = a[k]
    BY <1>4, <1>6, <1>9
  <2>3. \A k \in 1 .. Len(new) : b[Len(a) + k] = new[k]
    BY <1>1, <1>5, <1>6, <1>9
  <2> QED
    BY <1>8, <2>1, <2>2, <2>3, IsConcat
<1> QED
  BY <1>1, <1>2, <1>9, <1>10

(* Reading moves the first event out.                                      *)
LEMMA RingPop ==
  ASSUME NEW ev, NEW r \in Slot, NEW c \in Nat \ {0}
  PROVE  Ring(ev, (r + 1) % QueueCapacity, c - 1) = Tail(Ring(ev, r, c))
<1> DEFINE S == {ev[s] : s \in Slot}
<1>1. PICK p \in Nat : p = (r + 1) % QueueCapacity
  <2>1. r + 1 \in Nat
    BY DEF Slot
  <2> QED
    BY <2>1, DivMod
<1>2. r \in Nat /\ c \in Nat /\ c - 1 \in Nat /\ \A s \in Slot : ev[s] \in S
  BY DEF Slot
<1> HIDE DEF S
<1>3. PICK a : a = Ring(ev, r, c)
  OBVIOUS
<1>4. PICK b : b = Ring(ev, p, c - 1)
  OBVIOUS
<1>5. a \in Seq(S) /\ Len(a) = c /\ b \in Seq(S) /\ Len(b) = c - 1
  BY <1>2, <1>3, <1>4, RingIsSeq
<1>6. a # <<>>
  <2>1. Len(<<>>) = 0
    OBVIOUS
  <2> QED
    BY <1>5, <2>1
<1>7. PICK t : t = Tail(a)
  OBVIOUS
<1>8. t \in Seq(S) /\ Len(t) = c - 1 /\ \A i \in 1 .. Len(t) : t[i] = a[i + 1]
  BY <1>5, <1>6, <1>7, HeadTailProperties
<1>9. ASSUME NEW i \in 1 .. (c - 1) PROVE b[i] = t[i]
  <2>1. PICK x \in Nat : x = i - 1
    OBVIOUS
  <2>2. (p + x) % QueueCapacity = ((r + 1) + x) % QueueCapacity
    <3>1. r + 1 \in Nat
      BY <1>2
    <3> QED
      BY <1>1, <2>1, <3>1, ModAdd
  <2>3. b[i] = ev[(p + x) % QueueCapacity]
    <3>1. p + i - 1 = p + x
      BY <2>1
    <3> QED
      BY <1>4, <3>1 DEF Ring
  <2>4. a[i + 1] = ev[((r + 1) + x) % QueueCapacity]
    <3>1. i + 1 \in 1 .. c /\ r + (i + 1) - 1 = (r + 1) + x
      BY <1>2, <2>1
    <3> QED
      BY <1>3, <3>1 DEF Ring
  <2>5. t[i] = a[i + 1]
    BY <1>8
  <2> QED
    BY <2>2, <2>3, <2>4, <2>5
<1>10. b = t
  BY <1>5, <1>8, <1>9, SeqEqual
<1> QED
  BY <1>1, <1>3, <1>4, <1>7, <1>10

-----------------------------------------------------------------------------
(* The table.                                                              *)

(* An armed timer.                                                         *)
Timer == [owner : Owners, token : Tokens, due : Nat]

(* The same owner and token.                                               *)
Alike(a, b) == a.owner = b.owner /\ a.token = b.token

(* The entries of a table that are active, and their timers.               *)
ActiveOf(es) == {i \in Entry : es[i] # Idle}
TimersOf(es) == {es[i] : i \in ActiveOf(es)}

(* A table: no owner and token has two entries.                            *)
Table(es) ==
  /\ es \in [Entry -> {Idle} \cup Timer]
  /\ \A i, j \in ActiveOf(es) : Alike(es[i], es[j]) => i = j

(* No armed timer looks like an inactive entry.                            *)
LEMMA TimerNotIdle == Idle \notin Timer
<1>1. Idle.owner = 0 /\ 0 \notin Owners
  BY DEF Idle
<1> QED
  BY <1>1 DEF Timer

(* runtime_ui_timer_arm: the entry it chooses takes the place of the timer *)
(* with the same owner and token, if any, and there was room for it.       *)
LEMMA TableArm ==
  ASSUME NEW es, Table(es), NEW new \in Timer, NEW i \in Entry,
         \/ i \in ActiveOf(es) /\ Alike(es[i], new)
         \/ i \notin ActiveOf(es) /\ \A j \in ActiveOf(es) : ~Alike(es[j], new)
  PROVE  /\ Table([es EXCEPT ![i] = new])
         /\ TimersOf([es EXCEPT ![i] = new]) = {a \in TimersOf(es) : ~Alike(a, new)} \cup {new}
         /\ Cardinality({a \in TimersOf(es) : ~Alike(a, new)}) < TimerCapacity
<1>1. PICK ns : ns = [es EXCEPT ![i] = new]
  OBVIOUS
<1>2. es \in [Entry -> {Idle} \cup Timer] /\ \A j, k \in ActiveOf(es) : Alike(es[j], es[k]) => j = k
  BY DEF Table
<1>3. /\ ns \in [Entry -> {Idle} \cup Timer] /\ ns[i] = new
      /\ \A j \in Entry \ {i} : ns[j] = es[j]
  BY <1>1, <1>2
<1>4. ActiveOf(ns) = ActiveOf(es) \cup {i}
  BY <1>3, TimerNotIdle DEF ActiveOf
<1>5. \A j \in ActiveOf(es) \ {i} : ~Alike(es[j], new)
  BY <1>2 DEF Alike
<1>6. Table(ns)
  <2>1. ASSUME NEW j \in ActiveOf(ns), NEW k \in ActiveOf(ns), Alike(ns[j], ns[k]) PROVE j = k
    <3>1. j \in Entry /\ k \in Entry
      BY DEF ActiveOf
    <3>2. CASE j # i /\ k # i
      BY <1>2, <1>3, <1>4, <2>1, <3>1, <3>2
    <3>3. CASE j # i /\ k = i
      BY <1>3, <1>4, <1>5, <2>1, <3>1, <3>3
    <3>4. CASE j = i /\ k # i
      <4>1. Alike(es[k], new)
        BY <1>3, <2>1, <3>1, <3>4 DEF Alike
      <4> QED
        BY <1>4, <1>5, <3>4, <4>1
    <3> QED
      BY <3>2, <3>3, <3>4
  <2> QED
    BY <1>3, <2>1 DEF Table
<1> DEFINE others == {a \in TimersOf(es) : ~Alike(a, new)}
<1>7. ASSUME NEW a \in others PROVE \E j \in Entry \ {i} : j \in ActiveOf(es) /\ es[j] = a
  <2>1. PICK j \in ActiveOf(es) : es[j] = a
    BY DEF TimersOf
  <2>2. j # i
    BY <2>1
  <2> QED
    BY <2>1, <2>2 DEF ActiveOf
<1>8. TimersOf(ns) = others \cup {new}
  <2>1. ASSUME NEW a \in TimersOf(ns) PROVE a \in others \cup {new}
    <3>1. PICK j \in ActiveOf(ns) : a = ns[j]
      BY DEF TimersOf
    <3>2. CASE j = i
      BY <1>3, <3>1, <3>2
    <3>3. CASE j # i
      <4>1. j \in ActiveOf(es) /\ ns[j] = es[j]
        BY <1>3, <1>4, <3>1, <3>3 DEF ActiveOf
      <4> QED
        BY <1>5, <3>1, <3>3, <4>1 DEF TimersOf
    <3> QED
      BY <3>2, <3>3
  <2>2. new \in TimersOf(ns)
    BY <1>3, <1>4 DEF TimersOf
  <2>3. ASSUME NEW a \in others PROVE a \in TimersOf(ns)
    <3>1. PICK j \in Entry \ {i} : j \in ActiveOf(es) /\ es[j] = a
      BY <1>7
    <3> QED
      BY <1>3, <1>4, <3>1 DEF TimersOf
  <2> QED
    BY <2>1, <2>2, <2>3
<1>9. Cardinality(others) < TimerCapacity
  <2> DEFINE f == [a \in others |-> CHOOSE j \in Entry \ {i} : j \in ActiveOf(es) /\ es[j] = a]
  <2>1. \A a \in others : f[a] \in Entry \ {i} /\ es[f[a]] = a
    BY <1>7
  <2>2. f \in Injection(others, Entry \ {i})
    BY <2>1 DEF Injection, IsInjective
  <2>3. IsFiniteSet(Entry) /\ Cardinality(Entry) = TimerCapacity
    <3>1. IsFiniteSet(1 .. TimerCapacity) /\ Cardinality(1 .. TimerCapacity) = TimerCapacity
      BY FS_Interval
    <3> QED
      BY <3>1 DEF Entry
  <2>4. IsFiniteSet(Entry \ {i}) /\ Cardinality(Entry \ {i}) = TimerCapacity - 1
    BY <2>3, FS_RemoveElement
  <2>5. IsFiniteSet(others) /\ Cardinality(others) <= TimerCapacity - 1
    BY <2>2, <2>4, FS_Injection
  <2>6. Cardinality(others) \in Nat
    BY <2>5, FS_CardinalityType
  <2> QED
    BY <2>5, <2>6
<1> QED
  BY <1>1, <1>6, <1>8, <1>9

(* The table with some entries cleared.                                    *)
LEMMA TableClear ==
  ASSUME NEW es, Table(es), NEW C \in SUBSET ActiveOf(es), NEW ns,
         ns = [i \in Entry |-> IF i \in C THEN Idle ELSE es[i]]
  PROVE  /\ Table(ns)
         /\ TimersOf(ns) = TimersOf(es) \ {es[i] : i \in C}
         /\ ActiveOf(ns) = ActiveOf(es) \ C
<1>1. es \in [Entry -> {Idle} \cup Timer] /\ \A j, k \in ActiveOf(es) : Alike(es[j], es[k]) => j = k
  BY DEF Table
<1>2. /\ \A i \in Entry \ C : ns[i] = es[i]
      /\ \A i \in Entry : i \in C => ns[i] = Idle
      /\ ns \in [Entry -> {Idle} \cup Timer]
  BY <1>1
<1>3. ActiveOf(ns) = ActiveOf(es) \ C
  BY <1>2 DEF ActiveOf
<1>4. Table(ns)
  <2>1. \A i \in ActiveOf(ns) : i \in ActiveOf(es) /\ ns[i] = es[i]
    BY <1>2, <1>3 DEF ActiveOf
  <2> QED
    BY <1>1, <1>2, <2>1 DEF Table
<1>5. \A i, j \in ActiveOf(es) : es[i] = es[j] => i = j
  BY <1>1 DEF Alike
<1>6. TimersOf(ns) = TimersOf(es) \ {es[i] : i \in C}
  BY <1>2, <1>3, <1>5 DEF TimersOf, ActiveOf
<1> QED
  BY <1>3, <1>4, <1>6

-----------------------------------------------------------------------------
(* The invariant, and the abstract step of each call.                      *)

(* The indices are in range, no owner and token has two entries, and each  *)
(* active entry has the tick of the time it is really due.                 *)
UiInv ==
  /\ readIndex \in Slot /\ count \in 0 .. QueueCapacity /\ now \in Nat
  /\ Table(entries)
  /\ wanted \in [Entry -> Nat]
  /\ \A i \in Active : entries[i].due = Tick(wanted[i])

(* The queue and the timers of the abstract specification.                 *)
LEMMA MappingIs ==
  /\ Queued = Ring(events, readIndex, count) /\ Active = ActiveOf(entries)
  /\ {entries[i] : i \in Active} = TimersOf(entries)
BY DEF Queued, Ring, Active, ActiveOf, TimersOf

(* The number of queued events.                                            *)
LEMMA QueuedLen == UiInv => Len(Queued) = count
<1> SUFFICES ASSUME UiInv PROVE Len(Queued) = count
  OBVIOUS
<1>1. readIndex \in Nat /\ count \in Nat
  BY DEF UiInv, Slot
<1>2. Len(Ring(events, readIndex, count)) = count
  <2>1. PICK S : S = {events[s] : s \in Slot}
    OBVIOUS
  <2>2. \A s \in Slot : events[s] \in S
    BY <2>1
  <2> QED
    BY <1>1, <2>2, RingIsSeq
<1> QED
  BY <1>2, MappingIs

(* Events that are pushed while there is room are appended to the queue.   *)
LEMMA PushAppends ==
  ASSUME UiInv, NEW E, NEW new \in Seq(E), count + Len(new) <= QueueCapacity, PushAll(new)
  PROVE  /\ Queued' = Queued \o new /\ readIndex' \in Slot /\ count' \in 0 .. QueueCapacity
         /\ Len(Queued) = count
<1>1. readIndex \in Slot /\ count \in Nat /\ Len(new) \in Nat /\ readIndex \in Nat
  BY DEF UiInv, Slot
<1>2. /\ events' = Written(events, readIndex, count, new)
      /\ count' = count + Len(new) /\ readIndex' = readIndex
  BY DEF PushAll, WriteIndex, Written
<1>3. Queued' = Ring(events', readIndex', count')
  BY DEF Queued, Ring
<1>4. Queued = Ring(events, readIndex, count)
  BY MappingIs
<1>5. Ring(Written(events, readIndex, count, new), readIndex, count + Len(new))
        = Ring(events, readIndex, count) \o new
  BY <1>1, RingPush
<1>6. Len(Queued) = count
  BY QueuedLen
<1> QED
  BY <1>1, <1>2, <1>3, <1>4, <1>5, <1>6

(* runtime_input_push posts an event.                                      *)
LEMMA PushPosts ==
  ASSUME UiInv, NEW type, NEW p, Push(type, p)
  PROVE  UiInv' /\ Abstract!Post(type, p)
<1>1. PICK e : e = [type |-> type, target |-> p, tick |-> Tick(now), token |-> 0, due |-> 0]
  OBVIOUS
<1>2. /\ count < QueueCapacity /\ PushAll(<<e>>)
      /\ entries' = entries /\ now' = now /\ wanted' = wanted
  BY <1>1 DEF Push
<1>3. <<e>> \in Seq({e}) /\ Len(<<e>>) = 1
  OBVIOUS
<1>4. count \in Nat /\ count + Len(<<e>>) <= QueueCapacity
  BY <1>2, <1>3 DEF UiInv
<1>5. /\ Queued' = Queued \o <<e>> /\ readIndex' \in Slot /\ count' \in 0 .. QueueCapacity
      /\ Len(Queued) = count
  BY <1>2, <1>3, <1>4, PushAppends
<1>6. UiInv'
  BY <1>2, <1>5 DEF UiInv, Active, Entry, Tick
<1>7. Queued' = Append(Queued, e)
  <2>1. PICK S : Queued \in Seq(S)
    <3>1. readIndex \in Nat /\ count \in Nat
      BY DEF UiInv, Slot
    <3>2. PICK S : S = {events[s] : s \in Slot}
      OBVIOUS
    <3>3. \A s \in Slot : events[s] \in S
      BY <3>2
    <3>4. Ring(events, readIndex, count) \in Seq(S)
      BY <3>1, <3>3, RingIsSeq
    <3> QED
      BY <3>4, MappingIs
  <2>2. Queued \o <<e>> = Append(Queued, e)
    BY <2>1
  <2> QED
    BY <1>5, <2>2
<1>8. Abstract!InputEvent(type, p, now) = e
  BY <1>1 DEF Abstract!InputEvent, Abstract!Tick, Tick
<1>9. {entries[i] : i \in Active}' = {entries[i] : i \in Active}
  BY <1>2 DEF Active
<1> QED
  BY <1>2, <1>5, <1>6, <1>7, <1>8, <1>9 DEF Abstract!Post

(* runtime_ui_event_pop takes the oldest event.                            *)
LEMMA PopTakes ==
  ASSUME UiInv, Pop
  PROVE  UiInv' /\ Abstract!Take
<1>1. /\ count # 0 /\ readIndex' = (readIndex + 1) % QueueCapacity /\ count' = count - 1
      /\ events' = events /\ entries' = entries /\ now' = now /\ wanted' = wanted
  BY DEF Pop
<1>2. readIndex \in Slot /\ count \in Nat \ {0} /\ count <= QueueCapacity
  BY <1>1 DEF UiInv
<1>3. readIndex' \in Slot /\ count' \in 0 .. QueueCapacity
  <2>1. readIndex + 1 \in Nat
    BY <1>2 DEF Slot
  <2>2. (readIndex + 1) % QueueCapacity \in 0 .. (QueueCapacity - 1)
    BY <2>1, DivMod
  <2> QED
    BY <1>1, <1>2, <2>2 DEF Slot
<1>4. UiInv'
  BY <1>1, <1>3 DEF UiInv, Active, Entry, Tick
<1>5. Queued' = Tail(Queued)
  <2>1. Queued' = Ring(events', readIndex', count')
    BY DEF Queued, Ring
  <2>2. Ring(events, (readIndex + 1) % QueueCapacity, count - 1) = Tail(Ring(events, readIndex, count))
    BY <1>2, RingPop
  <2> QED
    BY <1>1, <2>1, <2>2, MappingIs
<1>6. Queued # <<>>
  <2>1. Len(<<>>) = 0
    OBVIOUS
  <2> QED
    BY <1>1, <2>1, QueuedLen
<1>7. {entries[i] : i \in Active}' = {entries[i] : i \in Active}
  BY <1>1 DEF Active
<1> QED
  BY <1>1, <1>4, <1>5, <1>6, <1>7 DEF Abstract!Take

(* Time goes on in both.                                                   *)
LEMMA ElapseElapses ==
  ASSUME UiInv, Elapse
  PROVE  UiInv' /\ Abstract!Elapse
<1>1. /\ now < MaxTime /\ now' = now + 1
      /\ events' = events /\ readIndex' = readIndex /\ count' = count
      /\ entries' = entries /\ wanted' = wanted
  BY DEF Elapse, queue
<1>2. UiInv'
  BY <1>1 DEF UiInv, Active, Entry, Tick
<1>3. Queued' = Queued /\ {entries[i] : i \in Active}' = {entries[i] : i \in Active}
  BY <1>1 DEF Queued, Active
<1> QED
  BY <1>1, <1>2, <1>3 DEF Abstract!Elapse

(* A tick is a number.                                                     *)
LEMMA TickTyped == \A t \in Nat : Tick(t) \in Nat
BY DivMod DEF Tick

(* The least element of a set of entries.                                  *)
LEMMA MinEntry ==
  ASSUME NEW S \in SUBSET Entry, S # {}
  PROVE  Min(S) \in S
<1>1. S \in SUBSET Nat
  BY DEF Entry
<1>2. \E i \in S : \A j \in S : i <= j
  BY <1>1, NatMin
<1> QED
  BY <1>2 DEF Min

(* The abstract specification counts as this one does.                     *)
LEMMA SameCardinality == \A S : Abstract!Cardinality(S) = Cardinality(S)
BY Zenon DEF Cardinality, Abstract!Cardinality

(* runtime_ui_timer_arm arms one timer for its owner and token.            *)
LEMMA ArmArms ==
  ASSUME UiInv, NEW p \in Owners, NEW token \in Tokens, NEW delay \in Delays, Arm(p, token, delay)
  PROVE  UiInv' /\ Abstract!Arm(p, token, Abstract!Tick(now + delay))
<1>1. now \in Nat /\ delay \in Nat /\ now + delay \in Nat /\ Table(entries) /\ wanted \in [Entry -> Nat]
  BY DEF UiInv
<1>2. PICK due \in Nat : due = Tick(now + delay)
  BY <1>1, TickTyped
<1>3. PICK new \in Timer : new = [owner |-> p, token |-> token, due |-> due]
  BY DEF Timer
<1>4. new.owner = p /\ new.token = token /\ new.due = due
  BY <1>3
<1>5. PICK i : i = Min(ArmAt(p, token))
  OBVIOUS
<1>6. /\ ArmAt(p, token) # {}
      /\ entries' = [entries EXCEPT ![i] = new]
      /\ wanted' = [wanted EXCEPT ![i] = now + delay]
      /\ events' = events /\ readIndex' = readIndex /\ count' = count /\ now' = now
  BY <1>2, <1>3, <1>5 DEF Arm, queue
<1>7. Active = ActiveOf(entries) /\ Active \subseteq Entry
  BY DEF Active, ActiveOf
<1>8. i \in ArmAt(p, token)
  <2>1. ArmAt(p, token) \subseteq Entry
    BY DEF ArmAt, Armed, Active
  <2> QED
    BY <1>5, <1>6, <2>1, MinEntry
<1>9. /\ i \in Entry
      /\ \/ i \in ActiveOf(entries) /\ Alike(entries[i], new)
         \/ i \notin ActiveOf(entries) /\ \A j \in ActiveOf(entries) : ~Alike(entries[j], new)
  <2>1. CASE Armed(p, token) # {}
    BY <1>4, <1>7, <1>8, <2>1 DEF ArmAt, Armed, Alike
  <2>2. CASE Armed(p, token) = {}
    BY <1>4, <1>7, <1>8, <2>2 DEF ArmAt, Armed, Alike
  <2> QED
    BY <2>1, <2>2
<1>10. /\ Table(entries') /\ TimersOf(entries') = {a \in TimersOf(entries) : ~Alike(a, new)} \cup {new}
       /\ Cardinality({a \in TimersOf(entries) : ~Alike(a, new)}) < TimerCapacity
  BY <1>1, <1>6, <1>9, TableArm
<1>11. UiInv'
  <2>1. \A j \in Entry \ {i} : entries'[j] = entries[j] /\ wanted'[j] = wanted[j]
    BY <1>1, <1>6, <1>9 DEF Table
  <2>2. entries'[i] = new /\ wanted'[i] = now + delay /\ wanted' \in [Entry -> Nat]
    BY <1>1, <1>6, <1>9 DEF Table
  <2>3. ASSUME NEW j \in Active' PROVE entries'[j].due = Tick(wanted'[j])
    <3>1. j \in Entry /\ entries'[j] # Idle
      BY DEF Active
    <3>2. CASE j = i
      BY <1>2, <1>4, <2>2, <3>2
    <3>3. CASE j # i
      <4>1. j \in Active
        BY <2>1, <3>1, <3>3 DEF Active
      <4> QED
        BY <2>1, <3>1, <3>3, <4>1 DEF UiInv
    <3> QED
      BY <3>2, <3>3
  <2>4. readIndex' \in Slot /\ count' \in 0 .. QueueCapacity /\ now' \in Nat
    BY <1>6 DEF UiInv
  <2>5. \A j \in Active' : entries'[j].due = Tick(wanted'[j])
    BY <2>3
  <2> QED
    BY <1>10, <2>2, <2>4, <2>5 DEF UiInv, Tick
<1>12. Queued' = Queued
  BY <1>6 DEF Queued
<1>13. /\ {entries[j] : j \in Active} = TimersOf(entries)
       /\ {entries[j] : j \in Active}' = TimersOf(entries')
  BY DEF Active, TimersOf, ActiveOf
<1>14. Abstract!Tick(now + delay) = due
  BY <1>2 DEF Abstract!Tick, Tick
<1>15. PICK others : others = {a \in TimersOf(entries) : ~Alike(a, new)}
  OBVIOUS
<1>16. {a \in {entries[j] : j \in Active} : ~Abstract!Same(a, new)} = others
  BY <1>13, <1>15 DEF Abstract!Same, Alike
<1>17. Cardinality(others) < TimerCapacity /\ TimersOf(entries') = others \cup {new}
  BY <1>10, <1>15
<1>18. /\ Abstract!Cardinality({a \in {entries[j] : j \in Active} : ~Abstract!Same(a, new)})
            < TimerCapacity
       /\ {entries[j] : j \in Active}'
            = {a \in {entries[j] : j \in Active} : ~Abstract!Same(a, new)} \cup {new}
  BY <1>13, <1>16, <1>17, SameCardinality, Zenon
<1>19. Abstract!Arm(p, token, Abstract!Tick(now + delay))
  BY <1>3, <1>6, <1>12, <1>14, <1>18, Zenon DEF Abstract!Arm
<1> QED
  BY <1>11, <1>19, Zenon

(* runtime_ui_timer_cancel cancels the timer of this owner and token.      *)
LEMMA CancelCancels ==
  ASSUME UiInv, NEW p, NEW token, Cancel(p, token)
  PROVE  UiInv' /\ Abstract!Cancel(p, token)
<1>1. PICK i : i = Min(Armed(p, token))
  OBVIOUS
<1>2. /\ Armed(p, token) # {}
      /\ entries' = [j \in Entry |-> IF j \in {i} THEN Idle ELSE entries[j]]
      /\ wanted' = [j \in Entry |-> IF j \in {i} THEN 0 ELSE wanted[j]]
      /\ events' = events /\ readIndex' = readIndex /\ count' = count /\ now' = now
  BY <1>1 DEF Cancel, Clear, queue
<1>3. Table(entries) /\ wanted \in [Entry -> Nat] /\ \A j \in Active : entries[j].due = Tick(wanted[j])
  BY DEF UiInv
<1>4. Active = ActiveOf(entries) /\ Active \subseteq Entry
  BY DEF Active, ActiveOf
<1>5. i \in Armed(p, token)
  <2>1. Armed(p, token) \subseteq Entry
    BY DEF Armed, Active
  <2> QED
    BY <1>1, <1>2, <2>1, MinEntry
<1>6. i \in ActiveOf(entries) /\ entries[i].owner = p /\ entries[i].token = token
  BY <1>4, <1>5 DEF Armed
<1>7. /\ Table(entries') /\ TimersOf(entries') = TimersOf(entries) \ {entries[j] : j \in {i}}
      /\ ActiveOf(entries') = ActiveOf(entries) \ {i}
  <2>1. PICK C \in SUBSET ActiveOf(entries) : C = {i}
    BY <1>6
  <2>2. entries' = [j \in Entry |-> IF j \in C THEN Idle ELSE entries[j]]
    BY <1>2, <2>1, Zenon
  <2>3. /\ Table(entries') /\ TimersOf(entries') = TimersOf(entries) \ {entries[j] : j \in C}
        /\ ActiveOf(entries') = ActiveOf(entries) \ C
    BY <1>3, <2>2, TableClear
  <2> QED
    BY <2>1, <2>3, Zenon
<1>8. UiInv'
  <2>1. Active' = ActiveOf(entries')
    BY DEF Active, ActiveOf
  <2>2. \A j \in Active' : j \in Active /\ j \in Entry /\ j # i
    BY <1>4, <1>7, <2>1
  <2>3. \A j \in Active' : entries'[j].due = Tick(wanted'[j])
    BY <1>2, <1>3, <2>2
  <2>4. wanted' \in [Entry -> Nat]
    BY <1>2, <1>3
  <2>5. readIndex' \in Slot /\ count' \in 0 .. QueueCapacity /\ now' \in Nat
    BY <1>2 DEF UiInv
  <2> QED
    BY <1>7, <2>3, <2>4, <2>5 DEF UiInv, Tick
<1>9. Queued' = Queued
  BY <1>2 DEF Queued
<1>10. /\ {entries[j] : j \in Active} = TimersOf(entries)
       /\ {entries[j] : j \in Active}' = TimersOf(entries')
  BY DEF Active, TimersOf, ActiveOf
<1>11. \A a \in TimersOf(entries) : a.owner = p /\ a.token = token <=> a = entries[i]
  <2> TAKE a \in TimersOf(entries)
  <2>1. PICK j \in ActiveOf(entries) : a = entries[j]
    BY DEF TimersOf
  <2>2. Alike(entries[j], entries[i]) => j = i
    BY <1>3, <1>6 DEF Table
  <2> QED
    BY <1>6, <2>1, <2>2 DEF Alike
<1>12. TimersOf(entries') = {a \in TimersOf(entries) : ~(a.owner = p /\ a.token = token)}
  BY <1>7, <1>11
<1>13. \E a \in TimersOf(entries) : a.owner = p /\ a.token = token
  BY <1>6 DEF TimersOf
<1> QED
  BY <1>2, <1>8, <1>9, <1>10, <1>12, <1>13 DEF Abstract!Cancel

(* runtime_ui_timer_collect_due turns due timers into events, all of them  *)
(* or as many as there is room for.                                        *)
LEMMA CollectCollects ==
  ASSUME UiInv, CollectDue
  PROVE  UiInv' /\ Abstract!Collect
<1>1. PICK T : T = Taken(DueNow)
  OBVIOUS
<1>2. PICK D : D = DueNow
  OBVIOUS
<1>3. /\ D = {i \in ActiveOf(entries) : entries[i].due <= Tick(now)}
      /\ T = {i \in D : count + Before(D, i) < QueueCapacity}
  BY <1>1, <1>2 DEF DueNow, DueAt, Taken, Active, ActiveOf
<1>4. /\ Table(entries) /\ wanted \in [Entry -> Nat] /\ now \in Nat
      /\ count \in Nat /\ count <= QueueCapacity
      /\ \A j \in Active : entries[j].due = Tick(wanted[j])
  BY DEF UiInv
<1>5. ActiveOf(entries) \subseteq Entry /\ IsFiniteSet(Entry) /\ Entry \subseteq Nat
  BY FS_Interval DEF ActiveOf, Entry
<1>6. D \in SUBSET Nat /\ IsFiniteSet(D) /\ T \in SUBSET Nat
  BY <1>3, <1>5, FS_Subset
<1>7. /\ IsFiniteSet(T) /\ Cardinality(T) \in Nat /\ count + Cardinality(T) <= QueueCapacity
      /\ T = D \/ count + Cardinality(T) = QueueCapacity
  BY <1>3, <1>4, <1>6, TakenFacts
<1>8. PICK n \in Nat : n = Cardinality(T)
  BY <1>7
<1>9. PICK order : order = OrderOf(T)
  OBVIOUS
<1>10. /\ order \in [1 .. n -> T]
       /\ \A j, k \in 1 .. n : order[j] = order[k] => j = k
       /\ \A i \in T : \E k \in 1 .. n : order[k] = i
  BY <1>6, <1>7, <1>8, <1>9, OrderFacts
<1>11. PICK new : new = [k \in 1 .. n |->
           [type |-> "timer", target |-> entries[order[k]].owner, tick |-> Tick(now),
            token |-> entries[order[k]].token, due |-> entries[order[k]].due]]
  OBVIOUS
<1>12. /\ T # {} /\ PushAll(new) /\ now' = now
       /\ entries' = [i \in Entry |-> IF i \in T THEN Idle ELSE entries[i]]
       /\ wanted' = [i \in Entry |-> IF i \in T THEN 0 ELSE wanted[i]]
  <2>1. DOMAIN order = 1 .. n
    BY <1>10
  <2>2. order = [k \in 1 .. Cardinality(Taken(DueNow)) |->
                   CHOOSE i \in Taken(DueNow) : Before(Taken(DueNow), i) = k - 1]
    <3>1. order = OrderOf(Taken(DueNow))
      BY <1>1, <1>9
    <3> QED
      BY <3>1 DEF OrderOf
  <2>3. /\ T # {} /\ now' = now /\ Clear(T)
        /\ PushAll([k \in DOMAIN order |->
             [type |-> "timer", target |-> entries[order[k]].owner, tick |-> Tick(now),
              token |-> entries[order[k]].token, due |-> entries[order[k]].due]])
    BY <1>1, <2>2 DEF CollectDue, Cleared
  <2>4. PushAll(new)
    BY <1>11, <2>1, <2>3, Zenon
  <2> QED
    BY <2>3, <2>4 DEF Clear
<1>13. PICK E : E = {new[k] : k \in 1 .. n}
  OBVIOUS
<1>14. new \in Seq(E) /\ Len(new) = n /\ DOMAIN new = 1 .. n
  <2>1. DOMAIN new = 1 .. n /\ new = [k \in 1 .. n |-> new[k]]
    BY <1>11
  <2>2. \A k \in 1 .. n : new[k] \in E
    BY <1>13
  <2>3. new \in [1 .. n -> E]
    BY <2>1, <2>2
  <2>4. new \in Seq(E)
    BY <2>3
  <2> QED
    BY <2>1, <2>4
<1>15. /\ Queued' = Queued \o new /\ readIndex' \in Slot /\ count' \in 0 .. QueueCapacity
       /\ Len(Queued) = count
  <2>1. count + Len(new) <= QueueCapacity
    BY <1>7, <1>8, <1>14
  <2> QED
    BY <1>12, <1>14, <2>1, PushAppends
<1>16. T \in SUBSET ActiveOf(entries)
  BY <1>3
<1>17. /\ Table(entries') /\ TimersOf(entries') = TimersOf(entries) \ {entries[i] : i \in T}
       /\ ActiveOf(entries') = ActiveOf(entries) \ T
  <2>1. Table(entries)
    BY <1>4
  <2>2. entries' = [i \in Entry |-> IF i \in T THEN Idle ELSE entries[i]]
    BY <1>12
  <2> QED
    BY <1>16, <2>1, <2>2, TableClear
<1>18. UiInv'
  <2>1. Active' = ActiveOf(entries') /\ Active = ActiveOf(entries)
    BY DEF Active, ActiveOf
  <2>2. \A j \in Active' : j \in Active /\ j \in Entry /\ j \notin T
    BY <1>5, <1>17, <2>1
  <2>3. \A j \in Active' : entries'[j].due = Tick(wanted'[j])
    BY <1>4, <1>12, <2>2
  <2>4. wanted' \in [Entry -> Nat]
    BY <1>4, <1>12
  <2> QED
    BY <1>4, <1>12, <1>15, <1>17, <2>3, <2>4 DEF UiInv, Tick
<1>19. PICK chosen : chosen = {entries[i] : i \in T}
  OBVIOUS
<1>20. PICK os : os = [k \in 1 .. n |-> entries[order[k]]]
  OBVIOUS
<1>21. /\ os \in [1 .. n -> chosen] /\ DOMAIN os = 1 .. n
       /\ \A j, k \in 1 .. n : os[j] = os[k] => j = k
       /\ \A a \in chosen : \E k \in 1 .. n : os[k] = a
  <2>1. os \in [1 .. n -> chosen]
    BY <1>10, <1>19, <1>20
  <2>2. \A i, j \in T : entries[i] = entries[j] => i = j
    BY <1>4, <1>16 DEF Table, Alike
  <2>3. \A k \in 1 .. n : os[k] = entries[order[k]] /\ order[k] \in T
    BY <1>10, <1>20
  <2>4. \A j, k \in 1 .. n : os[j] = os[k] => j = k
    BY <1>10, <2>2, <2>3
  <2>5. \A a \in chosen : \E k \in 1 .. n : os[k] = a
    BY <1>10, <1>19, <2>3
  <2> QED
    BY <2>1, <2>4, <2>5
<1>22. Cardinality(chosen) = n
  <2>1. os \in Bijection(1 .. n, chosen)
    BY <1>21 DEF Bijection, Injection, Surjection, IsInjective
  <2> QED
    BY <2>1, FS_CountingElements DEF ExistsBijection
<1>23. os \in Abstract!SetToSeqs(chosen)
  <2>1. Abstract!Cardinality(chosen) = n
    BY <1>22, SameCardinality
  <2>2. os \in [1 .. n -> chosen] /\ \A j, k \in 1 .. n : j # k => os[j] # os[k]
    BY <1>21
  <2> QED
    BY <2>1, <2>2 DEF Abstract!SetToSeqs
<1>24. /\ {entries[j] : j \in Active} = TimersOf(entries)
       /\ {entries[j] : j \in Active}' = TimersOf(entries')
  BY DEF Active, TimersOf, ActiveOf
<1>25. Abstract!Due = {a \in TimersOf(entries) : a.due <= Tick(now)}
  BY <1>24 DEF Abstract!Due, Abstract!Tick, Tick
<1>26. chosen \in SUBSET Abstract!Due /\ chosen # {} /\ (T = D => chosen = Abstract!Due)
  <2>1. chosen \in SUBSET Abstract!Due
    BY <1>3, <1>19, <1>25 DEF TimersOf
  <2>2. T = D => chosen = Abstract!Due
    BY <1>3, <1>19, <1>25 DEF TimersOf
  <2> QED
    BY <1>12, <1>19, <2>1, <2>2
<1>27. new = [k \in DOMAIN os |-> Abstract!TimerEvent(os[k], now)]
  <2>1. \A k \in 1 .. n : new[k] = Abstract!TimerEvent(os[k], now)
    <3> TAKE k \in 1 .. n
    <3>1. os[k] = entries[order[k]]
      BY <1>20
    <3>2. new[k] = [type |-> "timer", target |-> entries[order[k]].owner, tick |-> Tick(now),
                    token |-> entries[order[k]].token, due |-> entries[order[k]].due]
      BY <1>11
    <3> QED
      BY <3>1, <3>2 DEF Abstract!TimerEvent, Abstract!Tick, Tick
  <2>2. new = [k \in 1 .. n |-> new[k]]
    BY <1>11
  <2> QED
    BY <1>21, <2>1, <2>2
<1>28. /\ Len(Queued) + Abstract!Cardinality(chosen) <= QueueCapacity
       /\ chosen = Abstract!Due \/ Len(Queued) + Abstract!Cardinality(chosen) = QueueCapacity
  <2>1. Abstract!Cardinality(chosen) = Cardinality(T) /\ Len(Queued) = count
    BY <1>8, <1>15, <1>22, SameCardinality
  <2> QED
    BY <1>7, <1>26, <2>1
<1>29. Queued' = Queued \o [k \in DOMAIN os |-> Abstract!TimerEvent(os[k], now)]
  BY <1>15, <1>27, Zenon
<1>30. {entries[j] : j \in Active}' = {entries[j] : j \in Active} \ chosen
  BY <1>17, <1>19, <1>24
<1>31. Abstract!Collect
  BY <1>12, <1>23, <1>26, <1>28, <1>29, <1>30, Zenon DEF Abstract!Collect
<1> QED
  BY <1>18, <1>31

-----------------------------------------------------------------------------
(* The theorems.                                                           *)

(* Everything starts empty.                                                *)
LEMMA InitImplements == Init => UiInv /\ Abstract!Init
<1> SUFFICES ASSUME Init PROVE UiInv /\ Abstract!Init
  OBVIOUS
<1>1. /\ readIndex = 0 /\ count = 0 /\ now = 0
      /\ entries = [i \in Entry |-> Idle] /\ wanted = [i \in Entry |-> 0]
  BY DEF Init
<1>2. Active = {} /\ ActiveOf(entries) = {}
  BY <1>1 DEF Active, ActiveOf
<1>3. Table(entries)
  BY <1>1, <1>2 DEF Table
<1>4. UiInv
  BY <1>1, <1>2, <1>3 DEF UiInv, Slot
<1>5. Queued = <<>>
  <2>1. Len(Queued) = 0
    BY <1>1, <1>4, QueuedLen
  <2>2. Queued \in Seq({events[s] : s \in Slot})
    <3>1. PICK S : S = {events[s] : s \in Slot}
      OBVIOUS
    <3>2. \A s \in Slot : events[s] \in S
      BY <3>1
    <3>3. readIndex \in Nat /\ count \in Nat
      BY <1>1
    <3>4. Ring(events, readIndex, count) \in Seq(S)
      BY <3>2, <3>3, RingIsSeq
    <3> QED
      BY <3>1, <3>4, MappingIs
  <2> QED
    BY <2>1, <2>2, EmptySeq
<1>6. {entries[i] : i \in Active} = {}
  BY <1>2
<1> QED
  BY <1>1, <1>4, <1>5, <1>6 DEF Abstract!Init

(* Every step keeps the invariant and is a step of the abstract            *)
(* specification.                                                          *)
LEMMA NextImplements ==
  UiInv /\ [Next]_vars
    => UiInv' /\ [Abstract!Next]_<<Queued, {entries[i] : i \in Active}, now>>
<1> SUFFICES ASSUME UiInv, [Next]_vars
             PROVE  UiInv' /\ [Abstract!Next]_<<Queued, {entries[i] : i \in Active}, now>>
  OBVIOUS
<1>1. ASSUME NEW type \in InputTypes, NEW p \in Owners, Push(type, p) PROVE UiInv' /\ Abstract!Next
  BY <1>1, PushPosts DEF Abstract!Next
<1>2. ASSUME Pop PROVE UiInv' /\ Abstract!Next
  BY <1>2, PopTakes DEF Abstract!Next
<1>3. ASSUME NEW p \in Owners, NEW token \in Tokens, NEW delay \in Delays, Arm(p, token, delay)
      PROVE  UiInv' /\ Abstract!Next
  BY <1>3, ArmArms DEF Abstract!Next
<1>4. ASSUME NEW p \in Owners, NEW token \in Tokens, Cancel(p, token) PROVE UiInv' /\ Abstract!Next
  BY <1>4, CancelCancels DEF Abstract!Next
<1>5. ASSUME CollectDue PROVE UiInv' /\ Abstract!Next
  BY <1>5, CollectCollects DEF Abstract!Next
<1>6. ASSUME Elapse PROVE UiInv' /\ Abstract!Next
  BY <1>6, ElapseElapses DEF Abstract!Next
<1>7. ASSUME UNCHANGED vars
      PROVE  UiInv' /\ UNCHANGED <<Queued, {entries[i] : i \in Active}, now>>
  <2>1. /\ events' = events /\ readIndex' = readIndex /\ count' = count
        /\ entries' = entries /\ wanted' = wanted /\ now' = now
    BY <1>7 DEF vars, queue
  <2>2. UiInv'
    BY <2>1 DEF UiInv, Active, Entry, Tick
  <2>3. Queued' = Queued /\ {entries[i] : i \in Active}' = {entries[i] : i \in Active}
    BY <2>1 DEF Queued, Active
  <2> QED
    BY <2>1, <2>2, <2>3
<1> QED
  BY <1>1, <1>2, <1>3, <1>4, <1>5, <1>6, <1>7 DEF Next

(* The ring and the timer table of runtime_ui.c are the bounded queue and  *)
(* the set of timers that UiEvents promises, for queues and tables of      *)
(* every size and ticks of every width.                                    *)
THEOREM QueueAndTimersKept == Spec => ImplementsUiEvents
<1>1. Init => UiInv /\ Abstract!Init
  BY InitImplements
<1>2. UiInv /\ [Next]_vars
        => UiInv' /\ [Abstract!Next]_<<Queued, {entries[i] : i \in Active}, now>>
  BY NextImplements
<1> QED
  BY <1>1, <1>2, PTL DEF Spec, ImplementsUiEvents, Abstract!Spec

(* The invariant holds in every state.                                     *)
LEMMA UiInvariant == Spec => []UiInv
<1>1. Init => UiInv
  BY InitImplements
<1>2. UiInv /\ [Next]_vars => UiInv'
  BY NextImplements
<1> QED
  BY <1>1, <1>2, PTL DEF Spec

(* Of two times whose ticks are out of order, or the same, the later is in *)
(* a later round of the tick counter.                                      *)
LEMMA LaterRound ==
  ASSUME NEW x \in Nat, NEW y \in Nat, y <= x, Tick(x) <= Tick(y), y < x \/ Tick(x) < Tick(y)
  PROVE  Epoch(y) < Epoch(x)
<1>1. PICK a \in Nat, b \in Nat : a = x \div Word /\ b = x % Word
  <2>1. x \div Word \in Nat
    BY DivMod
  <2>2. x % Word \in Nat
    BY DivMod
  <2> QED
    BY <2>1, <2>2, Zenon
<1>2. PICK c \in Nat, d \in Nat : c = y \div Word /\ d = y % Word
  <2>1. y \div Word \in Nat
    BY DivMod
  <2>2. y % Word \in Nat
    BY DivMod
  <2> QED
    BY <2>1, <2>2, Zenon
<1>3. b <= d /\ (y < x \/ b < d)
  BY <1>1, <1>2 DEF Tick
<1>4. PICK u \in Nat, v \in Nat : u = a * Word /\ v = c * Word
  OBVIOUS
<1>5. x = u + b /\ y = v + d
  <2>1. x = (x \div Word) * Word + (x % Word) /\ y = (y \div Word) * Word + (y % Word)
    BY DivMod
  <2> QED
    BY <1>1, <1>2, <1>4, <2>1
<1>6. c < a
  <2>1. ASSUME a < c PROVE FALSE
    <3>1. u + Word <= v
      BY <1>4, <2>1, MultiplesApart
    <3> QED
      BY <1>3, <1>5, <3>1
  <2>2. ASSUME a = c PROVE FALSE
    BY <1>3, <1>4, <1>5, <2>2
  <2> QED
    BY <2>1, <2>2
<1> QED
  BY <1>1, <1>2, <1>6 DEF Epoch

(* Only runtime_ui_timer_collect_due both clears an entry and queues an    *)
(* event.                                                                  *)
LEMMA CollectedOnlyBy ==
  ASSUME UiInv, Next, ~CollectDue
  PROVE  Collected = {}
<1>1. count \in Nat
  BY DEF UiInv
<1>2. ASSUME entries' = entries PROVE Collected = {}
  BY <1>2 DEF Collected, Active
<1>3. ASSUME count' = count \/ count' = count - 1 PROVE Collected = {}
  <2>1. ~(count' > count)
    BY <1>1, <1>3
  <2> QED
    BY <2>1 DEF Collected
<1>4. \/ entries' = entries
      \/ count' = count \/ count' = count - 1
  BY DEF Next, Push, Pop, Arm, Cancel, Elapse, queue
<1> QED
  BY <1>2, <1>3, <1>4

(* runtime_ui_timer_collect_due takes what is due by the tick, and all of  *)
(* it if it leaves room in the queue.                                      *)
LEMMA CollectedAre ==
  ASSUME UiInv, CollectDue
  PROVE  /\ Collected \subseteq DueNow
         /\ count' < QueueCapacity => Collected = DueNow
<1>1. PICK D : D = DueNow
  OBVIOUS
<1>2. PICK T : T = Taken(DueNow)
  OBVIOUS
<1>3. /\ D = {i \in ActiveOf(entries) : entries[i].due <= Tick(now)}
      /\ T = {i \in D : count + Before(D, i) < QueueCapacity}
      /\ Active = ActiveOf(entries)
  BY <1>1, <1>2 DEF DueNow, DueAt, Taken, Active, ActiveOf
<1>4. count \in Nat /\ count <= QueueCapacity
  BY DEF UiInv
<1>5. ActiveOf(entries) \subseteq Entry /\ IsFiniteSet(Entry) /\ Entry \subseteq Nat
  BY FS_Interval DEF ActiveOf, Entry
<1>6. D \in SUBSET Nat /\ IsFiniteSet(D) /\ T \in SUBSET Nat
  BY <1>3, <1>5, FS_Subset
<1>7. /\ IsFiniteSet(T) /\ Cardinality(T) \in Nat /\ count + Cardinality(T) <= QueueCapacity
      /\ T = D \/ count + Cardinality(T) = QueueCapacity
  BY <1>3, <1>4, <1>6, TakenFacts
<1>8. /\ T # {} /\ count' = count + Cardinality(T)
      /\ entries' = [i \in Entry |-> IF i \in T THEN Idle ELSE entries[i]]
  <2>1. PICK new : PushAll(new) /\ DOMAIN new = 1 .. Cardinality(T)
    BY <1>2 DEF CollectDue
  <2>2. T # {} /\ Clear(T)
    BY <1>2 DEF CollectDue, Cleared
  <2>3. count' = count + Len(new)
    BY <2>1 DEF PushAll
  <2>4. Len(new) = Cardinality(T)
    BY <1>7, <2>1
  <2> QED
    BY <2>2, <2>3, <2>4 DEF Clear
<1>9. Collected \subseteq T
  <2>1. ASSUME NEW i \in Active, i \notin T PROVE entries'[i] # Idle
    BY <1>8, <2>1 DEF Active
  <2> QED
    BY <2>1 DEF Collected
<1>10. count' > count
  <2>1. Cardinality(T) # 0
    BY <1>7, <1>8, FS_EmptySet
  <2> QED
    BY <1>4, <1>7, <1>8, <2>1
<1>11. T \subseteq Collected
  <2>1. \A i \in T : i \in Active /\ i \in Entry
    BY <1>3, <1>5
  <2> QED
    BY <1>8, <1>10, <2>1 DEF Collected
<1>12. count' < QueueCapacity => T = D
  BY <1>4, <1>7, <1>8
<1> QED
  BY <1>1, <1>3, <1>9, <1>11, <1>12

(* No timer of runtime_ui_timer_collect_due is early or late but for the   *)
(* rounds of the tick counter.                                             *)
THEOREM TimersOnTime == Spec => OnTimeUnlessWrapped
<1> DEFINE OnTime ==
      /\ \A i \in Collected : now < wanted[i] => Epoch(now) < Epoch(wanted[i])
      /\ Collected # {} /\ count' < QueueCapacity =>
           \A i \in Active \ Collected :
             now >= wanted[i] => Epoch(now) > Epoch(wanted[i])
<1>1. UiInv /\ [Next]_vars => [OnTime]_vars
  <2> SUFFICES ASSUME UiInv, Next PROVE OnTime
    OBVIOUS
  <2>1. CASE ~CollectDue
    <3>1. Collected = {}
      BY <2>1, CollectedOnlyBy
    <3> QED
      BY <3>1
  <2>2. CASE CollectDue
    <3>1. Collected \subseteq DueNow /\ (count' < QueueCapacity => Collected = DueNow)
      BY <2>2, CollectedAre
    <3>2. /\ now \in Nat /\ Tick(now) \in Nat
          /\ \A i \in Active : /\ wanted[i] \in Nat /\ Tick(wanted[i]) \in Nat
                               /\ entries[i].due = Tick(wanted[i])
      BY TickTyped DEF UiInv, Active
    <3>3. DueNow = {i \in Active : Tick(wanted[i]) <= Tick(now)}
      BY <3>2 DEF DueNow, DueAt
    <3>4. ASSUME NEW i \in Collected, now < wanted[i] PROVE Epoch(now) < Epoch(wanted[i])
      <4>1. i \in Active /\ Tick(wanted[i]) <= Tick(now)
        BY <3>1, <3>3
      <4>2. PICK w \in Nat : w = wanted[i]
        BY <3>2, <4>1
      <4>3. now <= w /\ Tick(w) <= Tick(now) /\ now < w
        BY <3>2, <3>4, <4>1, <4>2
      <4>4. Epoch(now) < Epoch(w)
        BY <3>2, <4>3, LaterRound
      <4> QED
        BY <4>2, <4>4
    <3>5. ASSUME count' < QueueCapacity, NEW i \in Active \ Collected, now >= wanted[i]
          PROVE  Epoch(now) > Epoch(wanted[i])
      <4>1. ~(Tick(wanted[i]) <= Tick(now))
        BY <3>1, <3>3, <3>5
      <4>2. PICK w \in Nat : w = wanted[i]
        BY <3>2
      <4>3. Tick(w) \in Nat
        BY <4>2, TickTyped
      <4>4. w <= now /\ Tick(now) <= Tick(w) /\ Tick(now) < Tick(w)
        BY <3>2, <3>5, <4>1, <4>2, <4>3
      <4>5. Epoch(w) < Epoch(now)
        BY <3>2, <4>4, LaterRound
      <4>6. Epoch(w) \in Nat /\ Epoch(now) \in Nat
        BY <3>2, DivMod DEF Epoch
      <4>7. Epoch(now) > Epoch(w)
        BY <4>5, <4>6
      <4> QED
        BY <4>2, <4>7
    <3> QED
      BY <3>4, <3>5
  <2> QED
    BY <2>1, <2>2
<1>2. Spec => []UiInv
  BY UiInvariant
<1> QED
  BY <1>1, <1>2, PTL DEF Spec, OnTimeUnlessWrapped
=============================================================================
