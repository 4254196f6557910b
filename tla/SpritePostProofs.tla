---------------------------- MODULE SpritePostProofs ----------------------------
(***************************************************************************)
(* Proofs about SpritePost, for any stills, videos and mattes, any          *)
(* configurations of the operations, and any number and order of them.      *)
(***************************************************************************)
EXTENDS SpritePost, FiniteSetTheorems, SequenceTheorems, WellFoundedInduction, TLAPS

-------------------------------------------------------------------------------
(* Rows and columns.                                                         *)

\* A product grows with its factors.
LEMMA Product ==
    ASSUME NEW a \in Int, NEW b \in Int, NEW c \in Nat, a <= b
    PROVE  a * c <= b * c
OBVIOUS

\* What lies in the a-th of equal parts.
LEMMA PartOf ==
    ASSUME NEW a \in Nat, NEW b \in Nat \ {0}, NEW r \in 0..(b - 1)
    PROVE  (a * b + r) \div b = a /\ (a * b + r) % b = r
OBVIOUS

\* Parts that are all inside of the whole.
LEMMA Inside ==
    ASSUME NEW k \in Nat, NEW a \in 0..(k - 1), NEW b \in Nat \ {0}, NEW r \in 0..(b - 1)
    PROVE  a * b + r \in 0..(k * b - 1)
<1>1. (a + 1) * b <= k * b
  <2>1. a + 1 \in Int /\ k \in Int /\ a + 1 <= k
    OBVIOUS
  <2> QED BY <2>1, Product
<1>2. (a + 1) * b = a * b + b
  OBVIOUS
<1>3. a * b \in Nat /\ k * b \in Nat
  OBVIOUS
<1> QED BY <1>1, <1>2, <1>3

\* Every number lies in a part.
LEMMA Part ==
    ASSUME NEW x \in Nat, NEW b \in Nat \ {0}
    PROVE  /\ x \div b \in Nat /\ x % b \in 0..(b - 1)
           /\ (x \div b) * b + (x % b) = x
<1>1. x \div b \in Int /\ x % b \in 0..(b - 1)
  OBVIOUS
<1>2. b * (x \div b) + (x % b) = x
  OBVIOUS
<1>3. x \div b \in Nat
  OBVIOUS
<1>4. (x \div b) * b = b * (x \div b)
  <2> DEFINE q == x \div b
  <2>1. q \in Int
    BY <1>1
  <2> HIDE DEF q
  <2> QED BY <2>1
<1> QED BY <1>1, <1>2, <1>3, <1>4

\* A later number lies in no earlier part.
LEMMA LaterPart ==
    ASSUME NEW x \in Nat, NEW y \in Nat, x <= y, NEW b \in Nat \ {0}
    PROVE  x \div b <= y \div b
OBVIOUS

\* Pixels have two coordinates, within the image.
LEMMA PixelsOf ==
    ASSUME NEW w, NEW h, NEW p
    PROVE  p \in Pixels(w, h) <=>
             /\ p = <<p[1], p[2]>>
             /\ p[1] \in 0..(w - 1) /\ p[2] \in 0..(h - 1)
BY DEF Pixels

-------------------------------------------------------------------------------
(* A sheet and its cells.                                                    *)

\* An image has its pixels; where its width or its height is none it has none.
IsImage(img) ==
    /\ img = [w |-> img.w, h |-> img.h, alpha |-> img.alpha, div |-> img.div, at |-> img.at,
              px |-> img.px]
    /\ img.at \in Int \X Int
    /\ img.w \in Int /\ img.h \in Int /\ img.alpha \in BOOLEAN /\ img.div \in Nat \ {0}
    /\ img.px = [p \in Pixels(img.w, img.h) |-> img.px[p]]
Images(imgs) == imgs \in Seq({imgs[i] : i \in DOMAIN imgs}) /\ imgs # <<>>

\* Cut by its metadata, a sheet gives back the frames it was made from: for any
\* number of frames, of any size, and any number of columns.
LEMMA SheetGivesBack ==
    ASSUME NEW imgs, Images(imgs), NEW columns \in Nat \ {0},
           \A i \in DOMAIN imgs : IsImage(imgs[i]) /\ imgs[i].w = imgs[1].w /\ imgs[i].h = imgs[1].h
    PROVE  LET meta_ == Metadata(imgs, columns)
           IN  /\ meta_.frame_count = Len(imgs)
               /\ \A i \in DOMAIN imgs : Cell(Stitched(imgs, columns), meta_, i) = imgs[i].px
<1> DEFINE n == Len(imgs)
           w == imgs[1].w
           h == imgs[1].h
           rows == Rows(n, columns)
           px == Stitched(imgs, columns)
           meta_ == Metadata(imgs, columns)
<1>1. n \in Nat \ {0} /\ DOMAIN imgs = 1..n
  BY LenProperties, EmptySeq DEF Images
<1>2. w \in Int /\ h \in Int
  <2>1. 1 \in DOMAIN imgs
    BY <1>1
  <2> QED BY <2>1 DEF IsImage
<1>3. /\ meta_.frame_count = n /\ meta_.columns = columns
      /\ meta_.frame_width = w /\ meta_.frame_height = h
  BY DEF Metadata
<1>4. ASSUME NEW i \in 1..n, NEW p \in Pixels(w, h)
      PROVE  LET at == <<((i - 1) % columns) * w + p[1], ((i - 1) \div columns) * h + p[2]>>
             IN  at \in DOMAIN px /\ px[at] = imgs[i].px[p]
  <2> DEFINE c == (i - 1) % columns
             r == (i - 1) \div columns
             q == <<c * w + p[1], r * h + p[2]>>
  <2>1. /\ p = <<p[1], p[2]>> /\ p[1] \in 0..(w - 1) /\ p[2] \in 0..(h - 1)
        /\ w \in Nat \ {0} /\ h \in Nat \ {0}
    <3>1. p = <<p[1], p[2]>> /\ p[1] \in 0..(w - 1) /\ p[2] \in 0..(h - 1)
      BY PixelsOf
    <3> QED BY <1>2, <3>1
  <2>2. r \in Nat /\ c \in 0..(columns - 1) /\ r * columns + c = i - 1
    <3>1. i - 1 \in Nat
      BY <1>1
    <3> QED BY <3>1, Part
  <2>3. r + 1 <= rows /\ rows \in Nat
    <3> DEFINE last == (n - 1) \div columns
               rest == (n - 1) % columns
    <3>1. n - 1 \in Nat /\ i - 1 \in Nat /\ i - 1 <= n - 1
      BY <1>1
    <3>2. last \in Nat /\ rest \in 0..(columns - 1) /\ last * columns + rest = n - 1
      BY <3>1, Part
    <3>3. r <= last
      BY <3>1, LaterPart
    <3> HIDE DEF last, rest, r
    <3>4. n + columns - 1 = (last + 1) * columns + rest
      BY <1>1, <3>2
    <3>5. rows = last + 1
      <4>1. ((last + 1) * columns + rest) \div columns = last + 1
        <5>1. last + 1 \in Nat
          BY <3>2
        <5> QED BY <3>2, <5>1, PartOf
      <4> QED BY <3>4, <4>1 DEF Rows
    <3> HIDE DEF rows
    <3> QED BY <2>2, <3>2, <3>3, <3>5
  <2>4. q[1] \in 0..(columns * w - 1) /\ q[2] \in 0..(rows * h - 1)
    <3> HIDE DEF c, r, w, h, rows
    <3>1. c * w + p[1] \in 0..(columns * w - 1)
      BY <2>1, <2>2, Inside
    <3>2. r \in 0..(rows - 1)
      BY <2>2, <2>3
    <3>3. r * h + p[2] \in 0..(rows * h - 1)
      BY <2>1, <2>3, <3>2, Inside
    <3> QED BY <3>1, <3>3
  <2>5. q \in Pixels(columns * w, rows * h)
    BY <2>4, PixelsOf
  <2>6. /\ q[1] \div w = c /\ q[1] % w = p[1]
        /\ q[2] \div h = r /\ q[2] % h = p[2]
    <3> HIDE DEF c, r, w, h
    <3> QED BY <2>1, <2>2, PartOf
  <2>7. (q[2] \div h) * columns + (q[1] \div w) + 1 = i
    <3> HIDE DEF c, r
    <3> QED BY <1>1, <2>2, <2>6
  <2>8. px[q] = IF (q[2] \div h) * columns + (q[1] \div w) + 1 \in DOMAIN imgs
                THEN imgs[(q[2] \div h) * columns + (q[1] \div w) + 1].px[<<q[1] % w, q[2] % h>>]
                ELSE Clear
    BY <2>5 DEF Stitched
  <2>10. q \in DOMAIN px
    BY <2>5 DEF Stitched
  <2> HIDE DEF q, w, h, px
  <2>9. px[q] = imgs[i].px[p]
    BY <1>1, <2>1, <2>6, <2>7, <2>8
  <2> QED BY <2>9, <2>10 DEF q
<1>5. ASSUME NEW i \in 1..n PROVE Cell(px, meta_, i) = imgs[i].px
  <2>1. imgs[i].px = [p \in Pixels(w, h) |-> imgs[i].px[p]]
    BY <1>1, <1>5 DEF IsImage
  <2> HIDE DEF px, meta_, w, h
  <2>2. ASSUME NEW p \in Pixels(w, h)
        PROVE  InSheet(meta_, i, p) \in DOMAIN px /\ px[InSheet(meta_, i, p)] = imgs[i].px[p]
    BY <1>3, <1>4 DEF InSheet
  <2>3. {p \in Pixels(w, h) : InSheet(meta_, i, p) \in DOMAIN px} = Pixels(w, h)
    BY <2>2
  <2>4. Cell(px, meta_, i) = [p \in Pixels(w, h) |-> px[InSheet(meta_, i, p)]]
    BY <1>3, <2>3 DEF Cell
  <2> QED BY <2>1, <2>2, <2>4
<1> QED BY <1>1, <1>3, <1>5

-------------------------------------------------------------------------------
(* The box around what is visible, and what is centred by it.                *)

\* A finite set of numbers has a greatest member, and a least one.
LEMMA FiniteMax ==
    ASSUME NEW S \in SUBSET Int, IsFiniteSet(S), S # {}
    PROVE  Max(S) \in S /\ \A y \in S : y <= Max(S)
<1> DEFINE Above(x) == {y \in S : y > x}
           Sets == {Above(x) : x \in S}
<1>1. Sets \subseteq FiniteSubsetsOf(S) /\ Sets # {}
  <2>1. \A x \in S : Above(x) \in SUBSET S /\ IsFiniteSet(Above(x))
    BY FS_Subset
  <2> HIDE DEF Above
  <2> QED BY <2>1 DEF FiniteSubsetsOf
<1>2. PICK T \in Sets : \A U \in Sets : ~ (<<U, T>> \in StrictSubsetOrdering(S))
  <2> HIDE DEF Sets
  <2> QED BY <1>1, FS_StrictSubsetOrderingWellFounded, WFMin
<1>3. PICK m \in S : T = Above(m)
  BY <1>2
<1>4. ASSUME NEW y \in S, y > m PROVE FALSE
  <2>1. Above(y) \in Sets /\ Above(y) \subseteq Above(m)
    <3>1. y \in Int /\ m \in Int /\ S \subseteq Int
      OBVIOUS
    <3>2. \A x \in Above(y) : x \in Above(m)
      <4> TAKE x \in Above(y)
      <4>1. x \in S /\ x \in Int /\ x > y
        BY <3>1
      <4>2. x > m
        BY <1>4, <3>1, <4>1
      <4> QED BY <4>1, <4>2
    <3> HIDE DEF Above
    <3> QED BY <1>4, <3>2
  <2>2. y \in Above(m) /\ y \notin Above(y)
    BY <1>4
  <2>3. Above(y) \in SUBSET S /\ Above(m) \in SUBSET S
    OBVIOUS
  <2> HIDE DEF Above, Sets
  <2>4. <<Above(y), Above(m)>> \in StrictSubsetOrdering(S)
    BY <2>1, <2>2, <2>3 DEF StrictSubsetOrdering
  <2> QED BY <1>2, <1>3, <2>1, <2>4
<1>5. \A y \in S : m >= y
  BY <1>4
<1>6. Max(S) \in S /\ \A y \in S : Max(S) >= y
  BY <1>5 DEF Max
<1> QED BY <1>6

LEMMA FiniteMin ==
    ASSUME NEW S \in SUBSET Int, IsFiniteSet(S), S # {}
    PROVE  Min(S) \in S /\ \A y \in S : Min(S) <= y
<1> DEFINE Below(x) == {y \in S : y < x}
           Sets == {Below(x) : x \in S}
<1>1. Sets \subseteq FiniteSubsetsOf(S) /\ Sets # {}
  <2>1. \A x \in S : Below(x) \in SUBSET S /\ IsFiniteSet(Below(x))
    BY FS_Subset
  <2> HIDE DEF Below
  <2> QED BY <2>1 DEF FiniteSubsetsOf
<1>2. PICK T \in Sets : \A U \in Sets : ~ (<<U, T>> \in StrictSubsetOrdering(S))
  <2> HIDE DEF Sets
  <2> QED BY <1>1, FS_StrictSubsetOrderingWellFounded, WFMin
<1>3. PICK m \in S : T = Below(m)
  BY <1>2
<1>4. ASSUME NEW y \in S, y < m PROVE FALSE
  <2>1. Below(y) \in Sets /\ Below(y) \subseteq Below(m)
    <3>1. y \in Int /\ m \in Int /\ S \subseteq Int
      OBVIOUS
    <3>2. \A x \in Below(y) : x \in Below(m)
      <4> TAKE x \in Below(y)
      <4>1. x \in S /\ x \in Int /\ x < y
        BY <3>1
      <4>2. x < m
        BY <1>4, <3>1, <4>1
      <4> QED BY <4>1, <4>2
    <3> HIDE DEF Below
    <3> QED BY <1>4, <3>2
  <2>2. y \in Below(m) /\ y \notin Below(y)
    BY <1>4
  <2>3. Below(y) \in SUBSET S /\ Below(m) \in SUBSET S
    OBVIOUS
  <2> HIDE DEF Below, Sets
  <2>4. <<Below(y), Below(m)>> \in StrictSubsetOrdering(S)
    BY <2>1, <2>2, <2>3 DEF StrictSubsetOrdering
  <2> QED BY <1>2, <1>3, <2>1, <2>4
<1>5. \A y \in S : m <= y
  BY <1>4
<1> QED BY <1>5 DEF Min

\* An image has finitely many pixels.
LEMMA FinitePixels ==
    ASSUME NEW w \in Int, NEW h \in Int
    PROVE  IsFiniteSet(Pixels(w, h))
<1>1. IsFiniteSet(0..(w - 1)) /\ IsFiniteSet(0..(h - 1))
  BY FS_Interval
<1> QED BY <1>1, FS_Product DEF Pixels

\* The coordinates of a finite set of pixels are finitely many numbers.
LEMMA FiniteCoordinates ==
    ASSUME NEW S, IsFiniteSet(S), \A p \in S : p[1] \in Int /\ p[2] \in Int
    PROVE  /\ IsFiniteSet({p[1] : p \in S}) /\ {p[1] : p \in S} \in SUBSET Int
           /\ IsFiniteSet({p[2] : p \in S}) /\ {p[2] : p \in S} \in SUBSET Int
<1> DEFINE f == [p \in S |-> p[1]]
           g == [p \in S |-> p[2]]
           X == {p[1] : p \in S}
           Y == {p[2] : p \in S}
<1>1. f \in Surjection(S, X) /\ g \in Surjection(S, Y)
  BY DEF Surjection
<1>2. X \in SUBSET Int /\ Y \in SUBSET Int
  OBVIOUS
<1> HIDE DEF f, g, X, Y
<1>3. IsFiniteSet(X) /\ IsFiniteSet(Y)
  BY <1>1, FS_Surjection
<1> QED BY <1>2, <1>3 DEF X, Y

\* The bounds of a finite set of pixels hold them all.
LEMMA BoundsHold ==
    ASSUME NEW S, IsFiniteSet(S), \A p \in S : p[1] \in Int /\ p[2] \in Int
    PROVE  LET box == Bounds(S)
           IN  /\ box.x0 \in Int /\ box.y0 \in Int /\ box.x1 \in Int /\ box.y1 \in Int
               /\ \A p \in S : /\ box.x0 <= p[1] /\ p[1] < box.x1
                               /\ box.y0 <= p[2] /\ p[2] < box.y1
<1>1. CASE S = {}
  BY <1>1 DEF Bounds, NoBox
<1>2. CASE S # {}
  <2> DEFINE X == {p[1] : p \in S}
             Y == {p[2] : p \in S}
  <2>1. /\ IsFiniteSet(X) /\ X \in SUBSET Int /\ IsFiniteSet(Y) /\ Y \in SUBSET Int
        /\ X # {} /\ Y # {} /\ \A p \in S : p[1] \in X /\ p[2] \in Y
    BY <1>2, FiniteCoordinates
  <2>2. Bounds(S) = [x0 |-> Min(X), y0 |-> Min(Y), x1 |-> Max(X) + 1, y1 |-> Max(Y) + 1]
    BY <1>2 DEF Bounds
  <2> HIDE DEF X, Y
  <2>3. /\ Max(X) \in X /\ Max(Y) \in Y /\ Min(X) \in X /\ Min(Y) \in Y
        /\ \A x \in X : Min(X) <= x /\ x <= Max(X)
        /\ \A y \in Y : Min(Y) <= y /\ y <= Max(Y)
    BY <2>1, FiniteMax, FiniteMin
  <2>4. Max(X) \in Int /\ Max(Y) \in Int /\ Min(X) \in Int /\ Min(Y) \in Int
    BY <2>1, <2>3
  <2>5. \A p \in S : /\ Min(X) <= p[1] /\ p[1] < Max(X) + 1
                     /\ Min(Y) <= p[2] /\ p[2] < Max(Y) + 1
    BY <2>1, <2>3, <2>4
  <2> QED BY <2>2, <2>4, <2>5
<1> QED BY <1>1, <1>2

\* What With stands for.
LEMMA UnionBoxIs ==
    ASSUME NEW imgs, NEW level
    PROVE  UnionBox(imgs, level) = Bounds(UNION {Content(imgs[i], level) : i \in DOMAIN imgs})
BY DEF UnionBox, With

LEMMA FittedIs ==
    ASSUME NEW img, NEW box, NEW cfg
    PROVE  Fitted(img, box, cfg) =
             IF cfg.scale = 1 THEN Centred(img, box, cfg.padding)
             ELSE LET size == Shrunk(Canvas(box, cfg.padding), cfg.scale)
                  IN Scaled(Centred(img, box, cfg.padding), size[1], size[2], cfg.scale)
BY DEF Fitted, With

LEMMA NormalizedIs ==
    ASSUME NEW imgs, NEW cfg
    PROVE  LET clean == [i \in DOMAIN imgs |-> Floored(imgs[i], cfg)]
           IN  Normalized(imgs, cfg) =
                 [i \in DOMAIN imgs |-> Fitted(clean[i], UnionBox(clean, cfg.floor), cfg)]
BY DEF Normalized, With

-------------------------------------------------------------------------------
(* Images and rows of them.                                                  *)

IsRow(f) == f = [i \in DOMAIN f |-> f[i]] /\ \E n \in Nat : DOMAIN f = 1..n

\* A row with something in it is a sequence, and has a first member.
LEMMA RowIsSequence ==
    ASSUME NEW f, IsRow(f), f # <<>>
    PROVE  Images(f) /\ 1 \in DOMAIN f
<1> DEFINE S == {f[i] : i \in DOMAIN f}
<1>1. PICK n \in Nat : DOMAIN f = 1..n
  BY DEF IsRow
<1>2. f \in [1..n -> S]
  BY <1>1 DEF IsRow
<1> HIDE DEF S
<1>3. f \in Seq(S)
  BY <1>2, SeqDef
<1>4. Len(f) = n
  BY <1>1, <1>3, LenProperties
<1>5. n # 0
  BY <1>3, <1>4, EmptySeq
<1> QED BY <1>1, <1>3, <1>5 DEF Images, S

\* No frames are a row too.
LEMMA NoRow == IsRow(NoFrames) /\ DOMAIN NoFrames = {}
<1>1. <<>> \in Seq({}) /\ Len(<<>>) = 0
  BY EmptySeq
<1>2. <<>> \in [1..0 -> {}]
  BY <1>1, LenProperties
<1> QED BY <1>2 DEF IsRow, NoFrames

\* What a video is cut into, and what a failed write leaves, are images.
LEMMA PlainImages ==
    IsImage(RawFrame) /\ IsImage(Broken) /\ Broken # RawFrame
<1>1. FrameWidth \in Nat \ {0} /\ FrameHeight \in Nat \ {0}
  BY SpriteConstants DEF SpriteConstants
<1>2. IsImage(RawFrame)
  BY <1>1 DEF IsImage, RawFrame
<1>3. Broken.w = 0 /\ RawFrame.w = FrameWidth
  BY DEF Broken, RawFrame
<1>4. Pixels(0, 0) = {}
  BY DEF Pixels
<1>5. <<>> = [p \in {} |-> <<>>[p]]
  BY NoRow DEF IsRow, NoFrames
<1>6. IsImage(Broken)
  BY <1>4, <1>5 DEF IsImage, Broken
<1> QED BY <1>1, <1>2, <1>3, <1>6

\* A matte makes an image of the same size in the same place; it cannot mend a frame,
\* nor break one.
LEMMA MattedImage ==
    ASSUME NEW img, IsImage(img), NEW mask
    PROVE  LET out == Matted(img, mask)
           IN  /\ IsImage(out) /\ out.at = img.at /\ out.div = img.div
               /\ img = Broken => out = Broken
<1>1. CASE img = Broken
  BY <1>1 DEF Matted
<1>2. CASE img # Broken
  <2> DEFINE made(p) == IF p \in DOMAIN mask THEN mask[p] ELSE Clear
             px == [p \in DOMAIN img.px |-> made(p)]
  <2>1. Matted(img, mask) = [w |-> img.w, h |-> img.h, alpha |-> TRUE, div |-> img.div,
                             at |-> img.at, px |-> px]
    BY <1>2 DEF Matted, IsImage
  <2>2. DOMAIN img.px = Pixels(img.w, img.h)
    BY DEF IsImage
  <2> HIDE DEF made
  <2>3. px = [p \in Pixels(img.w, img.h) |-> px[p]]
    BY <2>2
  <2> HIDE DEF px
  <2> QED BY <1>2, <2>1, <2>3 DEF IsImage
<1> QED BY <1>1, <1>2

\* The solid pixels of an image have whole coordinates.
LEMMA SolidPlaces ==
    ASSUME NEW img, IsImage(img)
    PROVE  SolidAt(img) \subseteq Int \X Int
<1>1. DOMAIN img.px = Pixels(img.w, img.h)
  BY DEF IsImage
<1>2. Pixels(img.w, img.h) \subseteq Int \X Int
  BY DEF IsImage, Pixels
<1> QED BY <1>1, <1>2 DEF SolidAt

-------------------------------------------------------------------------------
(* What normalize_frames makes of a row of images.                           *)

\* floorAlpha and binarizeAlpha keep the solid pixels, and only those below them go.
LEMMA FlooredImage ==
    ASSUME NEW img, IsImage(img), NEW cfg
    PROVE  LET clean == Floored(img, cfg)
           IN  /\ IsImage(clean) /\ clean.w = img.w /\ clean.h = img.h /\ clean.div = img.div
               /\ clean.at = img.at /\ SolidAt(clean) = SolidAt(img)
<1>1. CASE ~img.alpha
  BY <1>1 DEF Floored
<1>2. CASE img.alpha
  <2> DEFINE to(p) == IF (cfg.floor /\ img.px[p] = Residue) \/ (cfg.snap /\ img.px[p] # Solid)
                      THEN Clear ELSE img.px[p]
             px == [p \in DOMAIN img.px |-> to(p)]
  <2>1. Floored(img, cfg) = [w |-> img.w, h |-> img.h, alpha |-> img.alpha, div |-> img.div,
                              at |-> img.at, px |-> px]
    BY <1>2 DEF Floored, IsImage
  <2>2. \A p \in DOMAIN img.px : to(p) = Solid <=> img.px[p] = Solid
    BY DEF Residue, Solid, Clear
  <2>3. DOMAIN img.px = Pixels(img.w, img.h)
    BY DEF IsImage
  <2> HIDE DEF to
  <2>4. px = [p \in Pixels(img.w, img.h) |-> px[p]]
    BY <2>3
  <2>5. {p \in DOMAIN px : px[p] = Solid} = SolidAt(img)
    BY <2>2 DEF SolidAt
  <2> HIDE DEF px
  <2> QED BY <2>1, <2>4, <2>5 DEF IsImage, SolidAt
<1> QED BY <1>1, <1>2 DEF IsImage

\* A box of whole coordinates with all solid pixels of an image inside of it.
Holds(box, img) ==
    \A p \in SolidAt(img) : /\ box.x0 <= p[1] /\ p[1] < box.x1
                            /\ box.y0 <= p[2] /\ p[2] < box.y1
IsBox(box) == box.x0 \in Int /\ box.y0 \in Int /\ box.x1 \in Int /\ box.y1 \in Int

\* Centred, an image has its solid pixels where they were in the picture of the
\* video, and none of them is cut off; its corner moves by what only the box and
\* the padding decide.
LEMMA CentredImage ==
    ASSUME NEW img, IsImage(img), NEW box, IsBox(box), Holds(box, img), NEW padding \in Nat
    PROVE  LET out == Centred(img, box, padding)
           IN  /\ IsImage(out) /\ out.div = img.div
               /\ out.at = <<img.at[1] + box.x0 - padding, img.at[2] + box.y0 - padding>>
               /\ InVideo(out) = InVideo(img)
<1> DEFINE w == box.x1 - box.x0 + 2 * padding
           h == box.y1 - box.y0 + 2 * padding
           at(q) == <<q[1] - padding + box.x0, q[2] - padding + box.y0>>
           seen(q) == IF at(q) \in DOMAIN img.px THEN img.px[at(q)] ELSE Clear
           px == [q \in Pixels(w, h) |-> seen(q)]
           corner == <<img.at[1] + box.x0 - padding, img.at[2] + box.y0 - padding>>
<1>1. /\ w \in Int /\ h \in Int /\ box.x0 \in Int /\ box.y0 \in Int
      /\ img.at[1] \in Int /\ img.at[2] \in Int
  BY DEF IsBox, IsImage
<1>2. Centred(img, box, padding) = [w |-> w, h |-> h, alpha |-> TRUE, div |-> img.div,
                                    at |-> corner, px |-> px]
  BY DEF Centred
<1>3. \A q : seen(q) = Solid => at(q) \in SolidAt(img)
  BY DEF SolidAt, Solid, Clear
<1>4. ASSUME NEW p \in SolidAt(img)
      PROVE  LET q == <<p[1] + (padding - box.x0), p[2] + (padding - box.y0)>>
             IN  q \in Pixels(w, h) /\ seen(q) = Solid
  <2> DEFINE q == <<p[1] + (padding - box.x0), p[2] + (padding - box.y0)>>
  <2>1. p[1] \in Int /\ p[2] \in Int /\ p = <<p[1], p[2]>>
    BY SolidPlaces
  <2>2. /\ box.x0 <= p[1] /\ p[1] < box.x1 /\ box.y0 <= p[2] /\ p[2] < box.y1
        /\ box.x1 \in Int /\ box.y1 \in Int
    BY <1>4 DEF Holds, IsBox
  <2>3. q[1] \in 0..(w - 1) /\ q[2] \in 0..(h - 1)
    BY <1>1, <2>1, <2>2
  <2>4. q \in Pixels(w, h)
    <3> HIDE DEF w, h
    <3> QED BY <2>3, PixelsOf
  <2>5. at(q) = p
    <3>1. q[1] - padding + box.x0 = p[1] /\ q[2] - padding + box.y0 = p[2]
      BY <1>1, <2>1
    <3> QED BY <2>1, <3>1
  <2> HIDE DEF q, at
  <2>6. seen(q) = Solid
    BY <1>4, <2>5 DEF SolidAt
  <2> QED BY <2>4, <2>6 DEF q
<1>5. ASSUME NEW q \in Pixels(w, h)
      PROVE  /\ q[1] + corner[1] = at(q)[1] + img.at[1]
             /\ q[2] + corner[2] = at(q)[2] + img.at[2]
  <2>1. q[1] \in Int /\ q[2] \in Int
    <3> HIDE DEF w, h
    <3>1. q[1] \in 0..(w - 1) /\ q[2] \in 0..(h - 1)
      BY PixelsOf
    <3> QED BY <1>1, <3>1
  <2> QED BY <1>1, <2>1
<1>6. ASSUME NEW p \in SolidAt(img)
      PROVE  LET q == <<p[1] + (padding - box.x0), p[2] + (padding - box.y0)>>
             IN  q[1] + corner[1] = p[1] + img.at[1] /\ q[2] + corner[2] = p[2] + img.at[2]
  <2>1. p[1] \in Int /\ p[2] \in Int
    BY SolidPlaces
  <2> QED BY <1>1, <2>1
<1>7. corner \in Int \X Int
  BY <1>1
<1> HIDE DEF at, seen, corner
<1>8. DOMAIN px = Pixels(w, h) /\ \A q \in Pixels(w, h) : px[q] = seen(q)
  OBVIOUS
<1>9. px = [q \in Pixels(w, h) |-> px[q]]
  BY <1>8 DEF px
<1> HIDE DEF px, w, h
<1>10. PICK out : out = Centred(img, box, padding)
  OBVIOUS
<1>11. /\ out = [w |-> out.w, h |-> out.h, alpha |-> out.alpha, div |-> out.div, at |-> out.at,
                 px |-> out.px]
       /\ out.w = w /\ out.h = h /\ out.alpha = TRUE /\ out.div = img.div /\ out.at = corner
       /\ out.px = px
  BY <1>2, <1>10
<1>12. IsImage(out)
  <2>1. out.px = [p \in Pixels(out.w, out.h) |-> out.px[p]]
    BY <1>9, <1>11
  <2>2. img.div \in Nat \ {0}
    BY DEF IsImage
  <2>3. /\ out.w \in Int /\ out.h \in Int /\ out.alpha \in BOOLEAN /\ out.div \in Nat \ {0}
        /\ out.at \in Int \X Int
    BY <1>1, <1>7, <1>11, <2>2, Zenon
  <2> QED BY <1>11, <2>1, <2>3, Zenon DEF IsImage
<1>13. InVideo(out) = InVideo(img)
  <2>1. ASSUME NEW q \in SolidAt(out)
        PROVE  <<q[1] + out.at[1], q[2] + out.at[2]>> \in InVideo(img)
    <3>1. q \in Pixels(w, h) /\ seen(q) = Solid
      BY <1>8, <1>11 DEF SolidAt
    <3>2. at(q) \in SolidAt(img)
      BY <1>3, <3>1
    <3>3. <<q[1] + out.at[1], q[2] + out.at[2]>> = <<at(q)[1] + img.at[1], at(q)[2] + img.at[2]>>
      BY <1>5, <1>11, <3>1
    <3> QED BY <3>2, <3>3 DEF InVideo
  <2>2. ASSUME NEW p \in SolidAt(img)
        PROVE  <<p[1] + img.at[1], p[2] + img.at[2]>> \in InVideo(out)
    <3>1. PICK q : q = <<p[1] + (padding - box.x0), p[2] + (padding - box.y0)>>
      OBVIOUS
    <3>2. q \in Pixels(w, h) /\ seen(q) = Solid
      BY <1>4, <3>1
    <3>3. q \in SolidAt(out)
      BY <1>8, <1>11, <3>2 DEF SolidAt
    <3>4. q[1] + out.at[1] = p[1] + img.at[1] /\ q[2] + out.at[2] = p[2] + img.at[2]
      BY <1>6, <1>11, <3>1
    <3>5. <<q[1] + out.at[1], q[2] + out.at[2]>> = <<p[1] + img.at[1], p[2] + img.at[2]>>
      BY <3>4
    <3>6. <<q[1] + out.at[1], q[2] + out.at[2]>> \in InVideo(out)
      BY <3>3 DEF InVideo
    <3> QED BY <3>5, <3>6
  <2>3. InVideo(out) \subseteq InVideo(img)
    <3>1. \A x \in InVideo(out) : \E q \in SolidAt(out) : x = <<q[1] + out.at[1], q[2] + out.at[2]>>
      BY DEF InVideo
    <3> QED BY <2>1, <3>1
  <2>4. InVideo(img) \subseteq InVideo(out)
    <3>1. \A x \in InVideo(img) : \E p \in SolidAt(img) : x = <<p[1] + img.at[1], p[2] + img.at[2]>>
      BY DEF InVideo
    <3> QED BY <2>2, <3>1
  <2> QED BY <2>3, <2>4
<1> QED BY <1>10, <1>11, <1>12, <1>13 DEF corner

\* Scaled down, an image is one with the same corner, of a higher divisor.
LEMMA ScaledImage ==
    ASSUME NEW img, IsImage(img), NEW w \in Int, NEW h \in Int, NEW scale \in Nat \ {0}, scale # 1
    PROVE  LET out == Scaled(img, w, h, scale)
           IN  IsImage(out) /\ out.at = img.at /\ out.div # 1
<1> DEFINE seen(q) == Max({img.px[p] : p \in {p \in DOMAIN img.px :
                        <<(p[1] * w) \div img.w, (p[2] * h) \div img.h>> = q}})
           px == [q \in Pixels(w, h) |-> seen(q)]
<1>1. PICK out : out = Scaled(img, w, h, scale)
  OBVIOUS
<1>2. out = [w |-> w, h |-> h, alpha |-> TRUE, div |-> img.div * scale, at |-> img.at, px |-> px]
  BY <1>1 DEF Scaled
<1> HIDE DEF seen
<1>3. px = [p \in Pixels(w, h) |-> px[p]]
  OBVIOUS
<1> HIDE DEF px
<1>4. img.div * scale \in Nat \ {0} /\ img.div * scale # 1
  <2>1. PICK k \in Nat \ {0} : k = img.div
    BY DEF IsImage
  <2>2. k * scale \in Nat /\ k * scale >= 1 * scale
    <3>1. k \in Int /\ 1 \in Int /\ 1 <= k /\ scale \in Nat
      OBVIOUS
    <3> QED BY <3>1, Product
  <2> QED BY <2>1, <2>2
<1>5. /\ out = [w |-> out.w, h |-> out.h, alpha |-> out.alpha, div |-> out.div, at |-> out.at,
                px |-> out.px]
      /\ out.w = w /\ out.h = h /\ out.alpha = TRUE /\ out.div = img.div * scale
      /\ out.at = img.at /\ out.px = px
  BY <1>2
<1>6. out.px = [p \in Pixels(out.w, out.h) |-> out.px[p]]
  BY <1>3, <1>5
<1>7. /\ out.w \in Int /\ out.h \in Int /\ out.alpha \in BOOLEAN /\ out.div \in Nat \ {0}
      /\ out.at \in Int \X Int
  BY <1>4, <1>5, Zenon DEF IsImage
<1>8. IsImage(out)
  BY <1>5, <1>6, <1>7, Zenon DEF IsImage
<1> QED BY <1>1, <1>4, <1>5, <1>8

\* Solid pixels are content, at either level, and there are finitely many pixels.
LEMMA ContentHolds ==
    ASSUME NEW img, IsImage(img), NEW floor
    PROVE  /\ SolidAt(img) \subseteq Content(img, floor)
           /\ IsFiniteSet(Content(img, floor))
           /\ \A p \in Content(img, floor) : p[1] \in Int /\ p[2] \in Int
<1>1. DOMAIN img.px = Pixels(img.w, img.h) /\ img.w \in Int /\ img.h \in Int
  BY DEF IsImage
<1>2. IsFiniteSet(DOMAIN img.px)
  BY <1>1, FinitePixels
<1>3. Content(img, floor) \subseteq DOMAIN img.px
  BY DEF Content
<1>4. IsFiniteSet(Content(img, floor))
  BY <1>2, <1>3, FS_Subset
<1>5. Pixels(img.w, img.h) \subseteq Int \X Int
  BY <1>1 DEF Pixels
<1>6. SolidAt(img) \subseteq Content(img, floor)
  BY DEF SolidAt, Content, Solid, Residue, Clear
<1> QED BY <1>1, <1>3, <1>4, <1>5, <1>6

\* The box of all holds the solid pixels of each.
LEMMA UnionBoxHolds ==
    ASSUME NEW imgs, IsRow(imgs), \A i \in DOMAIN imgs : IsImage(imgs[i]), NEW floor
    PROVE  LET box == UnionBox(imgs, floor)
           IN  IsBox(box) /\ \A i \in DOMAIN imgs : Holds(box, imgs[i])
<1> DEFINE All == {Content(imgs[i], floor) : i \in DOMAIN imgs}
<1>1. PICK n \in Nat : DOMAIN imgs = 1..n
  BY DEF IsRow
<1>2. \A i \in DOMAIN imgs :
        /\ SolidAt(imgs[i]) \subseteq Content(imgs[i], floor)
        /\ IsFiniteSet(Content(imgs[i], floor))
        /\ \A p \in Content(imgs[i], floor) : p[1] \in Int /\ p[2] \in Int
  BY ContentHolds
<1>3. IsFiniteSet(All)
  <2> DEFINE f == [i \in DOMAIN imgs |-> Content(imgs[i], floor)]
  <2>1. f \in Surjection(DOMAIN imgs, All)
    BY DEF Surjection
  <2>2. IsFiniteSet(DOMAIN imgs)
    BY <1>1, FS_Interval
  <2> HIDE DEF f, All
  <2> QED BY <2>1, <2>2, FS_Surjection
<1>4. \A C \in All : IsFiniteSet(C)
  BY <1>2
<1>5. IsFiniteSet(UNION All)
  <2> HIDE DEF All
  <2> QED BY <1>3, <1>4, FS_UNION
<1>6. \A p \in UNION All : p[1] \in Int /\ p[2] \in Int
  BY <1>2
<1>7. \A i \in DOMAIN imgs : SolidAt(imgs[i]) \subseteq UNION All
  BY <1>2
<1>8. UnionBox(imgs, floor) = Bounds(UNION All)
  BY UnionBoxIs
<1> HIDE DEF All
<1>9. LET box == Bounds(UNION All)
      IN  /\ box.x0 \in Int /\ box.y0 \in Int /\ box.x1 \in Int /\ box.y1 \in Int
          /\ \A p \in UNION All : /\ box.x0 <= p[1] /\ p[1] < box.x1
                                  /\ box.y0 <= p[2] /\ p[2] < box.y1
  BY <1>5, <1>6, BoundsHold
<1> QED BY <1>7, <1>8, <1>9 DEF IsBox, Holds

\* All of a row have their corner in one place; unless they are scaled down, the
\* images of one row show the subject where those of another do.
OneCorner(imgs) == \A i, j \in DOMAIN imgs : imgs[i].at = imgs[j].at
KeepsPlace(from, to) ==
    \A i \in DOMAIN from : to[i].div = 1 => from[i].div = 1 /\ InVideo(to[i]) = InVideo(from[i])

\* normalize_frames makes images of images; their corners stay together, and the
\* subject stays where it was in all that it does not scale down.
LEMMA NormalizedImages ==
    ASSUME NEW imgs, IsRow(imgs), \A i \in DOMAIN imgs : IsImage(imgs[i]),
           NEW cfg, cfg.padding \in Nat, cfg.scale \in Nat \ {0}
    PROVE  LET out == Normalized(imgs, cfg)
           IN  /\ IsRow(out) /\ DOMAIN out = DOMAIN imgs
               /\ \A i \in DOMAIN imgs : IsImage(out[i])
               /\ OneCorner(imgs) => OneCorner(out)
               /\ KeepsPlace(imgs, out)
<1> DEFINE clean == [i \in DOMAIN imgs |-> Floored(imgs[i], cfg)]
           box == UnionBox(clean, cfg.floor)
           fit(i) == Fitted(clean[i], box, cfg)
           corner(at) == <<at[1] + box.x0 - cfg.padding, at[2] + box.y0 - cfg.padding>>
<1>1. \A i \in DOMAIN imgs : /\ IsImage(clean[i]) /\ clean[i].div = imgs[i].div
                             /\ clean[i].at = imgs[i].at
                             /\ InVideo(clean[i]) = InVideo(imgs[i])
  BY FlooredImage DEF InVideo
<1>2. IsRow(clean) /\ DOMAIN clean = DOMAIN imgs
  BY DEF IsRow
<1>3. Normalized(imgs, cfg) = [i \in DOMAIN imgs |-> fit(i)]
  BY NormalizedIs
<1> HIDE DEF clean
<1>4. IsBox(box) /\ \A i \in DOMAIN imgs : Holds(box, clean[i])
  BY <1>1, <1>2, UnionBoxHolds
<1> HIDE DEF box
<1> DEFINE mid(i) == Centred(clean[i], box, cfg.padding)
<1>5. \A i \in DOMAIN imgs :
        /\ IsImage(mid(i)) /\ mid(i).div = imgs[i].div /\ mid(i).at = corner(imgs[i].at)
        /\ InVideo(mid(i)) = InVideo(imgs[i])
  <2> TAKE i \in DOMAIN imgs
  <2>1. PICK img : img = clean[i]
    OBVIOUS
  <2>2. PICK padding \in Nat : padding = cfg.padding
    OBVIOUS
  <2>3. IsImage(img) /\ IsBox(box) /\ Holds(box, img)
    BY <1>1, <1>4, <2>1
  <2>4. LET out == Centred(img, box, padding)
        IN  /\ IsImage(out) /\ out.div = img.div
            /\ out.at = <<img.at[1] + box.x0 - padding, img.at[2] + box.y0 - padding>>
            /\ InVideo(out) = InVideo(img)
    BY <2>3, CentredImage
  <2> QED BY <1>1, <2>1, <2>2, <2>4
<1> HIDE DEF corner
<1>6. ASSUME NEW i \in DOMAIN imgs
      PROVE  /\ IsImage(fit(i)) /\ fit(i).at = corner(imgs[i].at)
             /\ fit(i).div = 1 => imgs[i].div = 1 /\ InVideo(fit(i)) = InVideo(imgs[i])
  <2> HIDE DEF mid
  <2>1. CASE cfg.scale = 1
    <3>1. fit(i) = mid(i)
      BY <2>1, FittedIs DEF mid
    <3> HIDE DEF fit
    <3> QED BY <1>5, <3>1
  <2>2. CASE cfg.scale # 1
    <3> DEFINE size == Shrunk(Canvas(box, cfg.padding), cfg.scale)
    <3>1. fit(i) = Scaled(mid(i), size[1], size[2], cfg.scale)
      BY <2>2, FittedIs DEF mid
    <3>2. size[1] \in Int /\ size[2] \in Int
      <4>1. box.x1 - box.x0 + 2 * cfg.padding \in Int /\ box.y1 - box.y0 + 2 * cfg.padding \in Int
        BY <1>4 DEF IsBox
      <4>2. \A x \in Int, k \in Nat \ {0} : x \div k \in Int
        OBVIOUS
      <4> QED BY <4>1, <4>2 DEF Shrunk, Canvas
    <3> HIDE DEF fit, size
    <3>3. IsImage(fit(i)) /\ fit(i).at = mid(i).at /\ fit(i).div # 1
      BY <1>5, <2>2, <3>1, <3>2, ScaledImage
    <3> QED BY <1>5, <3>3
  <2> QED BY <2>1, <2>2
<1> HIDE DEF fit
<1>7. PICK out : out = Normalized(imgs, cfg)
  OBVIOUS
<1>8. out = [i \in DOMAIN imgs |-> out[i]] /\ DOMAIN out = DOMAIN imgs
      /\ \A i \in DOMAIN imgs : out[i] = fit(i)
  BY <1>3, <1>7
<1>9. IsRow(out)
  BY <1>8 DEF IsRow
<1>10. OneCorner(imgs) => OneCorner(out)
  BY <1>6, <1>8 DEF OneCorner
<1>11. KeepsPlace(imgs, out)
  BY <1>6, <1>8 DEF KeepsPlace
<1> QED BY <1>6, <1>7, <1>8, <1>9, <1>10, <1>11

-------------------------------------------------------------------------------
(* The invariant.                                                            *)

\* Frames are images; there are some only of a video, and none before it is saved.
FramesTyped ==
    /\ artifact.kind \in {"none", "video", "still"}
    /\ pc \in {"request", "polling", "save"} => shown = NoFrames /\ frames = NoFrames
    /\ IsRow(frames) /\ \A i \in DOMAIN frames : IsImage(frames[i])
    /\ frames # NoFrames => artifact.kind = "video"

\* A sheet being made is made of frames of one size, and its metadata is theirs;
\* once it is written they match.
StitchInv ==
    /\ pc \in {"sheet", "video"} => Stitchable /\ meta.state = "whole"
    /\ pc = "sheet" => did.cfg[1] \in ColumnCounts /\ meta.is = Metadata(frames, did.cfg[1])
    /\ pc = "video" => sheet.state = "whole" /\ stitched = frames /\ Matches

\* But for the moment between the two writes, a death in it, and metadata left beside
\* another sheet, a whole sheet and whole metadata match.
MatchInv == pc \notin {"sheet", "dead"} /\ Described /\ ~apart => Matches

\* Once the video is gone the sheet is there, it matches its metadata, and nothing is
\* left to remake it of.
KeptInv ==
    shown # NoFrames /\ artifact.kind # "video" =>
        Described /\ Matches /\ frames = NoFrames /\ pc \notin {"extract", "sheet", "video"}

\* Frames are extracted of a video.
ExtractInv == pc = "extract" => artifact.kind = "video"

SheetInv == FramesTyped /\ StitchInv /\ MatchInv /\ KeptInv /\ ExtractInv

\* The frames have their corner in one place of the picture and show the subject
\* there where the last matte left it; unless one cannot be read, or a pass stopped.
PlaceInv ==
    frames # NoFrames =>
        /\ DOMAIN shown = DOMAIN frames
        /\ Readable /\ ~torn => OneCorner(frames) /\ KeepsPlace(shown, frames)

\* What an earlier call left matches, unless it died between its two writes.
LEMMA InitSheet == Init => SheetInv
<1> SUFFICES ASSUME Init PROVE SheetInv
  OBVIOUS
<1>1. /\ pc = "request" /\ artifact = NoArtifact /\ frames = NoFrames /\ shown = NoFrames
      /\ artifact.kind = "none"
  BY DEF Init, NoArtifact
<1>2. FramesTyped /\ StitchInv /\ KeptInv /\ ExtractInv
  BY <1>1, NoRow DEF FramesTyped, StitchInv, KeptInv, ExtractInv
<1>3. MatchInv
  <2>1. CASE sheet = NoFile
    BY <2>1 DEF MatchInv, Described, NoFile
  <2>2. CASE apart
    BY <2>2 DEF MatchInv
  <2>3. CASE /\ sheet = [state |-> "whole", px |-> Stitched(Earlier, 2)]
             /\ meta = [state |-> "whole", is |-> Metadata(Earlier, 2)]
             /\ stitched = Earlier
    <3>1. PICK rows : rows = Earlier
      OBVIOUS
    <3>2. rows = <<RawFrame, RawFrame>> /\ DOMAIN rows = 1..2 /\ rows # <<>>
          /\ \A i \in DOMAIN rows : rows[i] = RawFrame
      BY <3>1 DEF Earlier
    <3>3. Images(rows) /\ IsImage(RawFrame)
      <4>1. rows = [i \in DOMAIN rows |-> rows[i]]
        BY <3>2
      <4>2. IsRow(rows)
        BY <3>2, <4>1 DEF IsRow
      <4> QED BY <3>2, <4>2, RowIsSequence, PlainImages
    <3>4. \A i \in DOMAIN rows : IsImage(rows[i]) /\ rows[i].w = rows[1].w /\ rows[i].h = rows[1].h
      BY <3>2, <3>3
    <3>5. LET is == Metadata(rows, 2)
          IN  /\ is.frame_count = Len(rows)
              /\ \A i \in DOMAIN rows : Cell(Stitched(rows, 2), is, i) = rows[i].px
      BY <3>3, <3>4, SheetGivesBack
    <3>6. sheet.px = Stitched(rows, 2) /\ meta.is = Metadata(rows, 2) /\ stitched = rows
      BY <2>3, <3>1
    <3> QED BY <3>5, <3>6 DEF MatchInv, Matches
  <2> QED BY <2>1, <2>2, <2>3 DEF Init
<1> QED BY <1>2, <1>3 DEF SheetInv

\* Steps that leave the frames, the sheet, the metadata and the kind of the file.
Settles ==
    /\ frames' = frames /\ sheet' = sheet /\ meta' = meta /\ shown' = shown
    /\ stitched' = stitched /\ apart' = apart /\ artifact'.kind = artifact.kind
    /\ pc' \in {"sheet", "video"} => pc' = pc /\ did' = did
    /\ pc' = "extract" => artifact.kind = "video"
    /\ pc' \in {"request", "polling", "save"} => pc \in {"request", "polling", "save"}
    /\ pc \in {"sheet", "dead"} => pc' \in {"sheet", "dead"}

LEMMA SettledSheet == SheetInv /\ Settles => SheetInv'
<1> SUFFICES ASSUME SheetInv, Settles PROVE SheetInv'
  OBVIOUS
<1>1. FramesTyped'
  BY DEF SheetInv, Settles, FramesTyped
<1>2. StitchInv'
  BY DEF SheetInv, Settles, StitchInv, Stitchable, Readable, Matches
<1>3. MatchInv'
  BY DEF SheetInv, Settles, MatchInv, Matches, Described
<1>4. KeptInv'
  BY DEF SheetInv, Settles, KeptInv, Described, Matches
<1>5. ExtractInv'
  BY DEF Settles, ExtractInv
<1> QED BY <1>1, <1>2, <1>3, <1>4, <1>5 DEF SheetInv

\* Steps that change the frames of a video that is there, between two writes.
Redraws ==
    /\ pc \in {"ops", "extract", "sidecar"} /\ pc' = "ops"
    /\ artifact.kind = "video" /\ artifact' = artifact
    /\ sheet' = sheet /\ meta' = meta /\ stitched' = stitched /\ apart' = apart
    /\ IsRow(frames') /\ \A i \in DOMAIN frames' : IsImage(frames'[i])

LEMMA RedrawnSheet == SheetInv /\ Redraws => SheetInv'
<1> SUFFICES ASSUME SheetInv, Redraws PROVE SheetInv'
  OBVIOUS
<1>1. FramesTyped'
  BY DEF Redraws, FramesTyped
<1>2. StitchInv'
  BY DEF Redraws, StitchInv
<1>3. MatchInv'
  BY DEF SheetInv, Redraws, MatchInv, Matches, Described
<1>4. KeptInv' /\ ExtractInv'
  BY DEF Redraws, KeptInv, ExtractInv
<1> QED BY <1>1, <1>2, <1>3, <1>4 DEF SheetInv

\* The frames go, and the video stays: a sheet and its metadata, if both are
\* whole, are the ones from before, or known to be of two passes.
Discards ==
    /\ pc \notin {"dead"} /\ pc' = "ops"
    /\ frames' = NoFrames /\ artifact.kind = "video" /\ artifact' = artifact
    /\ Described' /\ ~apart' =>
         pc # "sheet" /\ sheet' = sheet /\ meta' = meta /\ stitched' = stitched /\ ~apart

LEMMA DiscardedSheet == SheetInv /\ Discards => SheetInv'
<1> SUFFICES ASSUME SheetInv, Discards PROVE SheetInv'
  OBVIOUS
<1>1. FramesTyped'
  BY NoRow DEF Discards, FramesTyped
<1>2. StitchInv'
  BY DEF Discards, StitchInv
<1>3. MatchInv'
  BY DEF SheetInv, Discards, MatchInv, Matches, Described
<1>4. KeptInv' /\ ExtractInv'
  BY DEF Discards, KeptInv, ExtractInv
<1> QED BY <1>1, <1>2, <1>3, <1>4 DEF SheetInv

\* Every step that leaves the frames and the sheet alone.
LEMMA QuietSettles ==
    ASSUME SheetInv,
           \/ Request \/ Poll \/ GiveUp \/ Respond \/ Skip
           \/ ChromaKey \/ BinarizeAlpha \/ PlateSpeckCleanup
           \/ StartExtract \/ StartSidecar \/ SidecarFails \/ BiRefNetMatte
           \/ CheckFrameConsistency \/ ChildExits \/ ChildReleases \/ Crash \/ UNCHANGED vars
    PROVE  Settles
<1>1. ASSUME Request \/ Poll \/ GiveUp \/ Respond PROVE Settles
  BY <1>1 DEF Request, Poll, GiveUp, Respond, Settles, files, history
<1>2. ASSUME Skip PROVE Settles
  BY <1>2 DEF Skip, Ends, Settles, files, history
<1>3. ASSUME ChromaKey \/ BinarizeAlpha \/ PlateSpeckCleanup PROVE Settles
  <2>1. PICK op, cfg, px : Replace(op, cfg, px)
    BY <1>3 DEF ChromaKey, BinarizeAlpha, PlateSpeckCleanup
  <2> HIDE DEF Replace
  <2>2. artifact'.kind = artifact.kind
    BY <2>1 DEF Replace
  <2> QED BY <2>1, <2>2 DEF Replace, Ends, Settles, history
<1>4. ASSUME StartExtract \/ StartSidecar PROVE Settles
  BY <1>4 DEF StartExtract, StartSidecar, Begin, Settles, files, history
<1>5. ASSUME SidecarFails \/ CheckFrameConsistency PROVE Settles
  BY <1>5 DEF SidecarFails, CheckFrameConsistency, SidecarEnds, Settles, files, history
<1>6. ASSUME BiRefNetMatte PROVE Settles
  <2>1. artifact'.kind = artifact.kind
    BY <1>6 DEF BiRefNetMatte
  <2> QED BY <1>6, <2>1 DEF BiRefNetMatte, SidecarEnds, Settles, history
<1>7. ASSUME ChildExits \/ ChildReleases \/ UNCHANGED vars PROVE Settles
  BY <1>7 DEF ChildExits, ChildReleases, vars, Settles, files, history, SheetInv, ExtractInv
<1>8. ASSUME Crash PROVE Settles
  BY <1>8 DEF Crash, Settles, files, history
<1> QED BY <1>1, <1>2, <1>3, <1>4, <1>5, <1>6, <1>7, <1>8

\* Frames over which masks are laid stay images, in their place, and unreadable ones
\* stay so.
LEMMA OverlaidImages ==
    ASSUME SheetInv, NEW masks
    PROVE  /\ DOMAIN Overlaid(masks) = DOMAIN frames
           /\ \A i \in DOMAIN frames :
                /\ IsImage(Overlaid(masks)[i]) /\ Overlaid(masks)[i].at = frames[i].at
                /\ frames[i] = Broken => Overlaid(masks)[i] = Broken
                /\ i \notin DOMAIN masks => Overlaid(masks)[i] = frames[i]
<1>1. \A i \in DOMAIN frames : IsImage(frames[i])
  BY DEF SheetInv, FramesTyped
<1>2. \A i \in DOMAIN frames :
        LET out == Matted(frames[i], masks[i])
        IN  /\ IsImage(out) /\ out.at = frames[i].at
            /\ frames[i] = Broken => out = Broken
  BY <1>1, MattedImage
<1> QED BY <1>1, <1>2 DEF Overlaid

\* What a matte makes of the frames: masks over some of them, and maybe one left broken.
LEMMA MatteCases ==
    ASSUME SheetInv, VideoMatte \/ MatteBreaks
    PROVE  \E masks :
             /\ shown' = Shows(masks)
             /\ \/ frames' = Overlaid(masks)
                \/ \E k \in DOMAIN frames :
                     frames' = [Overlaid(masks) EXCEPT ![k] = Broken]
<1>1. CASE VideoMatte
  BY <1>1 DEF VideoMatte
<1>2. CASE MatteBreaks
  <2>1. PICK k \in DOMAIN frames : \E made \in SUBSET {i \in DOMAIN frames : i < k} :
          \E masks \in [made -> Masks], left \in {frames[k], Broken} :
            frames' = [Overlaid(masks) EXCEPT ![k] = left] /\ shown' = Shows(masks)
    BY <1>2 DEF MatteBreaks
  <2>2. PICK made \in SUBSET {i \in DOMAIN frames : i < k} :
          \E masks \in [made -> Masks], left \in {frames[k], Broken} :
            frames' = [Overlaid(masks) EXCEPT ![k] = left] /\ shown' = Shows(masks)
    BY <2>1
  <2>3. PICK masks \in [made -> Masks], left \in {frames[k], Broken} :
            frames' = [Overlaid(masks) EXCEPT ![k] = left] /\ shown' = Shows(masks)
    BY <2>2
  <2>4. CASE left = Broken
    BY <2>3, <2>4
  <2>5. CASE left = frames[k]
    <3>1. k \in Nat
      BY DEF SheetInv, FramesTyped, IsRow
    <3>2. k \notin DOMAIN masks
      BY <3>1
    <3>3. Overlaid(masks)[k] = frames[k]
      BY <3>2, OverlaidImages
    <3>4. Overlaid(masks) = [i \in DOMAIN frames |-> Overlaid(masks)[i]]
      BY DEF Overlaid
    <3>5. PICK laid : laid = Overlaid(masks)
      OBVIOUS
    <3>6. [laid EXCEPT ![k] = laid[k]] = laid
      BY <3>4, <3>5
    <3>7. frames' = Overlaid(masks)
      BY <2>3, <2>5, <3>3, <3>5, <3>6
    <3> QED BY <2>3, <3>7
  <2> QED BY <2>4, <2>5
<1> QED BY <1>1, <1>2

\* The frames after a matte, whole or broken off, are images.
LEMMA MatteRedraws ==
    ASSUME SheetInv, VideoMatte \/ MatteBreaks
    PROVE  Redraws
<1>1. /\ pc = "sidecar" /\ pc' = "ops" /\ artifact' = artifact
      /\ sheet' = sheet /\ meta' = meta /\ stitched' = stitched /\ apart' = apart
  BY DEF VideoMatte, MatteBreaks, SidecarEnds
<1>2. /\ frames # NoFrames /\ IsRow(frames) /\ artifact.kind = "video"
  BY DEF SheetInv, FramesTyped, VideoMatte, MatteBreaks
<1>3. PICK masks :
        \/ frames' = Overlaid(masks)
        \/ \E k \in DOMAIN frames : frames' = [Overlaid(masks) EXCEPT ![k] = Broken]
  BY MatteCases
<1>4. PICK laid : laid = Overlaid(masks)
  OBVIOUS
<1>5. /\ DOMAIN laid = DOMAIN frames /\ laid = [i \in DOMAIN frames |-> laid[i]]
      /\ \A i \in DOMAIN frames : IsImage(laid[i])
  BY <1>4, OverlaidImages DEF Overlaid
<1>6. /\ DOMAIN frames' = DOMAIN frames /\ frames' = [i \in DOMAIN frames' |-> frames'[i]]
      /\ \A i \in DOMAIN frames : IsImage(frames'[i])
  <2>1. CASE frames' = laid
    BY <1>5, <2>1
  <2>2. ASSUME NEW k \in DOMAIN frames, frames' = [laid EXCEPT ![k] = Broken]
        PROVE  /\ DOMAIN frames' = DOMAIN frames /\ frames' = [i \in DOMAIN frames' |-> frames'[i]]
               /\ \A i \in DOMAIN frames : IsImage(frames'[i])
    <3>1. DOMAIN frames' = DOMAIN frames /\ frames' = [i \in DOMAIN frames' |-> frames'[i]]
      BY <1>5, <2>2
    <3>2. \A i \in DOMAIN frames : frames'[i] = IF i = k THEN Broken ELSE laid[i]
      BY <1>5, <2>2
    <3> QED BY <1>5, <3>1, <3>2, PlainImages
  <2> QED BY <1>3, <1>4, <2>1, <2>2
<1>7. IsRow(frames')
  BY <1>2, <1>6 DEF IsRow
<1> QED BY <1>1, <1>2, <1>6, <1>7 DEF Redraws

\* What normalize_frames does to the frames: nothing, all of them, or some before
\* one that cannot be written.
LEMMA NormalizeCases ==
    ASSUME NormalizeFrames
    PROVE  \/ frames' = frames /\ torn' = torn
           \/ \E cfg \in NormalizeConfigs :
                \/ frames' = Normal(cfg) /\ torn' = torn
                \/ \E k \in DOMAIN frames : \E left \in {frames[k], Broken} :
                     /\ frames' = [i \in DOMAIN frames |->
                                      IF i < k THEN Normal(cfg)[i]
                                      ELSE IF i = k THEN left ELSE frames[i]]
                     /\ torn' = (torn \/ (left # Broken /\ k # 1))
BY DEF NormalizeFrames

\* What a configuration makes of the frames.
LEMMA NormalIs ==
    ASSUME SheetInv, NEW cfg \in NormalizeConfigs
    PROVE  /\ IsRow(Normal(cfg)) /\ DOMAIN Normal(cfg) = DOMAIN frames
           /\ \A i \in DOMAIN frames : IsImage(Normal(cfg)[i])
           /\ OneCorner(frames) => OneCorner(Normal(cfg))
           /\ KeepsPlace(frames, Normal(cfg))
<1>1. cfg.padding \in Nat /\ cfg.scale \in Nat \ {0}
  BY SpriteConstants DEF SpriteConstants
<1>2. IsRow(frames) /\ \A i \in DOMAIN frames : IsImage(frames[i])
  BY DEF SheetInv, FramesTyped
<1>3. PICK imgs : imgs = frames
  OBVIOUS
<1>4. LET out == Normalized(imgs, cfg)
      IN  /\ IsRow(out) /\ DOMAIN out = DOMAIN imgs
          /\ \A i \in DOMAIN imgs : IsImage(out[i])
          /\ OneCorner(imgs) => OneCorner(out)
          /\ KeepsPlace(imgs, out)
  <2>1. IsRow(imgs) /\ \A i \in DOMAIN imgs : IsImage(imgs[i])
    BY <1>2, <1>3
  <2> QED BY <1>1, <2>1, NormalizedImages
<1> QED BY <1>3, <1>4 DEF Normal

\* Frames after normalize_frames are images too.
LEMMA NormalizeRedraws ==
    ASSUME SheetInv, NormalizeFrames
    PROVE  Redraws
<1>1. /\ pc = "ops" /\ pc' = "ops" /\ artifact' = artifact
      /\ sheet' = sheet /\ meta' = meta /\ stitched' = stitched /\ apart' = apart
  BY DEF NormalizeFrames, Ends
<1>2. /\ frames # NoFrames /\ IsRow(frames) /\ artifact.kind = "video"
      /\ \A i \in DOMAIN frames : IsImage(frames[i])
  BY DEF SheetInv, FramesTyped, NormalizeFrames
<1>3. IsRow(frames') /\ \A i \in DOMAIN frames' : IsImage(frames'[i])
  <2>1. CASE frames' = frames
    BY <1>2, <2>1
  <2>2. ASSUME NEW cfg \in NormalizeConfigs, frames' = Normal(cfg)
        PROVE  IsRow(frames') /\ \A i \in DOMAIN frames' : IsImage(frames'[i])
    BY <2>2, NormalIs
  <2>3. ASSUME NEW cfg \in NormalizeConfigs, NEW k \in DOMAIN frames,
               NEW left \in {frames[k], Broken},
               frames' = [i \in DOMAIN frames |->
                             IF i < k THEN Normal(cfg)[i]
                             ELSE IF i = k THEN left ELSE frames[i]]
        PROVE  IsRow(frames') /\ \A i \in DOMAIN frames' : IsImage(frames'[i])
    <3>1. \A i \in DOMAIN frames : IsImage(Normal(cfg)[i])
      BY NormalIs
    <3>2. DOMAIN frames' = DOMAIN frames /\ frames' = [i \in DOMAIN frames' |-> frames'[i]]
      BY <2>3
    <3>3. IsRow(frames')
      BY <1>2, <3>2 DEF IsRow
    <3>4. \A i \in DOMAIN frames : IsImage(frames'[i])
      BY <1>2, <2>3, <3>1, PlainImages
    <3> QED BY <3>2, <3>3, <3>4
  <2> QED BY <2>1, <2>2, <2>3, NormalizeCases
<1> QED BY <1>1, <1>2, <1>3 DEF Redraws

\* A sheet is written from the frames its metadata describes, so it matches them.
LEMMA WrittenMatches ==
    ASSUME SheetInv, pc = "sheet",
           sheet' = [state |-> "whole", px |-> Stitched(frames, did.cfg[1])],
           meta' = meta, stitched' = frames
    PROVE  Matches'
<1>1. /\ Stitchable /\ did.cfg[1] \in ColumnCounts /\ meta.is = Metadata(frames, did.cfg[1])
      /\ frames # NoFrames /\ IsRow(frames) /\ \A i \in DOMAIN frames : IsImage(frames[i])
      /\ \A i \in DOMAIN frames : frames[i].w = frames[1].w /\ frames[i].h = frames[1].h
  BY DEF SheetInv, StitchInv, FramesTyped, Stitchable
<1>2. PICK columns \in Nat \ {0} : columns = did.cfg[1]
  BY <1>1, SpriteConstants DEF SpriteConstants
<1>3. PICK imgs : imgs = frames
  OBVIOUS
<1>4. /\ IsRow(imgs) /\ imgs # <<>>
      /\ \A i \in DOMAIN imgs :
           IsImage(imgs[i]) /\ imgs[i].w = imgs[1].w /\ imgs[i].h = imgs[1].h
  BY <1>1, <1>3 DEF NoFrames
<1>5. Images(imgs)
  BY <1>4, RowIsSequence
<1>6. LET is == Metadata(imgs, columns)
      IN  /\ is.frame_count = Len(imgs)
          /\ \A i \in DOMAIN imgs : Cell(Stitched(imgs, columns), is, i) = imgs[i].px
  BY <1>4, <1>5, SheetGivesBack
<1>7. sheet'.px = Stitched(imgs, columns) /\ meta'.is = Metadata(imgs, columns) /\ stitched' = imgs
  BY <1>1, <1>2, <1>3
<1> QED BY <1>6, <1>7 DEF Matches

\* The steps that make a sheet.
LEMMA StitchSteps ==
    ASSUME SheetInv, StitchRefuses \/ WriteMeta \/ WriteSheet \/ RemoveVideo
    PROVE  SheetInv'
<1>1. artifact.kind \in {"none", "video", "still"} /\ (frames # NoFrames => artifact.kind = "video")
  BY DEF SheetInv, FramesTyped
<1>2. CASE StitchRefuses
  <2>1. Discards
    BY <1>1, <1>2 DEF StitchRefuses, Ends, Discards, history
  <2> QED BY <2>1, DiscardedSheet
<1>3. CASE WriteMeta
  <2>1. /\ Stitchable /\ pc = "ops" /\ frames # NoFrames /\ artifact.kind = "video"
        /\ artifact' = artifact /\ sheet' = sheet /\ shown' = shown /\ stitched' = stitched
        /\ apart' = apart
    BY <1>1, <1>3 DEF WriteMeta, Begin, Ends, history, Stitchable
  <2>2. ASSUME NEW columns \in ColumnCounts, Begin("stitch_spritesheet", <<columns>>),
               meta' = [state |-> "whole", is |-> Metadata(frames, columns)],
               pc' = "sheet", frames' = frames
        PROVE  SheetInv'
    <3>1. did'.cfg[1] = columns
      BY <2>2 DEF Begin
    <3>2. Stitchable'
      BY <2>1, <2>2 DEF Stitchable, Readable
    <3>3. FramesTyped'
      BY <2>1, <2>2 DEF SheetInv, FramesTyped
    <3>4. StitchInv'
      BY <2>2, <3>1, <3>2 DEF StitchInv
    <3>5. MatchInv' /\ KeptInv' /\ ExtractInv'
      BY <2>1, <2>2 DEF MatchInv, KeptInv, ExtractInv
    <3> QED BY <3>3, <3>4, <3>5 DEF SheetInv
  <2>3. ASSUME NEW columns \in ColumnCounts, Ends("stitch_spritesheet", <<columns>>),
               meta' \in {meta, [state |-> "cut", is |-> <<>>]}, frames' = NoFrames
        PROVE  SheetInv'
    <3>1. Discards
      BY <2>1, <2>3 DEF Ends, Discards, Described
    <3> QED BY <3>1, DiscardedSheet
  <2> QED BY <1>3, <2>2, <2>3 DEF WriteMeta
<1>4. CASE WriteSheet
  <2>1. /\ pc = "sheet" /\ Stitchable /\ meta.state = "whole"
        /\ frames # NoFrames /\ artifact.kind = "video"
        /\ artifact' = artifact /\ shown' = shown /\ did' = did
    BY <1>1, <1>4 DEF WriteSheet, VideoAfter, SheetInv, StitchInv, Stitchable
  <2>2. ASSUME sheet' = [state |-> "whole", px |-> Stitched(frames, did.cfg[1])],
               stitched' = frames, pc' = "video", meta' = meta, frames' = frames
        PROVE  SheetInv'
    <3>1. Matches'
      BY <2>1, <2>2, WrittenMatches
    <3>2. Stitchable'
      BY <2>1, <2>2 DEF Stitchable, Readable
    <3>3. FramesTyped'
      BY <2>1, <2>2 DEF SheetInv, FramesTyped
    <3>4. StitchInv'
      BY <2>1, <2>2, <3>1, <3>2 DEF StitchInv
    <3>5. MatchInv' /\ KeptInv' /\ ExtractInv'
      BY <2>1, <2>2, <3>1 DEF MatchInv, KeptInv, ExtractInv
    <3> QED BY <3>3, <3>4, <3>5 DEF SheetInv
  <2>3. ASSUME NEW removed \in BOOLEAN, meta' = AfterFailedSheet(removed), apart' = ~removed,
               frames' = NoFrames, pc' = "ops"
        PROVE  SheetInv'
    <3>1. apart' \/ ~Described'
      <4>1. CASE removed
        BY <2>3, <4>1 DEF Described, AfterFailedSheet, NoMeta
      <4>2. CASE ~removed
        BY <2>3, <4>2
      <4> QED BY <4>1, <4>2
    <3>2. Discards
      BY <2>1, <2>3, <3>1 DEF Discards
    <3> QED BY <3>2, DiscardedSheet
  <2> QED BY <1>4, <2>2, <2>3 DEF WriteSheet
<1>5. CASE RemoveVideo
  <2>1. /\ pc = "video" /\ pc' = "ops" /\ frames' = NoFrames
        /\ sheet' = sheet /\ meta' = meta /\ shown' = shown /\ stitched' = stitched
        /\ artifact'.kind \in {"none", "video", "still"}
    BY <1>1, <1>5 DEF RemoveVideo, VideoAfter, NoArtifact, history
  <2>2. Described /\ Matches
    BY <2>1 DEF SheetInv, StitchInv, Described
  <2>3. FramesTyped'
    BY <2>1, NoRow DEF FramesTyped
  <2>4. StitchInv'
    BY <2>1 DEF StitchInv
  <2>5. MatchInv' /\ KeptInv' /\ ExtractInv'
    BY <2>1, <2>2 DEF MatchInv, KeptInv, ExtractInv, Described, Matches
  <2> QED BY <2>3, <2>4, <2>5 DEF SheetInv
<1> QED BY <1>2, <1>3, <1>4, <1>5

\* Every step keeps the invariant.
LEMMA StepSheet == SheetInv /\ [Next]_vars => SheetInv'
<1> SUFFICES ASSUME SheetInv, [Next]_vars PROVE SheetInv'
  OBVIOUS
<1>1. CASE \/ Request \/ Poll \/ GiveUp \/ Respond \/ Skip
           \/ ChromaKey \/ BinarizeAlpha \/ PlateSpeckCleanup
           \/ StartExtract \/ StartSidecar \/ SidecarFails \/ BiRefNetMatte
           \/ CheckFrameConsistency \/ ChildExits \/ ChildReleases \/ Crash \/ UNCHANGED vars
  BY <1>1, QuietSettles, SettledSheet
<1>2. CASE VideoMatte \/ MatteBreaks \/ NormalizeFrames
  BY <1>2, MatteRedraws, NormalizeRedraws, RedrawnSheet
<1>3. CASE ExtractEnds
  <2>1. /\ IsRow(frames) /\ \A i \in DOMAIN frames : IsImage(frames[i])
        /\ pc = "extract" /\ artifact.kind = "video"
    BY <1>3 DEF ExtractEnds, SheetInv, FramesTyped, ExtractInv
  <2>2. IsRow(frames') /\ \A i \in DOMAIN frames' : IsImage(frames'[i])
    <3>1. CASE frames' = frames
      BY <2>1, <3>1
    <3>2. ASSUME NEW n \in FrameCounts, frames' = [i \in 1..n |-> RawFrame]
          PROVE  IsRow(frames') /\ \A i \in DOMAIN frames' : IsImage(frames'[i])
      <4>1. n \in Nat
        BY SpriteConstants DEF SpriteConstants
      <4>2. DOMAIN frames' = 1..n /\ \A i \in DOMAIN frames' : frames'[i] = RawFrame
        BY <3>2
      <4> QED BY <3>2, <4>1, <4>2, PlainImages DEF IsRow
    <3> QED BY <1>3, <3>1, <3>2 DEF ExtractEnds
  <2>3. Redraws
    BY <1>3, <2>1, <2>2 DEF ExtractEnds, Redraws
  <2> QED BY <2>3, RedrawnSheet
<1>4. CASE Save
  <2>1. /\ pc = "save" /\ pc' \in {"ops", "done"} /\ artifact'.kind \in {"none", "video", "still"}
        /\ frames' = frames /\ sheet' = sheet /\ meta' = meta
        /\ shown' = shown /\ stitched' = stitched /\ apart' = apart
    BY <1>4 DEF Save, Video, history, SheetInv, FramesTyped
  <2>2. shown = NoFrames /\ frames = NoFrames
    BY <2>1 DEF SheetInv, FramesTyped
  <2>3. FramesTyped' /\ StitchInv' /\ KeptInv' /\ ExtractInv'
    BY <2>1, <2>2, NoRow DEF FramesTyped, StitchInv, KeptInv, ExtractInv
  <2>4. MatchInv'
    BY <2>1 DEF SheetInv, MatchInv, Matches, Described
  <2> QED BY <2>3, <2>4 DEF SheetInv
<1>5. CASE StitchRefuses \/ WriteMeta \/ WriteSheet \/ RemoveVideo
  BY <1>5, StitchSteps
<1> QED BY <1>1, <1>2, <1>3, <1>4, <1>5 DEF Next, Step

\* In every reachable state the frames are of a video that is there, a sheet being
\* made is made of them, and whole files match (RunPostProcess and its operations).
THEOREM SheetInvariant == Spec => []SheetInv
BY InitSheet, StepSheet, PTL DEF Spec

\* Between operations, a whole sheet cut by whole metadata gives back every frame
\* it was made from, in order, with any number of frames, columns and operations:
\* unless the metadata of one pass was left beside the sheet of another, by a call
\* killed between the two writes or by a removal that failed too
\* (StitchSpritesheetProcessor.Run).
THEOREM SheetAlwaysMatches == Spec => []SheetMatchesMetadata
<1>1. SheetInv => SheetMatchesMetadata
  BY DEF SheetInv, MatchInv, SheetMatchesMetadata, AtRest
<1> QED BY <1>1, SheetInvariant, PTL

\* The animation is never lost, failures of the removal and what an earlier call left
\* included: the video, or a whole sheet with its metadata
\* (StitchSpritesheetProcessor.Run removes the video last).
THEOREM AnimationKept == Spec => []VideoOrSheet
<1>1. SheetInv => VideoOrSheet
  BY DEF SheetInv, KeptInv, VideoOrSheet
<1> QED BY <1>1, SheetInvariant, PTL

-------------------------------------------------------------------------------
(* The subject.                                                              *)

\* Nothing else than the steps on the frames changes them or what they were.
LEMMA FramesStay ==
    ASSUME SheetInv, [Next]_vars,
           ~ (ExtractEnds \/ VideoMatte \/ MatteBreaks \/ NormalizeFrames)
    PROVE  frames' = NoFrames \/ (frames' = frames /\ shown' = shown /\ torn' = torn)
<1>1. ASSUME \/ Request \/ Poll \/ GiveUp \/ Respond \/ Skip
             \/ StartExtract \/ StartSidecar \/ SidecarFails \/ CheckFrameConsistency
             \/ ChildExits \/ ChildReleases \/ Crash \/ UNCHANGED vars
      PROVE  frames' = frames /\ shown' = shown /\ torn' = torn
  BY <1>1 DEF Request, Poll, GiveUp, Respond, Skip, StartExtract, StartSidecar, SidecarFails,
     CheckFrameConsistency, ChildExits, ChildReleases, Crash, vars, files, history
<1>2. ASSUME ChromaKey \/ BinarizeAlpha \/ PlateSpeckCleanup
      PROVE  frames' = frames /\ shown' = shown /\ torn' = torn
  <2>1. PICK op, cfg, px : Replace(op, cfg, px)
    BY <1>2 DEF ChromaKey, BinarizeAlpha, PlateSpeckCleanup
  <2> QED BY <2>1 DEF Replace, history
<1>3. ASSUME BiRefNetMatte \/ Save PROVE frames' = frames /\ shown' = shown /\ torn' = torn
  BY <1>3 DEF BiRefNetMatte, Save, history
<1>4. ASSUME StitchRefuses \/ RemoveVideo PROVE frames' = NoFrames
  BY <1>4 DEF StitchRefuses, RemoveVideo
<1>5. ASSUME WriteMeta \/ WriteSheet
      PROVE  frames' = NoFrames \/ (frames' = frames /\ shown' = shown /\ torn' = torn)
  BY <1>5 DEF WriteMeta, WriteSheet, history
<1> QED BY <1>1, <1>2, <1>3, <1>4, <1>5 DEF Next, Step

\* A matte leaves the frames in their places, and is what they show from then on; a
\* frame that cannot be read stays so.
LEMMA MattePlace ==
    ASSUME SheetInv, PlaceInv, VideoMatte \/ MatteBreaks
    PROVE  PlaceInv'
<1>1. frames # NoFrames /\ DOMAIN shown = DOMAIN frames /\ torn' = torn
  BY DEF VideoMatte, MatteBreaks, PlaceInv
<1>2. PICK masks :
        /\ shown' = Shows(masks)
        /\ \/ frames' = Overlaid(masks)
           \/ \E k \in DOMAIN frames : frames' = [Overlaid(masks) EXCEPT ![k] = Broken]
  BY MatteCases
<1>3. PICK laid : laid = Overlaid(masks)
  OBVIOUS
<1>4. /\ DOMAIN laid = DOMAIN frames
      /\ \A i \in DOMAIN frames :
           /\ laid[i].at = frames[i].at
           /\ frames[i] = Broken => laid[i] = Broken
           /\ i \notin DOMAIN masks => laid[i] = frames[i]
  BY <1>3, OverlaidImages
<1>5. /\ DOMAIN shown' = DOMAIN frames
      /\ \A i \in DOMAIN frames : shown'[i] = IF i \in DOMAIN masks THEN laid[i] ELSE shown[i]
  BY <1>2, <1>3 DEF Shows
<1>6. CASE frames' = laid
  <2>1. Readable' => Readable
    BY <1>4, <1>6 DEF Readable
  <2>2. ASSUME Readable', ~torn' PROVE OneCorner(frames') /\ KeepsPlace(shown', frames')
    <3>1. OneCorner(frames) /\ KeepsPlace(shown, frames)
      BY <1>1, <2>1, <2>2 DEF PlaceInv
    <3>2. OneCorner(frames')
      BY <1>4, <1>6, <3>1 DEF OneCorner
    <3>3. KeepsPlace(shown', frames')
      BY <1>1, <1>4, <1>5, <1>6, <3>1 DEF KeepsPlace
    <3> QED BY <3>2, <3>3
  <2> QED BY <1>4, <1>5, <1>6, <2>2 DEF PlaceInv
<1>7. ASSUME NEW k \in DOMAIN frames, frames' = [laid EXCEPT ![k] = Broken]
      PROVE  PlaceInv'
  <2>1. DOMAIN frames' = DOMAIN frames /\ frames'[k] = Broken
    BY <1>4, <1>7
  <2>2. ~Readable'
    BY <2>1 DEF Readable
  <2> QED BY <1>5, <2>1, <2>2 DEF PlaceInv
<1> QED BY <1>2, <1>3, <1>6, <1>7

\* Centring keeps all corners together, and the subject where it is; if it is broken
\* off, a frame is unreadable, or the pass is known to have stopped, or did nothing.
LEMMA NormalizePlace ==
    ASSUME SheetInv, PlaceInv, NormalizeFrames
    PROVE  PlaceInv'
<1>1. frames # NoFrames /\ Readable /\ DOMAIN shown = DOMAIN frames /\ shown' = shown
  BY DEF NormalizeFrames, PlaceInv
<1>2. CASE frames' = frames /\ torn' = torn
  BY <1>1, <1>2 DEF PlaceInv, Readable
<1>3. ASSUME NEW cfg \in NormalizeConfigs, frames' = Normal(cfg), torn' = torn
      PROVE  PlaceInv'
  <2>1. DOMAIN frames' = DOMAIN frames
    BY <1>3, NormalIs
  <2>2. ASSUME ~torn' PROVE OneCorner(frames') /\ KeepsPlace(shown', frames')
    <3>1. OneCorner(frames) /\ KeepsPlace(shown, frames)
      BY <1>1, <1>3, <2>2 DEF PlaceInv
    <3>2. OneCorner(frames') /\ KeepsPlace(frames, frames')
      BY <1>3, <3>1, NormalIs
    <3>3. KeepsPlace(shown', frames')
      BY <1>1, <3>1, <3>2 DEF KeepsPlace
    <3> QED BY <3>2, <3>3
  <2> QED BY <1>1, <2>1, <2>2 DEF PlaceInv
<1>4. ASSUME NEW cfg \in NormalizeConfigs, NEW k \in DOMAIN frames,
             NEW left \in {frames[k], Broken},
             frames' = [i \in DOMAIN frames |->
                           IF i < k THEN Normal(cfg)[i]
                           ELSE IF i = k THEN left ELSE frames[i]],
             torn' = (torn \/ (left # Broken /\ k # 1))
      PROVE  PlaceInv'
  <2>1. k \in Nat /\ IsRow(frames)
    BY DEF SheetInv, FramesTyped, IsRow
  <2>2. frames'[k] = left /\ DOMAIN frames' = DOMAIN frames
    BY <1>4, <2>1
  <2>3. CASE left = Broken
    <3>1. ~Readable'
      BY <2>2, <2>3 DEF Readable
    <3> QED BY <1>1, <2>2, <3>1 DEF PlaceInv
  <2>4. CASE left # Broken /\ k # 1
    BY <1>1, <1>4, <2>2, <2>4 DEF PlaceInv
  <2>5. CASE left # Broken /\ k = 1
    <3>1. \A i \in DOMAIN frames : ~(i < k)
      BY <2>1, <2>5 DEF IsRow
    <3>2. frames = [i \in DOMAIN frames |-> frames[i]]
      BY <2>1 DEF IsRow
    <3>3. frames' = frames
      <4>1. left = frames[k]
        BY <2>5
      <4> QED BY <1>4, <3>1, <3>2, <4>1
    <3>4. ~torn' => ~torn
      BY <1>4
    <3> QED BY <1>1, <3>3, <3>4 DEF PlaceInv
  <2> QED BY <2>3, <2>4, <2>5
<1> QED BY <1>2, <1>3, <1>4, NormalizeCases

\* Every step keeps it.
LEMMA StepPlace == SheetInv /\ PlaceInv /\ [Next]_vars => PlaceInv'
<1> SUFFICES ASSUME SheetInv, PlaceInv, [Next]_vars PROVE PlaceInv'
  OBVIOUS
<1>1. CASE ExtractEnds
  <2>1. CASE frames' = frames /\ shown' = shown /\ torn' = torn
    BY <2>1 DEF PlaceInv, Readable
  <2>2. ASSUME NEW n \in FrameCounts, frames' = [i \in 1..n |-> RawFrame], shown' = frames'
        PROVE  PlaceInv'
    <3>1. \A i \in DOMAIN frames' : frames'[i] = RawFrame
      BY <2>2
    <3>2. OneCorner(frames') /\ KeepsPlace(shown', frames')
      BY <2>2, <3>1 DEF OneCorner, KeepsPlace
    <3> QED BY <2>2, <3>2 DEF PlaceInv
  <2> QED BY <1>1, <2>1, <2>2 DEF ExtractEnds
<1>2. CASE VideoMatte \/ MatteBreaks
  BY <1>2, MattePlace
<1>3. CASE NormalizeFrames
  BY <1>3, NormalizePlace
<1>4. CASE frames' = NoFrames \/ (frames' = frames /\ shown' = shown /\ torn' = torn)
  BY <1>4 DEF PlaceInv, Readable
<1> QED BY <1>1, <1>2, <1>3, <1>4, FramesStay

\* A sheet is made of such frames.
LEMMA StaysPut == SheetInv /\ PlaceInv => SubjectStaysPut
<1> SUFFICES ASSUME SheetInv, PlaceInv, pc = "video", ~torn, NEW i \in DOMAIN stitched
             PROVE  /\ stitched[i].at = stitched[1].at
                    /\ stitched[i].div = 1 => InVideo(stitched[i]) = InVideo(shown[i])
  BY DEF SubjectStaysPut
<1>1. stitched = frames /\ frames # NoFrames /\ Readable /\ IsRow(frames)
  BY DEF SheetInv, StitchInv, FramesTyped, Stitchable
<1>2. 1 \in DOMAIN frames
  <2>1. PICK f : f = frames
    OBVIOUS
  <2>2. IsRow(f) /\ f # <<>>
    BY <1>1, <2>1 DEF NoFrames
  <2> QED BY <2>1, <2>2, RowIsSequence
<1>3. DOMAIN shown = DOMAIN frames /\ OneCorner(frames) /\ KeepsPlace(shown, frames)
  BY <1>1 DEF PlaceInv
<1> QED BY <1>1, <1>2, <1>3 DEF OneCorner, KeepsPlace

\* The subject does not jump between the cells of a sheet, and nothing of it is cut
\* off, for videos of any size and length, any mattes and configurations, and
\* operations in any number and order, of which any may fail; as long as no pass of
\* normalize_frames stopped at a frame it could not open (NormalizeFramesProcessor.Run).
THEOREM SubjectAlwaysStays == Spec => []SubjectStaysPut
<1>1. Init => PlaceInv
  BY DEF Init, PlaceInv
<1>2. SheetInv /\ PlaceInv /\ [Next]_vars => PlaceInv'
  BY StepPlace
<1> QED BY <1>1, <1>2, StaysPut, SheetInvariant, PTL DEF Spec
===============================================================================
