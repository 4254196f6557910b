------------------------------ MODULE SpriteImage ------------------------------
(***************************************************************************)
(* The image algorithms of the bridge's post-processing                     *)
(* (internal/httpbridge/postprocess.go), as operators.                      *)
(*                                                                         *)
(* A frame of an animation is [w, h, alpha, div, at, px]: px gives every    *)
(* pixel <<x, y>> a level of opacity, alpha says whether the file has an    *)
(* alpha channel (image.NRGBA), div by how much it has been scaled down,    *)
(* and at where in the picture of the video its corner lies (a history of   *)
(* the croppings; no file has it).  A still is a function from its pixels   *)
(* to [c, a], a colour class and an opacity.                                *)
(***************************************************************************)
EXTENDS Integers, Sequences, FiniteSets, FiniteSetsExt, SequencesExt

\* Op(x), x being evaluated once: TLC evaluates an operator's argument at each use
With(x, Op(_)) == CHOOSE r \in {Op(v) : v \in {x}} : TRUE

Pixels(w, h) == (0..(w - 1)) \X (0..(h - 1))

\* Opacity: none; a residue, at or below alpha_threshold (and alpha_snap);
\* soft, above the first and at or below the second; solid
Clear == 0
Residue == 1
Soft == 2
Solid == 3

\* Colours by the keyer's score, min(R,B) - G: the plate (above the band of
\* chroma_key), an edge (inside it), a darkened plate (below it), all of the
\* plate's hue, the subject (no excess), and the zeroed pixel
Colour == {"plate", "edge", "shadow", "subject", "zero"}
Erased == [c |-> "zero", a |-> Clear]

-------------------------------------------------------------------------------
\* ChromaKeyProcessor.Run: opacity is made anew from the colour alone, and what
\* keeps any is despilled.  The opacity the file came with is not looked at: a
\* transparent pixel is read as black (RGBA is premultiplied), which is kept
Seen(pixel) == IF pixel.a = Clear THEN "zero" ELSE pixel.c
KeyedPixel(c, killShadow) ==
    CASE c = "plate" \/ (c \in {"edge", "shadow"} /\ killShadow) -> Erased
      [] c = "edge" /\ ~killShadow   -> [c |-> "subject", a |-> Soft]
      [] c = "shadow" /\ ~killShadow -> [c |-> "subject", a |-> Solid]
      [] OTHER                       -> [c |-> c, a |-> Solid]
Keyed(px, killShadow) == [p \in DOMAIN px |-> KeyedPixel(Seen(px[p]), killShadow)]

\* BinarizeAlphaProcessor.Run: floor, then snap
Binarized(px, floor, snap) ==
    [p \in DOMAIN px |->
        IF (floor /\ px[p].a <= Residue) \/ (snap /\ px[p].a <= Soft)
        THEN [px[p] EXCEPT !.a = Clear]
        ELSE [px[p] EXCEPT !.a = IF snap THEN Solid ELSE @]]

-------------------------------------------------------------------------------
\* PlateSpeckCleanupProcessor.Run, with connectivity 4 or 8

\* Mutant: always 8
Shifts_eight(connectivity) ==
    <<<<-1, -1>>, <<-1, 0>>, <<-1, 1>>, <<0, -1>>, <<0, 1>>, <<1, -1>>, <<1, 0>>, <<1, 1>>>>

\* dxs and dys
Shifts(connectivity) ==
    IF connectivity = 4 THEN <<<<-1, 0>>, <<1, 0>>, <<0, -1>>, <<0, 1>>>>
    ELSE <<<<-1, -1>>, <<-1, 0>>, <<-1, 1>>, <<0, -1>>, <<0, 1>>, <<1, -1>>, <<1, 0>>, <<1, 1>>>>

\* Visible pixels whose score is above score_threshold, the lower end of the
\* keyer's band
Flagged(px) == {p \in DOMAIN px : px[p].a # Clear /\ px[p].c \in {"plate", "edge"}}

\* Row by row, the order in which the code looks for the next component
RowByRow(w, h) == [k \in 1..(w * h) |-> <<(k - 1) % w, (k - 1) \div w>>]

\* One neighbour q of a pixel taken from the stack: outside the image, flagged
\* and new, or transparent
Touch(px, flagged, f, q) ==
    IF q \notin DOMAIN px THEN [f EXCEPT !.edge = TRUE]
    ELSE IF q \in flagged
         THEN IF q \in f.visited THEN f
              ELSE [f EXCEPT !.visited = @ \cup {q}, !.stack = Append(@, q)]
         ELSE [f EXCEPT !.edge = @ \/ px[q].a = Clear]

\* One round of the loop over the stack
Visit(px, flagged, shifts, f) ==
    IF f.stack = <<>> THEN f
    ELSE LET p == Last(f.stack)
         IN FoldLeft(LAMBDA g, d : With(g, LAMBDA v :
                                      Touch(px, flagged, v, <<p[1] + d[1], p[2] + d[2]>>)),
                     [f EXCEPT !.stack = Front(@), !.component = @ \cup {p}], shifts)

\* Every pixel is on the stack at most once, so as many rounds as there are
\* flagged pixels empty it
Flood(px, flagged, shifts, start, visited) ==
    FoldLeft(LAMBDA f, i : With(f, LAMBDA v : Visit(px, flagged, shifts, v)),
             [stack |-> <<start>>, visited |-> visited \cup {start},
              component |-> {}, edge |-> FALSE],
             [i \in 1..Cardinality(flagged) |-> i])

\* Erase the components that are small, or, with edge_aware, touch the matted
\* background or the border
SpecksIn(px, connectivity, size, edgeAware) ==
    LET w == Max({p[1] : p \in DOMAIN px}) + 1
        h == Max({p[2] : p \in DOMAIN px}) + 1
        Look(flagged, s, p) ==
            IF p \notin flagged \/ p \in s.visited THEN s
            ELSE With(Flood(px, flagged, Shifts(connectivity), p, s.visited), LAMBDA f :
                   [visited |-> f.visited,
                    erased  |-> s.erased \cup
                        (IF Cardinality(f.component) <= size \/ (edgeAware /\ f.edge)
                         THEN f.component ELSE {})])
    IN With(Flagged(px), LAMBDA flagged :
         FoldLeft(LAMBDA s, p : With(s, LAMBDA v : Look(flagged, v, p)),
                  [visited |-> {}, erased |-> {}], RowByRow(w, h)).erased)

EraseAll(px, erased) == [p \in DOMAIN px |-> IF p \in erased THEN Erased ELSE px[p]]
Cleaned(px, connectivity, size, edgeAware) ==
    With(SpecksIn(px, connectivity, size, edgeAware), LAMBDA erased : EraseAll(px, erased))

-------------------------------------------------------------------------------
\* NormalizeFramesProcessor.Run with cfg = [padding, floor, snap, scale]

\* floorAlpha and binarizeAlpha, for files with an alpha channel only
Floored(img, cfg) ==
    IF ~img.alpha THEN img
    ELSE [img EXCEPT !.px = [p \in DOMAIN @ |->
            IF (cfg.floor /\ @[p] = Residue) \/ (cfg.snap /\ @[p] # Solid) THEN Clear
            ELSE @[p]]]

\* A rectangle [x0, y0, x1, y1] without its last row and column
NoBox == [x0 |-> 0, y0 |-> 0, x1 |-> 0, y1 |-> 0]

\* contentBoundingBox, and its union over all frames (image.Rectangle.Union)
Content(img, floor) ==
    {p \in DOMAIN img.px : img.px[p] > (IF floor THEN Residue ELSE Clear)}
Bounds(content) ==
    IF content = {} THEN NoBox
    ELSE [x0 |-> Min({p[1] : p \in content}), y0 |-> Min({p[2] : p \in content}),
          x1 |-> Max({p[1] : p \in content}) + 1, y1 |-> Max({p[2] : p \in content}) + 1]
UnionBox(imgs, floor) ==
    With(UNION {Content(imgs[i], floor) : i \in DOMAIN imgs}, Bounds)

\* The part of a frame inside the box, in the middle of a canvas
Centred(img, box, padding) ==
    LET w == box.x1 - box.x0 + 2 * padding
        h == box.y1 - box.y0 + 2 * padding
        at(q) == <<q[1] - padding + box.x0, q[2] - padding + box.y0>>
    IN [w |-> w, h |-> h, alpha |-> TRUE, div |-> img.div,
        at |-> <<img.at[1] + box.x0 - padding, img.at[2] + box.y0 - padding>>,
        px |-> [q \in Pixels(w, h) |-> IF at(q) \in DOMAIN img.px THEN img.px[at(q)]
                                       ELSE Clear]]

\* CatmullRom.Scale: a pixel of the smaller canvas shows what falls into it
Scaled(img, w, h, scale) ==
    [w |-> w, h |-> h, alpha |-> TRUE, div |-> img.div * scale, at |-> img.at,
     px |-> [q \in Pixels(w, h) |->
                Max({img.px[p] : p \in {p \in DOMAIN img.px :
                        <<(p[1] * w) \div img.w, (p[2] * h) \div img.h>> = q}})]]

\* The canvas before and after scale_factor
Canvas(box, padding) == <<box.x1 - box.x0 + 2 * padding, box.y1 - box.y0 + 2 * padding>>
Shrunk(size, scale) == <<size[1] \div scale, size[2] \div scale>>

Fitted(img, box, cfg) ==
    With(Centred(img, box, cfg.padding), LAMBDA centred :
        IF cfg.scale = 1 THEN centred
        ELSE With(Shrunk(Canvas(box, cfg.padding), cfg.scale), LAMBDA size :
                Scaled(centred, size[1], size[2], cfg.scale)))

Normalized(imgs, cfg) ==
    With([i \in DOMAIN imgs |-> Floored(imgs[i], cfg)], LAMBDA clean :
        With(UnionBox(clean, cfg.floor), LAMBDA box :
            [i \in DOMAIN imgs |-> Fitted(clean[i], box, cfg)]))

-------------------------------------------------------------------------------
\* StitchSpritesheetProcessor.Run: frames left to right, top to bottom, and the
\* metadata a reader of the sheet cuts it by
Rows(n, columns) == (n + columns - 1) \div columns

Stitched(imgs, columns) ==
    LET w == imgs[1].w  h == imgs[1].h
        index(q) == (q[2] \div h) * columns + (q[1] \div w) + 1
    IN [q \in Pixels(columns * w, Rows(Len(imgs), columns) * h) |->
            IF index(q) \in DOMAIN imgs
            THEN imgs[index(q)].px[<<q[1] % w, q[2] % h>>] ELSE Clear]

Metadata(imgs, columns) ==
    [frame_count |-> Len(imgs), columns |-> columns, rows |-> Rows(Len(imgs), columns),
     frame_width |-> imgs[1].w, frame_height |-> imgs[1].h]

\* What a reader cuts out as frame i, as far as the sheet goes
InSheet(meta, i, p) ==
    <<((i - 1) % meta.columns) * meta.frame_width + p[1],
      ((i - 1) \div meta.columns) * meta.frame_height + p[2]>>
Cell(sheet, meta, i) ==
    [p \in {q \in Pixels(meta.frame_width, meta.frame_height) :
                 InSheet(meta, i, q) \in DOMAIN sheet} |-> sheet[InSheet(meta, i, p)]]
===============================================================================
