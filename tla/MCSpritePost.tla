------------------------------ MODULE MCSpritePost ------------------------------
(* An instance of SpritePost for TLC.                                        *)
EXTENDS SpritePost

\* Stills of 4 x 4 pixels: mixtures of plate and subject, three of the pixels inside
\* and one at the border, and one of all the colours a service can return
MCStills ==
    {[p \in Pixels(4, 4) |-> [c |-> IF p \in plate THEN "plate" ELSE "subject", a |-> Solid]] :
        plate \in SUBSET {<<1, 1>>, <<2, 1>>, <<2, 2>>, <<0, 3>>}}
    \cup {[p \in Pixels(4, 4) |->
             [c |-> IF p[2] = 0 THEN "plate"
                    ELSE IF p[1] = 0 THEN "edge" ELSE IF p[1] = 1 THEN "shadow" ELSE "subject",
              a |-> Solid]]}

\* A matte clears a corner, the left column or nothing
MCMattes == {{}, {<<0, 0>>}, {0} \X (0..3)}

MCNormalize ==
    {[padding |-> 1, floor |-> TRUE, snap |-> FALSE, scale |-> 1],
     [padding |-> 0, floor |-> FALSE, snap |-> TRUE, scale |-> 1],
     [padding |-> 1, floor |-> TRUE, snap |-> FALSE, scale |-> 2],
     [padding |-> 0, floor |-> FALSE, snap |-> FALSE, scale |-> 3]}

\* A subject at the left, at the right with a residue beside it, gone; further pixels
\* of it where the frame has grown
MCMasks ==
    {[p \in Pixels(4, 3) |-> IF p \in {<<0, 0>>, <<2, 2>>} THEN Solid ELSE Clear],
     [p \in Pixels(4, 3) |-> IF p = <<0, 0>> THEN Residue
                             ELSE IF p \in {<<1, 0>>, <<1, 1>>} THEN Solid ELSE Clear],
     [p \in Pixels(4, 3) |-> Clear]}
===============================================================================
