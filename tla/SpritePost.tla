------------------------------- MODULE SpritePost -------------------------------
(***************************************************************************)
(* One tool call of the HTTP bridge (internal/httpbridge/bridge.go) and the *)
(* post-processing of what it saved (postprocess.go): the request, polling  *)
(* of a long-running operation, the download, then the configured           *)
(* operations one after another over a shared PipelineState and the files.  *)
(*                                                                         *)
(* An operation that fails never stops the next one.  The guest's process,  *)
(* and the bridge with it, may be killed anywhere (Crash).  Files an        *)
(* earlier call left under the same name may be there at the start.         *)
(***************************************************************************)
EXTENDS SpriteImage

CONSTANTS
    Stills,             \* the images a service returns
    Mattes,             \* the sets of pixels a matte may clear
    FrameWidth, FrameHeight, FrameCounts,   \* the videos it returns
    Masks,              \* what a matte can make of a frame: opacities from its corner on
    NormalizeConfigs,   \* records [padding, floor, snap, scale]
    ColumnCounts,       \* values of the sheet's "columns"
    MaxOps, MaxStillOps,    \* bounds on the operations on a video, on a still
    MaxPolls            \* bound on polls, instead of max_wait_ms

ASSUME SpriteConstants ==
    /\ FrameWidth \in Nat \ {0} /\ FrameHeight \in Nat \ {0}
    /\ FrameCounts \subseteq Nat \ {0} /\ ColumnCounts \subseteq Nat \ {0}
    /\ MaxOps \in Nat /\ MaxStillOps \in Nat /\ MaxPolls \in Nat
    /\ \A cfg \in NormalizeConfigs : cfg.padding \in Nat /\ cfg.scale \in Nat \ {0}

VARIABLES
    pc,         \* where handleToolCall is
    polled,     \* polls made, and the merged answers: [n, uri]
    artifact,   \* the saved file: its kind, and the pixels of a still
    frames,     \* the frames in state["frame_dir"]; "none" without a directory
    sheet,      \* the sprite sheet on disk: [state, px]
    meta,       \* its .spritesheet.json: [state, is]
    did,        \* the operation under way or the last one
    ops,        \* operations begun
    child,      \* the process waited for: running or not, and whether others hold
                \* its output
    claims,     \* the answer of the call names the sheet (spritesheet_path)
    shown,      \* history: the frames as extracted or last matted
    stitched,   \* history: the frames the sheet was made from
    apart,      \* history: metadata of one pass was left beside the sheet of another
    torn        \* history: a pass over the frames stopped at one it left as it was

vars == <<pc, polled, artifact, frames, sheet, meta, did, ops, child, claims,
          shown, stitched, apart, torn>>
files == <<artifact, frames, sheet, meta>>
history == <<shown, stitched, apart, torn>>

NoFrames == <<>>
NoArtifact == [kind |-> "none", px |-> <<>>]
Video == [kind |-> "video", px |-> <<>>]
NoFile == [state |-> "none", px |-> <<>>]
NoMeta == [state |-> "none", is |-> <<>>]
Idle == [running |-> FALSE, held |-> FALSE]

RawFrame == [w |-> FrameWidth, h |-> FrameHeight, alpha |-> FALSE, div |-> 1,
             at |-> <<0, 0>>, px |-> [p \in Pixels(FrameWidth, FrameHeight) |-> Solid]]
Broken == [w |-> 0, h |-> 0, alpha |-> FALSE, div |-> 1, at |-> <<0, 0>>, px |-> <<>>]
Readable == \A i \in DOMAIN frames : frames[i] # Broken

\* What an earlier call of the same file name left: a sheet of two frames, with its
\* metadata or, after a death between the two writes, with those of a later pass
Earlier == <<RawFrame, RawFrame>>
Later == <<RawFrame, RawFrame, RawFrame>>

Init ==
    /\ pc = "request" /\ polled = [n |-> 0, uri |-> FALSE]
    /\ artifact = NoArtifact /\ frames = NoFrames
    /\ \/ sheet = NoFile /\ meta = NoMeta /\ stitched = NoFrames /\ apart = FALSE
       \/ /\ sheet = [state |-> "whole", px |-> Stitched(Earlier, 2)]
          /\ stitched = Earlier
          /\ apart \in BOOLEAN
          /\ meta = [state |-> "whole", is |-> Metadata(IF apart THEN Later ELSE Earlier, 2)]
    /\ torn = FALSE
    /\ did = [op |-> "none", cfg |-> <<>>]
    /\ ops = 0 /\ child = Idle /\ claims = FALSE /\ shown = NoFrames

-------------------------------------------------------------------------------
\* The call

\* executeHTTPTool: inputs, template or request fail, or the service answers
\* with the artifact (handleArtifactResponse) or with an operation to poll
Request ==
    /\ pc = "request"
    /\ \/ pc' = "done"  \/ pc' = "polling"  \/ pc' = "save"
    /\ UNCHANGED <<polled, files, did, ops, child, claims, history>>

\* executeAsyncPolling, one round after the sleep.  Any failed poll, a 429
\* included, gives up.  Each answer is decoded into the same map, so what an
\* earlier one said of the result stays
Poll ==
    /\ pc = "polling" /\ polled.n < MaxPolls
    /\ \E done, uri \in BOOLEAN :
         LET known == polled.uri \/ uri
         IN /\ polled' = [n |-> polled.n + 1, uri |-> known]
            /\ pc' = IF ~done THEN "polling" ELSE IF known THEN "save" ELSE "done"
    /\ UNCHANGED <<files, did, ops, child, claims, history>>

\* The deadline is looked at after each sleep, before the next poll
GiveUp ==
    /\ pc = "polling"
    /\ pc' = "done"
    /\ UNCHANGED <<polled, files, did, ops, child, claims, history>>

\* handleArtifactResponse, handleAsyncArtifactDownload: the file is written, then
\* ResolvePostProcess may refuse the configuration: an error, the file stays
Save ==
    /\ pc = "save"
    /\ \/ pc' = "done" /\ artifact' = artifact
       \/ /\ pc' \in {"ops", "done"}
          /\ \/ artifact' = Video
             \/ \E px \in Stills : artifact' = [kind |-> "still", px |-> px]
    /\ UNCHANGED <<polled, frames, sheet, meta, did, ops, child, claims, history>>

Respond ==
    /\ pc = "ops"
    /\ pc' = "done"
    /\ UNCHANGED <<polled, files, did, ops, child, claims, history>>

-------------------------------------------------------------------------------
\* RunPostProcess: any operation next, whatever became of the one before

Bound == IF artifact.kind = "still" THEN MaxStillOps ELSE MaxOps
Begin(op, cfg) ==
    /\ pc = "ops" /\ ops < Bound /\ ops' = ops + 1
    /\ did' = [op |-> op, cfg |-> cfg]
Ends(op, cfg) ==
    /\ pc = "ops" /\ ops < Bound /\ ops' = ops + 1 /\ pc' = "ops"
    /\ did' = [op |-> op, cfg |-> cfg]

\* An unknown name, a sidecar that cannot be located, nothing enabled, no
\* frame_dir: skipped.  A file that cannot be read: failed, nothing written
Skip == Ends("none", <<>>) /\ UNCHANGED <<polled, files, child, claims, history>>

\* The operations on stills replace the file by renaming a temporary one
Replace(op, cfg, px) ==
    /\ artifact.kind = "still"
    /\ Ends(op, cfg)
    /\ artifact' = [artifact EXCEPT !.px = px]
    /\ UNCHANGED <<polled, frames, sheet, meta, child, claims, history>>

ChromaKey == \E kill \in BOOLEAN :
    Replace("chroma_key", <<kill>>, Keyed(artifact.px, kill))
BinarizeAlpha == \E cfg \in (BOOLEAN \X BOOLEAN) \ {<<FALSE, FALSE>>} :
    Replace("binarize_alpha", cfg, Binarized(artifact.px, cfg[1], cfg[2]))
PlateSpeckCleanup == \E cfg \in {4, 8} \X (0..2) \X BOOLEAN :
    Replace("plate_speck_cleanup", cfg, Cleaned(artifact.px, cfg[1], cfg[2], cfg[3]))

\* ExtractVideoFramesProcessor.Run: ffmpeg is waited for with CombinedOutput, until
\* it has exited and nobody holds its output any more
StartExtract ==
    /\ artifact.kind = "video"
    /\ Begin("extract_video_frames", <<>>)
    /\ pc' = "extract"
    /\ child' = [running |-> TRUE, held |-> TRUE]
    /\ UNCHANGED <<polled, files, claims, history>>

\* A bad exit or no frames: the old directory stays in the state; or else a new one
ExtractEnds ==
    /\ pc = "extract" /\ ~child.running /\ ~child.held
    /\ pc' = "ops" /\ child' = Idle
    /\ \/ frames' = frames /\ shown' = shown /\ torn' = torn
       \/ /\ \E n \in FrameCounts : frames' = [i \in 1..n |-> RawFrame]
          /\ shown' = frames' /\ torn' = FALSE
    /\ UNCHANGED <<polled, artifact, sheet, meta, did, ops, claims, stitched, apart>>

-------------------------------------------------------------------------------
\* runSidecarCmd, for birefnet_matte, video_matte and check_frame_consistency:
\* worker processes may outlive the sidecar and hold its output

Applies(op) ==
    IF op = "birefnet_matte" THEN artifact.kind # "none" ELSE frames # NoFrames
Sidecar == {"birefnet_matte", "video_matte", "check_frame_consistency"}

StartSidecar ==
    /\ \E op \in Sidecar : Applies(op) /\ Begin(op, <<>>)
    /\ pc' = "sidecar"
    /\ child' = [running |-> TRUE, held |-> TRUE]
    /\ UNCHANGED <<polled, files, claims, history>>

\* The process ends, or its context expires and it is killed
ChildExits ==
    /\ child.running
    /\ \E held \in BOOLEAN : child' = [running |-> FALSE, held |-> held]
    /\ UNCHANGED <<pc, polled, files, did, ops, claims, history>>

\* The last worker that holds the output of an exited process is gone: nothing says
\* that this ever happens
ChildReleases ==
    /\ ~child.running /\ child.held
    /\ child' = Idle
    /\ UNCHANGED <<pc, polled, files, did, ops, claims, history>>

\* Mutant: waits for the end of the output, as Cmd.Wait on pipes would
Exited_eof == ~child.running /\ ~child.held

\* Process.Wait: what the workers hold does not matter
Exited == ~child.running

SidecarEnds ==
    /\ pc = "sidecar" /\ Exited
    /\ pc' = "ops" /\ child' = Idle
    /\ UNCHANGED <<polled, did, ops, claims>>

\* A bad exit, no status line, a status that is not ok, no output
SidecarFails == SidecarEnds /\ UNCHANGED <<files, history>>

\* BiRefNetMatteProcessor.Run: any pixel may become transparent
BiRefNetMatte ==
    /\ did.op = "birefnet_matte" /\ artifact.kind = "still"
    /\ SidecarEnds
    /\ \E gone \in Mattes :
         artifact' = [artifact EXCEPT !.px =
                        [p \in DOMAIN @ |-> IF p \in gone THEN [@[p] EXCEPT !.a = Clear]
                                            ELSE @[p]]]
    /\ UNCHANGED <<frames, sheet, meta, history>>

\* The sidecar reads a frame's colours, whatever its opacity, and makes that anew; an
\* unreadable frame stays so
Matted(img, mask) ==
    IF img = Broken THEN img
    ELSE [img EXCEPT !.alpha = TRUE,
                     !.px = [p \in DOMAIN @ |-> IF p \in DOMAIN mask THEN mask[p] ELSE Clear]]
Overlaid(masks) ==
    [i \in DOMAIN frames |->
        IF i \in DOMAIN masks THEN Matted(frames[i], masks[i]) ELSE frames[i]]
Shows(masks) ==
    [i \in DOMAIN frames |-> IF i \in DOMAIN masks THEN Overlaid(masks)[i] ELSE shown[i]]

\* VideoMatteProcessor.Run: the frames the sidecar produced are copied over the
\* others, normalized ones included.  Fewer than all is success
VideoMatte ==
    /\ did.op = "video_matte" /\ frames # NoFrames
    /\ SidecarEnds
    /\ \E made \in (SUBSET DOMAIN frames) \ {{}} : \E masks \in [made -> Masks] :
         frames' = Overlaid(masks) /\ shown' = Shows(masks)
    /\ UNCHANGED <<artifact, sheet, meta, stitched, apart, torn>>

\* Frame k cannot be copied: copyFile leaves it alone, or has os.WriteFile truncate
\* it; the ones before it are copied
MatteBreaks ==
    /\ did.op = "video_matte" /\ frames # NoFrames
    /\ SidecarEnds
    /\ \E k \in DOMAIN frames : \E made \in SUBSET {i \in DOMAIN frames : i < k} :
       \E masks \in [made -> Masks], left \in {frames[k], Broken} :
         frames' = [Overlaid(masks) EXCEPT ![k] = left] /\ shown' = Shows(masks)
    /\ UNCHANGED <<artifact, sheet, meta, stitched, apart, torn>>

\* CheckFrameConsistencyProcessor.Run only reports
CheckFrameConsistency ==
    /\ did.op = "check_frame_consistency"
    /\ SidecarEnds
    /\ UNCHANGED <<files, history>>

-------------------------------------------------------------------------------
\* NormalizeFramesProcessor.Run: every frame is read first and written last.
\* Mutant: each frame is centred by its own content
Normal_alone(cfg) ==
    [i \in DOMAIN frames |-> Normalized(<<frames[i]>>, cfg)[1]]
Normal(cfg) == Normalized(frames, cfg)

Box(cfg) == UnionBox([i \in DOMAIN frames |-> Floored(frames[i], cfg)], cfg.floor)
Collapses(cfg) == \E k \in 1..2 : Shrunk(Canvas(Box(cfg), cfg.padding), cfg.scale)[k] = 0

\* Nothing visible, or nothing left of it after scaling, refuses.  Frame k cannot be
\* opened and stays, or cannot be written whole: the ones after it are not tried
NormalizeFrames ==
    /\ frames # NoFrames /\ Readable
    /\ Ends("normalize_frames", <<>>)
    /\ \E cfg \in NormalizeConfigs :
         IF Box(cfg) = NoBox \/ Collapses(cfg)
         THEN frames' = frames /\ torn' = torn
         ELSE \/ frames' = Normal(cfg) /\ torn' = torn
              \/ \E k \in DOMAIN frames : \E left \in {frames[k], Broken} :
                   /\ frames' = [i \in DOMAIN frames |->
                                    IF i < k THEN Normal(cfg)[i]
                                    ELSE IF i = k THEN left ELSE frames[i]]
                   /\ torn' = (torn \/ (left # Broken /\ k # 1))
    /\ UNCHANGED <<polled, artifact, sheet, meta, child, claims, shown, stitched, apart>>

-------------------------------------------------------------------------------
\* StitchSpritesheetProcessor.Run: all frames of one size
Stitchable ==
    /\ frames # NoFrames /\ Readable
    /\ \A i \in DOMAIN frames : frames[i].w = frames[1].w /\ frames[i].h = frames[1].h

\* The frame directory is removed whatever the outcome; its name stays in the
\* state, so a later operation finds no frames
StitchRefuses ==
    /\ frames # NoFrames /\ ~Stitchable
    /\ Ends("stitch_spritesheet", <<>>)
    /\ frames' = NoFrames
    /\ UNCHANGED <<polled, artifact, sheet, meta, child, claims, history>>

\* The metadata first: written, cut short, or not opened
WriteMeta ==
    /\ Stitchable
    /\ \E columns \in ColumnCounts :
         \/ /\ Begin("stitch_spritesheet", <<columns>>)
            /\ meta' = [state |-> "whole", is |-> Metadata(frames, columns)]
            /\ pc' = "sheet" /\ frames' = frames
         \/ /\ Ends("stitch_spritesheet", <<columns>>)
            /\ meta' \in {meta, [state |-> "cut", is |-> <<>>]}
            /\ frames' = NoFrames
    /\ UNCHANGED <<polled, artifact, sheet, child, claims, history>>

\* Mutant: the metadata stays after a failed encode
AfterFailedSheet_keeps(removed) == meta

\* The metadata is removed; an error of that is not looked at
AfterFailedSheet(removed) == IF removed THEN NoMeta ELSE meta

\* Mutant: the video goes before the sheet is whole
VideoAfter_early(done) == NoArtifact

VideoAfter(done) == IF done THEN NoArtifact ELSE artifact

\* Then the sheet, over the one that may be there: written, cut short, or not opened.
\* The metadata goes with a failure, if it can be removed
WriteSheet ==
    /\ pc = "sheet"
    /\ \/ /\ sheet' = [state |-> "whole", px |-> Stitched(frames, did.cfg[1])]
          /\ stitched' = frames /\ apart' = FALSE
          /\ pc' = "video" /\ meta' = meta /\ frames' = frames
       \/ /\ \/ sheet' = [state |-> "cut", px |-> <<>>] /\ stitched' = NoFrames
             \/ sheet' = sheet /\ stitched' = stitched
          /\ \E removed \in BOOLEAN : meta' = AfterFailedSheet(removed) /\ apart' = ~removed
          /\ frames' = NoFrames
          /\ pc' = "ops"
    /\ artifact' = VideoAfter(FALSE)
    /\ UNCHANGED <<polled, did, ops, child, claims, shown, torn>>

\* At last the video, unless keep_video, and the path in the state
RemoveVideo ==
    /\ pc = "video"
    /\ \E keep \in BOOLEAN : artifact' = IF keep THEN artifact ELSE VideoAfter(TRUE)
    /\ pc' = "ops"
    /\ claims' = TRUE /\ frames' = NoFrames
    /\ UNCHANGED <<polled, sheet, meta, did, ops, child, history>>

\* The bridge is killed with its guest
Crash ==
    /\ pc \notin {"request", "done"}
    /\ pc' = "dead"
    /\ UNCHANGED <<polled, files, did, ops, child, claims, history>>

Step ==
    \/ Request \/ Poll \/ GiveUp \/ Save \/ Respond \/ Skip
    \/ ChromaKey \/ BinarizeAlpha \/ PlateSpeckCleanup \/ StartExtract \/ ExtractEnds
    \/ StartSidecar \/ SidecarFails \/ BiRefNetMatte \/ VideoMatte \/ MatteBreaks
    \/ CheckFrameConsistency \/ NormalizeFrames \/ StitchRefuses \/ WriteMeta
    \/ WriteSheet \/ RemoveVideo

Next == Step \/ ChildExits \/ ChildReleases \/ Crash

\* The bridge goes on, and its clients and contexts have timeouts: a process ends or
\* is killed, its descendants are not
Fairness == WF_vars(Step) /\ WF_vars(ChildExits)
Spec == Init /\ [][Next]_vars
FairSpec == Spec /\ Fairness

-------------------------------------------------------------------------------
\* Properties

AtRest == pc \in {"ops", "extract", "sidecar", "done"}
Described == sheet.state = "whole" /\ meta.state = "whole"

\* Cut by the metadata the sheet gives back every frame it was made from, in order
Matches ==
    /\ meta.is.frame_count = Len(stitched)
    /\ \A i \in DOMAIN stitched : Cell(sheet.px, meta.is, i) = stitched[i].px

\* Between operations, a whole sheet with whole metadata are of one pass, also when
\* an earlier call left files of the same names and this one failed half-way: but
\* for what a death between the two writes left there, and for metadata that could
\* not be removed after their sheet failed (StitchSpritesheetProcessor.Run)
SheetMatchesMetadata == AtRest /\ Described /\ ~apart => Matches

\* The subject does not jump from one cell of a sheet to the next, and nothing of
\* it is cut off: all cells have their corner in one place of the video's picture,
\* and there the solid pixels are those the last matte of the frame left, whatever
\* was normalized, matted again, skipped or failed in between and however often, as
\* long as no pass of normalize_frames stopped at a frame it could not open, which
\* leaves some frames centred and others not (normalize_frames centres by the union
\* of all boxes)
SolidAt(img) == {p \in DOMAIN img.px : img.px[p] = Solid}
InVideo(img) == {<<p[1] + img.at[1], p[2] + img.at[2]>> : p \in SolidAt(img)}
SubjectStaysPut ==
    pc = "video" /\ ~torn =>
        \A i \in DOMAIN stitched :
            /\ stitched[i].at = stitched[1].at
            /\ stitched[i].div = 1 => InVideo(stitched[i]) = InVideo(shown[i])

\* The animation is never lost: whatever fails and wherever the process dies,
\* there is the video or a whole sheet with its metadata
\* (StitchSpritesheetProcessor.Run removes the video last)
VideoOrSheet ==
    shown # NoFrames => artifact.kind = "video" \/ (Described /\ Matches)

\* The smallest set around a flagged pixel that is closed under adjacency
Around(p, connectivity) ==
    {<<p[1] + d[1], p[2] + d[2]>> : d \in
        {d \in (-1..1) \X (-1..1) :
            d # <<0, 0>> /\ (connectivity = 4 => d[1] = 0 \/ d[2] = 0)}}
Component(flagged, connectivity, p) ==
    LET closed == {S \in SUBSET flagged :
                      p \in S /\ \A q \in S : Around(q, connectivity) \cap flagged \subseteq S}
    IN CHOOSE S \in closed : \A T \in closed : S \subseteq T

TouchesOutside(px, flagged, connectivity, S) ==
    \E q \in UNION {Around(p, connectivity) : p \in S} :
        q \notin DOMAIN px \/ (q \notin flagged /\ px[q].a = Clear)

\* plate_speck_cleanup erases the connected components of plate-coloured pixels
\* that are small, or, when asked, touch the outside, and nothing else: the flood
\* fill computes what the comment on PlateSpeckCleanupProcessor describes
SpecksErased ==
    [][did'.op = "plate_speck_cleanup" /\ ops' # ops =>
        LET old == artifact.px
            flagged == Flagged(old)
        IN \A p \in DOMAIN old :
            artifact'.px[p] =
                IF /\ p \in flagged
                   /\ LET S == Component(flagged, did'.cfg[1], p)
                      IN \/ Cardinality(S) <= did'.cfg[2]
                         \/ did'.cfg[3] /\ TouchesOutside(old, flagged, did'.cfg[1], S)
                THEN Erased ELSE old[p]]_vars

\* Every call is answered unless the bridge is killed, or a descendant of ffmpeg
\* never lets go of its output: sidecars whose workers hold on to theirs, failed
\* operations and endless polls included (runSidecarCmd; ExtractVideoFrames does
\* not use it)
CallReturns ==
    <>(pc \in {"done", "dead"}) \/ <>[](pc = "extract" /\ ~child.running /\ child.held)

\* Comments on the code that TLC refutes.  postprocess.go:961, of
\* plate_speck_cleanup: "This op only modifies the alpha channel; RGB is never
\* touched".  It zeroes RGB too
ColourUntouched ==
    [][did'.op = "plate_speck_cleanup" /\ ops' # ops =>
        \A p \in DOMAIN artifact.px : artifact'.px[p].c = artifact.px[p].c]_vars

\* Not promised anywhere, and not so: chroma_key decides on opacity by colour
\* alone, so run after a matte, or twice, it makes the background opaque black
MatteKept ==
    [][artifact.kind = "still" /\ artifact'.kind = "still" =>
        \A p \in DOMAIN artifact.px : artifact.px[p].a = Clear => artifact'.px[p].a = Clear]_vars
===============================================================================
