---------------------------- MODULE ArchiveOutput ----------------------------
(***************************************************************************)
(* What becomes of a picture on its way into the archive: the policy of a  *)
(* project (archive_output_settings_service) applied to one source file    *)
(* (prepare_archive_source), and the facts recorded about the result, from *)
(* which the interface tells the user whether the policy was followed.     *)
(* A pure algorithm; ArchivePromotion takes its result as an output.       *)
(*                                                                         *)
(* Arithmetic is exact where the code computes in f64.                     *)
(***************************************************************************)
EXTENDS Naturals

Sizes   == {"keep", "1080p", "1440p", "2160p", "native"}
Formats == {"keep", "png", "jpeg", "webp"}
Qualities == 60 .. 100

\* canonical_format; "other" stands for every further format.
SourceFormats == {"png", "jpeg", "webp", "other"}
Extent == Nat \ {0}

\* A file probe_file cannot read has no extent and no format; a height of 0 is one
\* that nobody told.
Pictures == [width : Extent, height : Extent, format : SourceFormats]
Unreadable == [width |-> 0, height |-> 0, format |-> "unknown"]
Files == Pictures \cup {Unreadable}
Readable(pic) == pic.format # "unknown"

Specs == [size : Sizes, format : Formats, quality : Qualities, native : Nat]

-----------------------------------------------------------------------------
(* The policy *)

\* inherited_value: "inherit", nothing, and what is not allowed fall back.
Inherited(value, allowed, fallback) == IF value \in allowed THEN value ELSE fallback

\* resolve_spec_for_project, and the screen size of the capture for "native"
Resolved(project, global, screen) ==
    [size    |-> Inherited(project.size, Sizes, global.size),
     format  |-> Inherited(project.format, Formats, global.format),
     quality |-> Inherited(project.quality, Qualities, global.quality),
     native  |-> screen]

\* capture_engine_screen_size: the game has said it, and said something sensible.
ScreenSize(metadata) == Inherited(metadata, Extent, 0)

-----------------------------------------------------------------------------
(* prepare_archive_source                                                  *)

TargetHeight(spec) ==
    CASE spec.size = "1080p"  -> 1080
      [] spec.size = "1440p"  -> 1440
      [] spec.size = "2160p"  -> 2160
      [] spec.size = "native" -> spec.native
      [] spec.size = "keep"   -> 0

Converts(spec) == spec.format # "keep"

NeedsResize(pic, spec) ==
    TargetHeight(spec) # 0 /\ TargetHeight(spec) < pic.height

\* Kept formats are written anew only where that loses nothing unasked.
Reencodable(pic, spec) ==
    Readable(pic) /\ (Converts(spec) \/ pic.format \in {"png", "jpeg"})

ConvertNeeded(pic, spec) ==
    Converts(spec) /\ pic.format # spec.format

Reencodes(pic, spec) ==
    /\ Reencodable(pic, spec)
    /\ \/ ConvertNeeded(pic, spec) \/ NeedsResize(pic, spec)
       \/ spec.format \in {"jpeg", "webp"}

\* round(width * target / height), and at least one pixel
ScaledWidth(pic, target) ==
    LET w == (2 * pic.width * target + pic.height) \div (2 * pic.height)
    IN  IF w = 0 THEN 1 ELSE w

\* The file written: the source itself, or its decoded, scaled, encoded copy.
Written(pic, spec) ==
    IF ~Reencodes(pic, spec) THEN pic
    ELSE [width  |-> IF NeedsResize(pic, spec)
                     THEN ScaledWidth(pic, TargetHeight(spec)) ELSE pic.width,
          height |-> IF NeedsResize(pic, spec) THEN TargetHeight(spec) ELSE pic.height,
          format |-> IF Converts(spec) THEN spec.format ELSE pic.format]

\* size_policy_applied and format_applied of ArchiveImageFacts
SizeApplied(pic, spec) ==
    \/ spec.size = "keep"
    \/ /\ ~(spec.size = "native" /\ spec.native = 0)
       /\ Readable(pic) /\ (NeedsResize(pic, spec) => Reencodes(pic, spec))
FormatApplied(pic, spec) == ConvertNeeded(pic, spec) => Reencodes(pic, spec)

\* encode_archive_output: only JPEG has a quality. Of a file that was copied
\* nothing is claimed, unless it is PNG.
QualityKind(pic, spec) ==
    IF Reencodes(pic, spec)
    THEN IF Written(pic, spec).format = "jpeg" THEN "quality" ELSE "lossless"
    ELSE IF pic.format = "png" THEN "lossless" ELSE "unknown"

-----------------------------------------------------------------------------
\* "nothing is ever upscaled" (capture_archive_service.rs:288)
NeverUpscaled(pic, spec) ==
    /\ Written(pic, spec).width <= pic.width /\ Written(pic, spec).height <= pic.height
    /\ Readable(pic) => Written(pic, spec).width > 0 /\ Written(pic, spec).height > 0

\* What the interface shows as applied was applied: the file has the wanted
\* format, and is no higher than the wanted height. What it shows as not
\* applied was not.
FactsTrue(pic, spec) ==
    /\ FormatApplied(pic, spec)
           <=> (Converts(spec) => Written(pic, spec).format = spec.format)
    /\ SizeApplied(pic, spec)
           <=> \/ spec.size = "keep"
               \/ /\ Readable(pic) /\ TargetHeight(spec) # 0
                  /\ Written(pic, spec).height <= TargetHeight(spec)

\* A policy that keeps size and format archives the bytes of the screenshot
\* ("keep + keep" stays a copy), and no kept WebP is ever encoded anew.
CopyKept(pic, spec) ==
    spec.format = "keep" /\ (spec.size = "keep" \/ ~Readable(pic) \/ pic.format = "webp")
        => ~Reencodes(pic, spec) /\ QualityKind(pic, spec) # "quality"
================================================================================
