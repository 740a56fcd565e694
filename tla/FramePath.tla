------------------------------ MODULE FramePath ------------------------------
(***************************************************************************)
(* What happens to the bytes of one NV12 frame on its way to the outputs:  *)
(* GStreamerAdapter::CreateFrameFromSample finds its planes in the mapped  *)
(* buffer, the preprocessor checks it, MaterializeFrame copies it,         *)
(* WrapNv12 makes it the matrix OpenCV converts, the postprocessor crops   *)
(* and resizes it, and CompositeOverlay blends the overlay CairoOverlay-   *)
(* Renderer has drawn over it.                                             *)
(*                                                                         *)
(* A plane is where it lies, its length and stride, and the offset its     *)
(* first byte had in the camera's buffer.  One pixel stands for all.       *)
(***************************************************************************)
EXTENDS Integers, Sequences

CONSTANTS
  Widths, Heights,     \* geometries of the camera
  Slacks,              \* bytes the mapped buffer is longer than the image
  Outputs,             \* output geometries of the postprocessor, <<width, height>>
  Overlays,            \* geometries of the overlay picture, <<width, height>>
  Alphas,              \* alpha values of the overlay's pixel
  Unders               \* values of the pixel under it

ASSUME PathAssumption ==
  /\ Widths \cup Heights \subseteq Nat \ {0} /\ Slacks \subseteq Nat
  /\ Outputs \cup Overlays \subseteq (Nat \ {0}) \X (Nat \ {0})
  /\ Alphas \cup Unders \subseteq 0..255

VARIABLES
  stage,    \* how far the frame has come
  width, height, slack,
  planes,   \* of the frame: the luma plane, then the chroma plane
  mat,      \* the matrix of WrapNv12: the address of each row
  out,      \* the frame of the postprocessor: <<width, height>>
  overlay,  \* the picture: <<width, height>>
  drawn,    \* where CompositeOverlay draws it
  pixel     \* a pixel: what was under it, the one drawn over it, the result

geometry == <<width, height, slack>>
picture == <<out, overlay, drawn, pixel>>
pathVars == <<stage, geometry, planes, mat, picture>>

\* gst_video_info_from_caps lays NV12 out with strides rounded up to 4 and
\* heights to 2.
RoundUp(n, k) == ((n + k - 1) \div k) * k
Stride == RoundUp(width, 4)
ChromaOffset == Stride * RoundUp(height, 2)
MappedSize == ChromaOffset + Stride * (RoundUp(height, 2) \div 2) + slack

NotDrawn == [x |-> 0, y |-> 0, w |-> 0, h |-> 0]
NoPixel == [under |-> 0, premultiplied |-> 0, alpha |-> 0, result |-> 0]

PathTypeOK ==
  /\ stage \in {"sample", "captured", "bundled", "materialized", "wrapped", "resized",
                "composited", "dropped"}
  /\ \A i \in 1..Len(planes) : planes[i].size > 0
  /\ stage \in {"wrapped", "resized", "composited"} => Len(mat) = height + height \div 2
  /\ stage \in {"resized", "composited"} => out \in Outputs
  /\ pixel.result \in 0..255

PathInit ==
  /\ stage = "sample" /\ width \in Widths /\ height \in Heights /\ slack \in Slacks
  /\ planes = <<>> /\ mat = <<>> /\ out = <<0, 0>> /\ overlay = <<0, 0>>
  /\ drawn = NotDrawn /\ pixel = NoPixel

-----------------------------------------------------------------------------
\* A plane reaches up to the next one, the last to the end of the mapping.
CreateFrameFromSample ==
  /\ stage = "sample" /\ stage' = "captured"
  /\ planes' = << [data |-> 0, size |-> ChromaOffset, stride |-> Stride, from |-> 0],
                  [data |-> ChromaOffset, size |-> MappedSize - ChromaOffset,
                   stride |-> Stride, from |-> ChromaOffset] >>
  /\ UNCHANGED <<geometry, mat, picture>>

Even == width % 2 = 0 /\ height % 2 = 0

\* Odd geometries are no NV12 the preprocessor takes.
Preprocess ==
  /\ stage = "captured" /\ stage' = IF Even THEN "bundled" ELSE "dropped"
  /\ UNCHANGED <<geometry, planes, mat, picture>>

\* The planes one after the other in one vector.
MaterializeFrame ==
  /\ stage = "bundled" /\ stage' = "materialized"
  /\ planes' = <<[planes[1] EXCEPT !.data = 0],
                 [planes[2] EXCEPT !.data = planes[1].size]>>
  /\ UNCHANGED <<geometry, mat, picture>>

\* Mutant: the strides are not looked at.
ContiguousPlanes == planes[1].data + planes[1].size = planes[2].data

Contiguous == /\ planes[1].stride = width /\ planes[2].stride = width
              /\ planes[1].data + planes[1].size = planes[2].data

\* The bytes are used where they lie when the rows follow each other, and copied
\* row by row when not; the matrix then holds the rows of the planes.
WrapNv12 ==
  /\ stage = "materialized" /\ stage' = "wrapped"
  /\ mat' = [r \in 1..(height + height \div 2) |->
               IF Contiguous THEN planes[1].data + (r - 1) * width
               ELSE IF r <= height THEN planes[1].data + (r - 1) * planes[1].stride
               ELSE planes[2].data + (r - 1 - height) * planes[2].stride]
  /\ UNCHANGED <<geometry, planes, picture>>

\* The decision's crop is the whole frame; cv::resize makes it the output size.
Postprocess ==
  /\ stage = "wrapped" /\ stage' = "resized" /\ out' \in Outputs
  /\ UNCHANGED <<geometry, planes, mat, overlay, drawn, pixel>>

-----------------------------------------------------------------------------
\* n * num / den in doubles, truncated: exact, or one less when the quotient is
\* a whole number and was rounded down.
Truncated(n, num, den) ==
  LET q == (n * num) \div den IN
  {q} \cup (IF (n * num) % den = 0 /\ q > 0 THEN {q - 1} ELSE {})

\* The scale of an overlay of size o on a frame of size f, as <<num, den>>.
Scale(f, o) == IF f[1] * o[2] <= f[2] * o[1] THEN <<f[1], o[1]>> ELSE <<f[2], o[2]>>

Least(a, b) == IF a <= b THEN a ELSE b
Most(a, b) == IF a <= b THEN b ELSE a

\* Where the overlay goes: scaled, at least a pixel, centred.
Placements(f, o) ==
  LET s == Scale(f, o) IN
  {[x |-> (f[1] - Least(f[1], w)) \div 2, y |-> (f[2] - Least(f[2], h)) \div 2,
    w |-> w, h |-> h]
     : w \in {Most(1, n) : n \in Truncated(o[1], s[1], s[2])},
       h \in {Most(1, n) : n \in Truncated(o[2], s[1], s[2])}}

\* The overlay column or row a drawn one is taken from.
Samples(d, s, size) == {Least(size - 1, n) : n \in Truncated(d, s[2], s[1])}

\* A premultiplied channel of Cairo's to a straight one.
Unpremultiply(c, alpha) ==
  IF alpha = 0 THEN 0 ELSE Least(255, (c * 255 + alpha \div 2) \div alpha)

\* A transparent pixel leaves the video's.
Blend(under, c, alpha) ==
  IF alpha = 0 THEN under
  ELSE (under * (255 - alpha) + Unpremultiply(c, alpha) * alpha) \div 255

CompositeOverlay ==
  /\ stage = "resized" /\ stage' = "composited"
  /\ overlay' \in Overlays
  /\ drawn' \in Placements(out, overlay')
  /\ \E u \in Unders, a \in Alphas : \E c \in {0, a \div 2, a} :
       pixel' = [under |-> u, premultiplied |-> c, alpha |-> a, result |-> Blend(u, c, a)]
  /\ UNCHANGED <<geometry, planes, mat, out>>

PathNext == \/ CreateFrameFromSample \/ Preprocess \/ MaterializeFrame \/ WrapNv12
            \/ Postprocess \/ CompositeOverlay

PathSpec == PathInit /\ [][PathNext]_pathVars

-----------------------------------------------------------------------------
\* The offset in the camera's buffer of the byte at an address, or -1.
Origin(a) ==
  LET in(i) == planes[i].data <= a /\ a < planes[i].data + planes[i].size IN
  IF in(1) THEN planes[1].from + a - planes[1].data
  ELSE IF in(2) THEN planes[2].from + a - planes[2].data ELSE -1

ImageRow(r) == IF r <= height THEN (r - 1) * Stride ELSE ChromaOffset + (r - 1 - height) * Stride

\* Whatever the padding of its rows, the matrix OpenCV converts holds the image:
\* every row starts and ends where it did in the camera's buffer.
MatrixIsTheImage ==
  stage = "wrapped" =>
    \A r \in 1..Len(mat) : /\ Origin(mat[r]) = ImageRow(r)
                           /\ Origin(mat[r] + width - 1) = ImageRow(r) + width - 1

\* Drawn pixels are sampled inside the picture and written inside the frame.
StaysInside(d, size, o, n) ==
  \A t \in 0..(d - 1) : /\ \A i \in Samples(t, Scale(out, overlay), size) : i \in 0..(size - 1)
                        /\ o + t < n

\* The overlay is drawn inside the frame, centred, filling it in one dimension to
\* a pixel, with its aspect ratio to a pixel of either side, and no sample is
\* taken outside the picture ("Max read offset is (height-1)*stride + (width-1)*4
\* + 3").
OverlayIsFitted ==
  stage = "composited" =>
    /\ StaysInside(drawn.w, overlay[1], drawn.x, out[1])
    /\ StaysInside(drawn.h, overlay[2], drawn.y, out[2])
    /\ drawn.w <= out[1] /\ drawn.h <= out[2]
    /\ out[1] - drawn.w - 2 * drawn.x \in {0, 1}
    /\ out[2] - drawn.h - 2 * drawn.y \in {0, 1}
    /\ out[1] - drawn.w <= 1 \/ out[2] - drawn.h <= 1
    /\ drawn.w * overlay[2] - drawn.h * overlay[1] <= Most(overlay[1], overlay[2])
    /\ drawn.h * overlay[1] - drawn.w * overlay[2] <= Most(overlay[1], overlay[2])

\* The pixel is the one Cairo drew, laid over the frame's, to a level and a half:
\* converting to straight alpha and blending lose no more.
PixelIsBlended ==
  stage = "composited" =>
    LET exact == 255 * pixel.premultiplied + pixel.under * (255 - pixel.alpha)
        error == 2 * (255 * pixel.result - exact)
    IN -3 * 255 <= error /\ error <= 255
=============================================================================
