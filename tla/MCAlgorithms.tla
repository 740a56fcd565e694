---------------------------- MODULE MCAlgorithms ----------------------------
(***************************************************************************)
(* The pure algorithms, each on all its small inputs: the bytes of a       *)
(* frame (FramePath), the names of raw captures (RawNaming) and the        *)
(* drawing of a layout (OverlayDrawing).  Nothing connects them; "part"    *)
(* tells which of them a behaviour is about.                               *)
(***************************************************************************)
EXTENDS FramePath, RawNaming, OverlayDrawing

VARIABLE part

\* A group id of a digit, those of up to three tokens of the delimiters, and a whole
\* marker with its camera; matches called like a capture, and one without an id.
ShortIds == {<<"1">>, Append(CameraMarker, "1")} \cup UNION {[1..n -> {"_", "cam"}] : n \in 1..3}
CaptureName == <<"raw", "_", "_", "a", "_", "_", "cam", "1", ".nv12">>
LikeCaptures == {<<>>, CaptureName, SubSeq(CaptureName, 1, Len(CaptureName) - 1)}

Sizes == {1, 2, 3, 5, 6, 7}
Geometries == Sizes \X Sizes

\* Texts with and without box, ink and extents; boxes, circles and one shape this
\* version does not know; opacities below, within and above the range, or none.
SomeElement(shapes, fills, inks, opacities, visibles) ==
  [name : {0}, shape : shapes, fill : fills, ink : inks, text : {TRUE}, area : BOOLEAN,
   opacity : opacities, visible : visibles, z : {0, 1}]

Texts == SomeElement({"text"}, {"", "RRGGBB"}, {"", "#RRGGBB"}, {<<>>, <<-1>>, <<1>>, <<3>>}, {<<>>})
Boxes == SomeElement({"rect", "circle"}, {"#RRGGBB"}, {""}, {<<>>, <<1>>}, {<<>>})
Others == SomeElement({"line", "text"}, {"red"}, {"#RRGGBB"}, {<<1>>}, {<<FALSE>>, <<TRUE>>})
SomeElements == Texts \cup Boxes \cup Others
SomeBanners == SomeElement({"text"}, {"RRGGBB"}, {"#RRGGBB"}, {<<1>>}, {<<FALSE>>})

AnyGeometry == CHOOSE g \in Widths \X Heights \X Slacks : TRUE

PartsInit == /\ PathInit /\ NamingInit /\ DrawingInit
             /\ part \in {"frames", "names", "drawing"}
             /\ part # "frames" => geometry = AnyGeometry
             /\ part # "drawing" => layout = <<>> /\ banner = <<>>

PartsNext == \/ part = "frames" /\ PathNext /\ UNCHANGED <<part, namingVars, drawingVars>>
             \/ part = "names" /\ NamingNext /\ UNCHANGED <<part, pathVars, drawingVars>>
             \/ part = "drawing" /\ DrawingNext /\ UNCHANGED <<part, pathVars, namingVars>>

PartsSpec == PartsInit /\ [][PartsNext]_<<part, pathVars, namingVars, drawingVars>>
=============================================================================
