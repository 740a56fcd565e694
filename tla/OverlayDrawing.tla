--------------------------- MODULE OverlayDrawing ---------------------------
(***************************************************************************)
(* How a pushed layout becomes a picture: MapLayoutFromProto, the scene    *)
(* OverlayScene::Build makes of layout and banners, and CairoOverlay-      *)
(* Renderer, which draws the elements one after the other in one Cairo     *)
(* context.                                                                *)
(*                                                                         *)
(* Cairo is external: a context with its stack of states (of which the     *)
(* clip matters), its stack of groups, and an error that stays.  Opacity   *)
(* is counted in units, Opaque of them being 1.0; a field the app left out *)
(* is an empty sequence.  A picture is the sequence of the units laid over *)
(* it, each with its alpha and the parts it consists of.                   *)
(***************************************************************************)
EXTENDS Integers, Sequences, FiniteSets, SequencesExt

CONSTANTS
  Opaque,         \* units of opacity in 1.0
  LayoutElements, \* elements of the layouts the app pushes
  BannerElements, \* elements of their banner template
  MaxElements     \* bound of the model: elements in a layout

\* An element of a layout; its name stands for its box too.
Element == [name : Nat, shape : STRING, fill : STRING, ink : STRING, text : BOOLEAN,
            area : BOOLEAN, opacity : Seq(Int), visible : Seq(BOOLEAN), z : Int]

ASSUME DrawingAssumption ==
  /\ Opaque \in Nat \ {0} /\ MaxElements \in Nat
  /\ LayoutElements \cup BannerElements \subseteq Element

VARIABLES
  layout,  \* the OverlayLayout the app pushed
  banner,  \* the elements of the banner that is shown
  scene,   \* RenderScene::elements, those drawn already taken off
  context  \* the cairo_t

drawingVars == <<layout, banner, scene, context>>

-----------------------------------------------------------------------------
\* The mapper.  Mutant: the opacity is taken as it comes.
MapOpacityUnclamped(field) == IF field = <<>> THEN Opaque ELSE field[1]

MapOpacity(field) ==
  IF field = <<>> THEN Opaque ELSE Max({0, Min({Opaque, field[1]})})

MapVisible(field) == field = <<>> \/ field = <<TRUE>>

MapShape(shape) == IF shape \in {"rect", "text", "circle"} THEN shape ELSE "unknown"

MapElement(e) == [e EXCEPT !.opacity = MapOpacity(@), !.visible = MapVisible(@),
                           !.shape = MapShape(@)]

Mapped(elements) == [i \in DOMAIN elements |-> MapElement(elements[i])]

\* Showing a banner makes all its elements visible.
Shown(elements) == [i \in DOMAIN elements |-> [elements[i] EXCEPT !.visible = TRUE]]

\* Where std::stable_sort by layer may put what is visible: one order.
Before(e, f, i, j) == e.z < f.z \/ (e.z = f.z /\ i < j)

Orders(elements) ==
  LET seen == {i \in DOMAIN elements : elements[i].visible} IN
  {order \in [1..Cardinality(seen) -> seen] :
     /\ \A j, k \in DOMAIN order :
          j < k => Before(elements[order[j]], elements[order[k]], order[j], order[k])
     /\ \A i \in seen : \E k \in DOMAIN order : order[k] = i}

Build(elements, shown) ==
  LET all == elements \o shown IN
  {[k \in DOMAIN order |-> all[order[k]]] : order \in Orders(all)}

-----------------------------------------------------------------------------
\* Cairo (external).
NewContext == [error |-> FALSE, clip |-> {}, saved |-> <<>>, layers |-> << <<>> >>]
NoContext == [NewContext EXCEPT !.layers = <<>>]

Try(c, changed) == IF c.error THEN c ELSE changed
Fail(c) == [c EXCEPT !.error = TRUE]

Save(c) == Try(c, [c EXCEPT !.saved = Append(@, c.clip)])
Restore(c) == Try(c, [c EXCEPT !.clip = Last(c.saved), !.saved = Front(@)])
Clip(c, box) == Try(c, [c EXCEPT !.clip = @ \cup {box}])

\* The last transformation scales by the extents of a box.
ScaleTo(c, e) == IF e.area THEN c ELSE Try(c, Fail(c))

\* What lies outside of the clip is not painted; alpha is clamped in a source.
Lay(c, e, unit) ==
  Try(c, IF c.clip \subseteq {e.name}
         THEN [c EXCEPT !.layers[Len(c.layers)] = Append(@, unit)] ELSE c)

Paint(c, e, part, alpha) ==
  Lay(c, e, [parts |-> <<[of |-> e.name, part |-> part, alpha |-> Opaque]>>,
             alpha |-> Max({0, Min({Opaque, alpha})})])

PushGroup(c) == Try(c, [Save(c) EXCEPT !.layers = Append(@, <<>>)])

\* What a group holds becomes one unit; an alpha that is none is an error.  There
\* are no groups within groups: what one holds has one part each.
Flatten(units) ==
  [i \in DOMAIN units |->
    [units[i].parts[1] EXCEPT !.alpha = (@ * units[i].alpha) \div Opaque]]

PopAndPaint(c, e, alpha) ==
  LET group == Last(c.layers)
      below == [Restore(c) EXCEPT !.layers = Front(@)] IN
  Try(c, IF alpha \notin 0..Opaque THEN Fail(below)
         ELSE IF group = <<>> THEN below
         ELSE Lay(below, e, [parts |-> Flatten(group), alpha |-> alpha]))

-----------------------------------------------------------------------------
\* The renderer.  A colour counts when it is six hex digits, with or without #.
Valid(colour) == colour \in {"#RRGGBB", "RRGGBB"}

\* The glyphs, within the bounds of the element when it has any.
Clipped(c, e, alpha) ==
  IF e.area THEN Restore(Paint(Clip(Save(c), e.name), e, "glyphs", alpha))
  ELSE Paint(c, e, "glyphs", alpha)

\* Mutant: the opacity of the element is in the glyphs, in a group or not.
DrawGlyphsTwice(c, e, grouped) == Clipped(c, e, e.opacity)

\* In a group the glyphs are opaque.
DrawGlyphs(c, e, grouped) == Clipped(c, e, IF grouped THEN Opaque ELSE e.opacity)

\* The background under a text.
FillBox(c, e, alpha) ==
  IF Valid(e.fill) /\ e.area THEN Paint(c, e, "fill", alpha) ELSE c

HasGlyphs(e) == Valid(e.ink) /\ e.text

NeedsGroup(e) == e.opacity < Opaque \/ Valid(e.fill)

DrawText(c, e) ==
  LET grouped == NeedsGroup(e)
      filled == FillBox(IF grouped THEN PushGroup(c) ELSE c, e, Opaque)
      written == IF HasGlyphs(e) THEN DrawGlyphs(filled, e, grouped) ELSE filled IN
  IF ~Valid(e.fill) /\ ~HasGlyphs(e) THEN c
  ELSE IF grouped THEN PopAndPaint(written, e, e.opacity) ELSE written

DrawCircle(c, e) ==
  IF Valid(e.fill) /\ e.area
  THEN FillBox(Restore(ScaleTo(Save(c), e)), e, e.opacity) ELSE c

DrawElement(c, e) ==
  IF e.shape = "rect" THEN FillBox(c, e, e.opacity)
  ELSE IF e.shape = "circle" THEN DrawCircle(c, e)
  ELSE IF e.shape = "text" THEN DrawText(c, e)
  ELSE c

-----------------------------------------------------------------------------
\* An element is known by its place.
Named(elements, from) == [i \in DOMAIN elements |-> [elements[i] EXCEPT !.name = from + i]]

DrawingInit ==
  /\ layout \in UNION {[1..n -> LayoutElements] : n \in 0..MaxElements}
  /\ banner \in {<<>>} \cup {<<e>> : e \in BannerElements}
  /\ scene = <<>> /\ context = NoContext

FromLayout == Mapped(Named(layout, 0))
FromBanner == Shown(Mapped(Named(banner, Len(layout))))

\* Render builds the scene and a context ...
Render ==
  /\ context = NoContext /\ context' = NewContext
  /\ scene' \in Build(FromLayout, FromBanner)
  /\ UNCHANGED <<layout, banner>>

\* ... in which the elements are drawn in turn.
DrawNext ==
  /\ scene # <<>> /\ scene' = Tail(scene)
  /\ context' = DrawElement(context, Head(scene))
  /\ UNCHANGED <<layout, banner>>

DrawingNext == Render \/ DrawNext

DrawingSpec == DrawingInit /\ [][DrawingNext]_drawingVars

-----------------------------------------------------------------------------
Elements == FromLayout \o FromBanner

\* The elements that have been drawn.
Done == {i \in DOMAIN Elements : /\ Elements[i].visible
                                 /\ \A k \in DOMAIN scene : scene[k] # Elements[i]}

\* What an element paints on a fresh surface.
Alone(e) == DrawElement(NewContext, e).layers[1]

\* The units of the picture an element is part of.
Units == context.layers[1]
Of(e) == {p \in DOMAIN Units : \E k \in DOMAIN Units[p].parts : Units[p].parts[k].of = e.name}

\* Whatever is drawn before it, in error, clipped, scaled or in a group, an
\* element is painted as if it were alone, in one piece, and over those of the
\* layers below and those of its layer that were there before; and nothing else
\* is painted (CairoOverlayRenderer::Render; the clamp in MapStyle exists for this).
EachIsPainted ==
  context # NoContext =>
    /\ Len(context.layers) = 1
    /\ \A i \in Done :
         LET mine == Alone(Elements[i]) IN
         \E from \in 0..Len(Units) :
           /\ Of(Elements[i]) = (from + 1)..(from + Len(mine))
           /\ \A p \in DOMAIN mine : Units[from + p] = mine[p]
    /\ \A i, j \in Done : \A p \in Of(Elements[i]), q \in Of(Elements[j]) :
         p < q => i = j \/ Before(Elements[i], Elements[j], i, j)
    /\ DOMAIN Units = UNION {Of(Elements[i]) : i \in Done}

\* The opacity of an element is applied once, to all of it: a translucent box and
\* its text are one unit, or the video would show less through the letters
\* (DrawText: "overlapping fill/glyph coverage does not double-darken (U5)").
OpacityAppliedOnce ==
  \A i \in DOMAIN Elements : context # NoContext =>
    LET e == Elements[i] IN
    /\ \A p \in Of(e) :
         /\ Units[p].alpha = e.opacity
         /\ \A k \in DOMAIN Units[p].parts : Units[p].parts[k].alpha = Opaque
    /\ e.opacity < Opaque => \A p, q \in Of(e) : p = q
=============================================================================
