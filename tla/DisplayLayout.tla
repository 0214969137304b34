----------------------------- MODULE DisplayLayout -----------------------------
(* The arrangement of the displays on the page (settings/src/display/layout.rs, *)
(* and the edits of model.rs that change rectangles). A rectangle is a record   *)
(* of its corner and size; layout is the sequence of the displays. And their    *)
(* fractional scales (scale.rs): a scale is a number of 1/120ths, hyprctl       *)
(* prints it in hundredths, and Hyprland keeps one that divides both sides of   *)
(* the mode into whole pixels.                                                  *)
EXTENDS Integers, Sequences, FiniteSets, SequencesExt

CONSTANTS LiveLayouts,    \* arrangements Hyprland may report
          Sizes,          \* logical sizes a mode, a scale or a turn may give
          DropAt,         \* corners a display may be dropped at
          Threshold,      \* Canvas::snap_threshold
          MaxEdits,       \* bound
          Modes,          \* <<width, height>> in pixels
          Asked           \* scales the slider may give, in 1/120ths

VARIABLES layout, edits
layoutVars == <<layout, edits>>

Right(r) == r.x + r.w
Bottom(r) == r.y + r.h
Smaller(a, b) == IF a < b THEN a ELSE b
Larger(a, b) == IF a > b THEN a ELSE b
Distance(a, b) == IF a > b THEN a - b ELSE b - a
OverlapX(a, b) == Smaller(Right(a), Right(b)) - Larger(a.x, b.x)
OverlapY(a, b) == Smaller(Bottom(a), Bottom(b)) - Larger(a.y, b.y)
Overlaps(a, b) == OverlapX(a, b) > 0 /\ OverlapY(a, b) > 0
SharesEdge(a, b) ==
    \/ (Right(a) = b.x \/ Right(b) = a.x) /\ OverlapY(a, b) > 0
    \/ (Bottom(a) = b.y \/ Bottom(b) = a.y) /\ OverlapX(a, b) > 0

(* The allowed value nearest to the target, the lower of two.                   *)
Nearest(candidates, target) ==
    CHOOSE c \in candidates : \A d \in candidates :
        \/ Distance(c, target) < Distance(d, target)
        \/ Distance(c, target) = Distance(d, target) /\ c <= d
NearestAllowed(low, high, forbidden, target) ==
    LET allowed == {v \in low..high : \A span \in forbidden : v < span[1] \/ v > span[2]}
    IN IF allowed = {} THEN <<>> ELSE <<Nearest(allowed, target)>>

Absolute(n) == Distance(n, 0)
FacingSide(anchor, r) ==
    LET dx == (2 * r.x + r.w) - (2 * anchor.x + anchor.w)
        dy == (2 * r.y + r.h) - (2 * anchor.y + anchor.h)
    IN IF Absolute(dx) * (anchor.h + r.h) >= Absolute(dy) * (anchor.w + r.w)
       THEN IF dx >= 0 THEN "right" ELSE "left"
       ELSE IF dy >= 0 THEN "below" ELSE "above"

(* The position of r on one side of an anchor, if any is free: on the edge as   *)
(* near as can be, or flush with its end where r is past a corner.              *)
OnSide(r, anchor, side, placed) ==
    LET stacked == side \in {"below", "above"}
        fixed == CASE side = "right" -> Right(anchor) [] side = "left" -> anchor.x - r.w
                   [] side = "below" -> Bottom(anchor) [] side = "above" -> anchor.y - r.h
        from(a) == IF stacked THEN a.x ELSE a.y
        to(a)   == IF stacked THEN Right(a) ELSE Bottom(a)
        length  == IF stacked THEN r.w ELSE r.h
        low  == from(anchor) - length + 1
        high == to(anchor) - 1
        at(v) == IF stacked THEN [r EXCEPT !.x = v, !.y = fixed] ELSE [r EXCEPT !.x = fixed, !.y = v]
        level(p) == IF stacked THEN OverlapY(at(0), p) > 0 ELSE OverlapX(at(0), p) > 0
        forbidden == {<<from(p) - length + 1, to(p) - 1>> : p \in {q \in ToSet(placed) : level(q)}}
        aim == IF from(r) < low THEN Smaller(from(anchor), to(anchor) - length)
               ELSE IF from(r) > high THEN Larger(from(anchor), to(anchor) - length)
               ELSE from(r)
        slide == NearestAllowed(low, high, forbidden, aim)
    IN [i \in 1..Len(slide) |-> at(slide[i])]

SidesInOrder == <<"right", "left", "below", "above">>
Far(a, b) == (a.x - b.x) * (a.x - b.x) + (a.y - b.y) * (a.y - b.y)
NearestOnSides(r, placed, facingOnly) ==
    LET tries == [i \in 1..(4 * Len(placed)) |->
            LET anchor == placed[((i - 1) \div 4) + 1]
                side == SidesInOrder[((i - 1) % 4) + 1]
            IN IF facingOnly /\ side # FacingSide(anchor, r) THEN <<>> ELSE OnSide(r, anchor, side, placed)]
        found == FlattenSeq(tries)
    IN IF found = <<>> THEN <<>>
       ELSE <<found[CHOOSE i \in DOMAIN found : \A j \in DOMAIN found :
                 Far(found[i], r) < Far(found[j], r) \/ (Far(found[i], r) = Far(found[j], r) /\ i <= j)]>>
NearestAttachment(r, placed) ==
    LET facing == NearestOnSides(r, placed, TRUE)
        any == NearestOnSides(r, placed, FALSE)
    IN IF facing # <<>> THEN facing[1] ELSE IF any # <<>> THEN any[1] ELSE r

(* Mutant: a display that touches a placed one stays, also on top of another.   *)
TouchesOne(r, placed) == \E i \in DOMAIN placed : SharesEdge(r, placed[i])

(* normalize places the displays in (x, y) order: the next that is attached to  *)
(* the placed ones and overlaps none stays, and where none does the first one   *)
(* moves. The result starts at 0, 0.                                            *)
FitsAmong(r, placed) ==
    /\ \E i \in DOMAIN placed : SharesEdge(r, placed[i])
    /\ \A i \in DOMAIN placed : ~Overlaps(r, placed[i])
InOrder(rects) ==
    SetToSortSeq(DOMAIN rects, LAMBDA i, j :
        \/ rects[i].x < rects[j].x
        \/ rects[i].x = rects[j].x /\ rects[i].y < rects[j].y
        \/ rects[i].x = rects[j].x /\ rects[i].y = rects[j].y /\ i < j)
(* Mutant: the displays are placed strictly in order.                           *)
PlaceFirst(state) ==
    LET placed == [i \in DOMAIN state.done |-> state.rects[state.done[i]]]
        who == Head(state.pending)
        moved == IF placed # <<>> /\ ~FitsAmong(state.rects[who], placed)
                 THEN [state.rects EXCEPT ![who] = NearestAttachment(@, placed)] ELSE state.rects
    IN [rects |-> moved, done |-> Append(state.done, who), pending |-> Tail(state.pending)]

PlaceNext(state) ==
    LET placed == [i \in DOMAIN state.done |-> state.rects[state.done[i]]]
        fits == {i \in DOMAIN state.pending : FitsAmong(state.rects[state.pending[i]], placed)}
        at == IF fits = {} THEN 1 ELSE CHOOSE i \in fits : \A j \in fits : i <= j
        who == state.pending[at]
        moved == IF fits = {} /\ placed # <<>>
                 THEN [state.rects EXCEPT ![who] = NearestAttachment(@, placed)] ELSE state.rects
    IN [rects |-> moved, done |-> Append(state.done, who), pending |-> RemoveAt(state.pending, at)]
Placing(rects) ==
    LET step[n \in 0..Len(rects)] ==
            IF n = 0 THEN [rects |-> rects, done |-> <<>>, pending |-> InOrder(rects)]
            ELSE PlaceNext(step[n - 1])
    IN step[Len(rects)].rects
LeastOf(set) == CHOOSE a \in set : \A b \in set : a <= b
ToOrigin(rects) ==
    LET left == LeastOf({rects[i].x : i \in DOMAIN rects})
        top == LeastOf({rects[i].y : i \in DOMAIN rects})
    IN [i \in DOMAIN rects |-> [rects[i] EXCEPT !.x = @ - left, !.y = @ - top]]
Normalize(rects) == ToOrigin(Placing(rects))

(* A dropped display is aligned with the edges of the others that are near.     *)
SnapDrop(others, r) ==
    LET snap(current, candidates) ==
            LET near == {c \in candidates : Distance(c, current) <= Threshold}
            IN IF near = {} THEN current ELSE Nearest(near, current)
    IN [r EXCEPT !.x = snap(@, UNION {{o.x, Right(o), o.x - r.w, Right(o) - r.w} : o \in others}),
                 !.y = snap(@, UNION {{o.y, Bottom(o), o.y - r.h, Bottom(o) - r.h} : o \in others})]

-----------------------------------------------------------------------------
LayoutInit == layout \in LiveLayouts /\ edits = 0
NormalizeAfter(rects) == layout' = IF rects = layout THEN layout ELSE Normalize(rects)
Edited == edits < MaxEdits /\ edits' = edits + 1

(* change_mode, change_scale and change_orientation give a display a new size.  *)
Resize(i) ==
    Edited /\ \E size \in Sizes : NormalizeAfter([layout EXCEPT ![i].w = size[1], ![i].h = size[2]])
DropDisplay(i) ==
    /\ Edited
    /\ \E corner \in DropAt :
        LET others == {layout[j] : j \in DOMAIN layout \ {i}}
            dropped == SnapDrop(others, [layout[i] EXCEPT !.x = corner[1], !.y = corner[2]])
        IN NormalizeAfter([layout EXCEPT ![i] = dropped])
LayoutNext == \E i \in DOMAIN layout : Resize(i) \/ DropDisplay(i)

-----------------------------------------------------------------------------
(* What an edit shows is what Apply writes: no two displays overlap, each is    *)
(* reached from the first over shared edges, and the arrangement starts at      *)
(* 0, 0 (layout.rs:4-6), however the displays were dropped or resized and       *)
(* although a live layout may be none of that.                                  *)
Reached(rects) ==
    LET grow[n \in 0..Len(rects)] ==
        IF n = 0 THEN {1}
        ELSE grow[n - 1] \cup {i \in DOMAIN rects : \E j \in grow[n - 1] : SharesEdge(rects[i], rects[j])}
    IN grow[Len(rects)]
Valid(rects) ==
    /\ \A i, j \in DOMAIN rects : i # j => ~Overlaps(rects[i], rects[j])
    /\ Reached(rects) = DOMAIN rects
EditsGiveValidLayouts ==
    [][layout' # layout => Valid(layout') /\ ToOrigin(layout') = layout']_layoutVars

(* "A valid layout is therefore never rearranged": normalizing one moves it to  *)
(* the origin and no more.                                                      *)
ValidLayoutsStay == Valid(layout) => Normalize(layout) = ToOrigin(layout)

-----------------------------------------------------------------------------
(* Scales.                                                                      *)
MinScale == 60
MaxScale == 360

VARIABLES mode, scale
scaleVars == <<mode, scale>>

IsExact(m, k) == (120 * m[1]) % k = 0 /\ (120 * m[2]) % k = 0
Apart(a, b) == IF a > b THEN a - b ELSE b - a
(* The exact scale nearest to the one asked for, the higher of two: the search  *)
(* goes k, k + 1, k - 1, k + 2, and so on.                                      *)
SearchFrom(m, start, range) ==
    LET exact == {k \in range : IsExact(m, k)}
    IN IF exact = {} THEN 120
       ELSE CHOOSE k \in exact : \A j \in exact :
                Apart(k, start) < Apart(j, start) \/ (Apart(k, start) = Apart(j, start) /\ k >= j)
Clamp(k) == IF k < MinScale THEN MinScale ELSE IF k > MaxScale THEN MaxScale ELSE k
Snap(m, asked) == SearchFrom(m, Clamp(asked), MinScale..MaxScale)

(* hyprctl prints a scale to two decimals, and recover_live looks for the exact *)
(* one that would print so, the nearest of them; 0 stands for none.             *)
Printed(k) == (100 * k + 60) \div 120
Ceiling(a, b) == (a + b - 1) \div b
RecoverLive(m, hundredths) ==
    LET low == Ceiling((100 * hundredths - 51) * 120, 10000)
        high == ((100 * hundredths + 51) * 120) \div 10000
        exact == {k \in (IF low < 1 THEN 1 ELSE low)..high : IsExact(m, k)}
        off(k) == Apart(100 * k, 120 * hundredths)
    IN IF exact = {} THEN 0
       ELSE CHOOSE k \in exact : \A j \in exact : off(k) < off(j) \/ (off(k) = off(j) /\ k <= j)

ScaleInit == mode \in Modes /\ scale = 120
ChangeScale == \E k \in Asked : scale' = Snap(mode, k) /\ UNCHANGED mode
ChangeMode ==
    /\ mode' \in Modes
    /\ scale' = IF IsExact(mode', scale) THEN scale ELSE Snap(mode', scale)
ScaleNext == ChangeScale \/ ChangeMode

-----------------------------------------------------------------------------
(* The scale of an edit is one Hyprland keeps, and reading it back from two     *)
(* printed decimals gives the same scale: the page, the file and what is live   *)
(* agree (scale.rs:3-7).                                                        *)
ScaleIsKept ==
    /\ IsExact(mode, scale) /\ scale \in MinScale..MaxScale
    /\ RecoverLive(mode, Printed(scale)) = scale
=============================================================================
