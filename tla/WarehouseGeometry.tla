-------------------------- MODULE WarehouseGeometry --------------------------
(***************************************************************************)
(* Where things stand on the floor plan: the rules of                        *)
(* validateWarehouseLayoutGeometry, the access points that saveLayout moves   *)
(* to the nearest aisle, and the edits that keep to these rules.  The        *)
(* transactions of the edits are those of WarehouseLayout, which shows that   *)
(* they do not interleave; here each is one step.                            *)
(*                                                                         *)
(* Metres are integers, and sizes even, so that a centre is a point too.     *)
(***************************************************************************)
EXTENDS Integers, FiniteSets, Functions, FiniteSetsExt

CONSTANTS ZoneIds, RackIds,
          Aisles, Gates,    \* codes, in their order
          Canvases,         \* bound: the sizes [w, h] of the canvas
          Templates,        \* bound: the sizes [w, d] of every rack
          ZoneForms,        \* bound: [x, y, w, h, rotation]
          RackForms,        \* bound: [zone, x, y, rotation, access]
          AisleForms,       \* bound: [x, y, w, h, type]
          GateForms         \* bound: points

Rotations == {0, 90}
AisleTypes == {"MAIN", "RACK"}
Point == Int \X Int

ASSUME GeometryAssumption ==
    /\ Aisles \subseteq Nat /\ Gates \subseteq Nat
    /\ Canvases \subseteq [w : Nat \ {0}, h : Nat \ {0}] /\ Canvases # {}
    /\ Templates \subseteq [w : Nat \ {0}, d : Nat \ {0}] /\ Templates # {}
    /\ ZoneForms \subseteq [x : Int, y : Int, w : Int, h : Int, rotation : Rotations]
    /\ RackForms \subseteq [zone : ZoneIds, x : Int, y : Int, rotation : Rotations, access : Point]
    /\ AisleForms \subseteq [x : Int, y : Int, w : Int, h : Int, type : AisleTypes]
    /\ GateForms \subseteq Point

\* The live documents: canvas and template, and a function for each kind of thing.
VARIABLE layout

NoThings == [x \in {} |-> 0]

----------------------------------------------------------------------------
\* Rectangles

Rect(x, y, w, h) == [x |-> x, y |-> y, w |-> w, h |-> h]

\* dimensionsForRotation
Turned(x, y, w, h, rotation) == IF rotation = 90 THEN Rect(x, y, h, w) ELSE Rect(x, y, w, h)

Encloses(outer, inner) ==
    /\ inner.x >= outer.x /\ inner.y >= outer.y
    /\ inner.x + inner.w <= outer.x + outer.w
    /\ inner.y + inner.h <= outer.y + outer.h

\* Mutated: things that stand side by side overlap.
TouchesAlready(a, b) ==
    /\ a.x <= b.x + b.w /\ a.x + a.w >= b.x
    /\ a.y <= b.y + b.h /\ a.y + a.h >= b.y

Overlaps(a, b) ==
    /\ a.x < b.x + b.w /\ a.x + a.w > b.x
    /\ a.y < b.y + b.h /\ a.y + a.h > b.y

CanvasRect(l) == Rect(0, 0, l.canvas.w, l.canvas.h)
ZoneRect(l, z) == Turned(l.zone[z].x, l.zone[z].y, l.zone[z].w, l.zone[z].h, l.zone[z].rotation)
AisleRect(l, a) == Rect(l.aisle[a].x, l.aisle[a].y, l.aisle[a].w, l.aisle[a].h)

RackRect(l, r) == Turned(l.rack[r].x, l.rack[r].y, l.template.w, l.template.d, l.rack[r].rotation)

PointRect(p) == Rect(p[1], p[2], 0, 0)

----------------------------------------------------------------------------
\* validateWarehouseLayoutGeometry

Issue(entity, id, code) == [entity |-> entity, id |-> id, code |-> code]

SizeIssues(l) ==
    {Issue("CANVAS", f, "VALUE_MUST_BE_POSITIVE") : f \in {g \in DOMAIN l.canvas : l.canvas[g] <= 0}}
    \cup {Issue("RACK_TEMPLATE", f, "VALUE_MUST_BE_POSITIVE") :
             f \in {g \in DOMAIN l.template : l.template[g] <= 0}}
    \cup {Issue("ZONE", z, "VALUE_MUST_BE_POSITIVE") :
             z \in {y \in DOMAIN l.zone : l.zone[y].w <= 0 \/ l.zone[y].h <= 0}}
    \cup {Issue("AISLE", a, "VALUE_MUST_BE_POSITIVE") :
             a \in {b \in DOMAIN l.aisle : l.aisle[b].w <= 0 \/ l.aisle[b].h <= 0}}

CanvasIssues(l) ==
    {Issue("ZONE", z, "ZONE_OUTSIDE_CANVAS") :
        z \in {y \in DOMAIN l.zone : ~Encloses(CanvasRect(l), ZoneRect(l, y))}}
    \cup {Issue("AISLE", a, "AISLE_OUTSIDE_CANVAS") :
             a \in {b \in DOMAIN l.aisle : ~Encloses(CanvasRect(l), AisleRect(l, b))}}
    \cup {Issue("GATE", g, "GATE_OUTSIDE_CANVAS") :
             g \in {h \in DOMAIN l.gate : \/ l.gate[h][1] \notin 0..l.canvas.w
                                          \/ l.gate[h][2] \notin 0..l.canvas.h}}

RackIssues(l) ==
    UNION {LET rect == RackRect(l, r) IN
        (IF l.rack[r].zone \notin DOMAIN l.zone THEN {Issue("RACK", r, "RACK_ZONE_NOT_FOUND")}
         ELSE IF ~Encloses(ZoneRect(l, l.rack[r].zone), rect) THEN {Issue("RACK", r, "RACK_OUTSIDE_ZONE")}
         ELSE {})
        \cup (IF \E a \in DOMAIN l.aisle : Overlaps(rect, AisleRect(l, a))
              THEN {Issue("RACK", r, "RACK_OVERLAPS_AISLE")} ELSE {})
        \cup (IF \E a \in DOMAIN l.aisle : Encloses(AisleRect(l, a), PointRect(l.rack[r].access))
              THEN {} ELSE {Issue("RACK", r, "RACK_ACCESS_POINT_NOT_CONNECTED")})
        \cup (IF \E q \in DOMAIN l.rack \ {r} : Overlaps(rect, RackRect(l, q))
              THEN {Issue("RACK", r, "RACK_OVERLAPS_RACK")} ELSE {}) :
        r \in DOMAIN l.rack}

Issues(l) == SizeIssues(l) \cup CanvasIssues(l) \cup RackIssues(l)

----------------------------------------------------------------------------
\* findNearestAisleAccessPoint

Least(a, b) == IF a <= b THEN a ELSE b
Most(a, b) == IF a >= b THEN a ELSE b
Clamp(n, low, high) == Least(Most(n, low), high)

\* How far apart two rectangles are, squared.
Gap(a, aSize, b, bSize) == Most(Most(b - (a + aSize), a - (b + bSize)), 0)
Apart(a, b) ==
    LET dx == Gap(a.x, a.w, b.x, b.w)
        dy == Gap(a.y, a.h, b.y, b.h) IN
    dx * dx + dy * dy

\* The point of an aisle closest to the middle of a rack.
AccessPoint(rack, aisle) ==
    <<Clamp(rack.x + rack.w \div 2, aisle.x, aisle.x + aisle.w),
      Clamp(rack.y + rack.h \div 2, aisle.y, aisle.y + aisle.h)>>

\* Mutated: the first aisle will do.
FirstAisle(l, rack) == Min(DOMAIN l.aisle)

\* The nearest aisle; of several, one between racks, and then the first by its code.
NearestAisle(l, rack) ==
    LET far(a) == Apart(rack, AisleRect(l, a))
        near == {a \in DOMAIN l.aisle : \A b \in DOMAIN l.aisle : far(a) <= far(b)}
        between == {a \in near : l.aisle[a].type = "RACK"} IN
    Min(IF between # {} THEN between ELSE near)

\* normalizeRackAccessPoints
Normalized(l) ==
    IF DOMAIN l.aisle = {} THEN l
    ELSE [l EXCEPT !.rack = [r \in DOMAIN @ |->
             [@[r] EXCEPT !.access =
                 LET rect == RackRect(l, r) IN
                 AccessPoint(rect, AisleRect(l, NearestAisle(l, rect)))]]]

----------------------------------------------------------------------------
\* Edits

\* A thing is put where a form says, new or not, or taken away.
WithThing(things, i, form) == [j \in DOMAIN things \cup {i} |-> IF j = i THEN form ELSE things[j]]
Put(things, ids, forms) == {WithThing(things, i, f) : i \in ids, f \in forms}
Taken(things, ids) == {Restrict(things, DOMAIN things \ {i}) : i \in ids}

ZonePlans(l) ==
    {[l EXCEPT !.zone = z] :
        z \in Put(l.zone, ZoneIds, ZoneForms)
              \cup Taken(l.zone, {y \in DOMAIN l.zone : \A r \in DOMAIN l.rack : l.rack[r].zone # y})}

\* A rack is put in a zone there is; racks here have no shelves yet and may go.
RackPlans(l) ==
    {[l EXCEPT !.rack = r] :
        r \in Put(l.rack, RackIds, {f \in RackForms : f.zone \in DOMAIN l.zone})
              \cup Taken(l.rack, DOMAIN l.rack)}

AislePlans(l) ==
    {[l EXCEPT !.aisle = a] : a \in Put(l.aisle, Aisles, AisleForms) \cup Taken(l.aisle, DOMAIN l.aisle)}

GatePlans(l) ==
    {[l EXCEPT !.gate = g] : g \in Put(l.gate, Gates, GateForms) \cup Taken(l.gate, DOMAIN l.gate)}

TemplatePlans(l) == {[l EXCEPT !.template = t] : t \in Templates}

CanvasPlans(l) == {[l EXCEPT !.canvas = c] : c \in Canvases}

\* LocationService.mutateWithRevision of one document
Plans(l) ==
    (ZonePlans(l) \cup RackPlans(l) \cup AislePlans(l) \cup GatePlans(l) \cup TemplatePlans(l)) \ {l}

Steps(l) == Plans(l) \cup CanvasPlans(l)

\* A save of one operation, or of two; after the first the layout need not be valid (where
\* it is, two saves come to the same).
SavePlans(l) ==
    Steps(l) \cup UNION {Steps(m) : m \in {n \in Steps(l) : Issues(Normalized(n)) # {}}}

Mutate ==
    /\ \E l \in Plans(layout) : Issues(l) = {} /\ layout' = l

SaveLayout ==
    \E l \in {Normalized(m) : m \in SavePlans(layout)} : Issues(l) = {} /\ layout' = l

\* resetLayout, of a warehouse without stock
ResetLayout ==
    layout' = [layout EXCEPT !.zone = NoThings, !.rack = NoThings, !.aisle = NoThings, !.gate = NoThings]

GeometryInit ==
    \E c \in Canvases, t \in Templates :
        layout = [canvas |-> c, template |-> t, zone |-> NoThings, rack |-> NoThings,
                  aisle |-> NoThings, gate |-> NoThings]

GeometryNext == Mutate \/ SaveLayout \/ ResetLayout

GeometrySpec == GeometryInit /\ [][GeometryNext]_layout

----------------------------------------------------------------------------
\* Properties

\* The square metres of a rectangle, and its points with those of its edges.
Squares(r) == (r.x..(r.x + r.w - 1)) \X (r.y..(r.y + r.h - 1))
Points(r) == (r.x..(r.x + r.w)) \X (r.y..(r.y + r.h))

\* What the rules are for, metre by metre: everything lies on the canvas, a rack inside of
\* its zone and on ground of its own, and someone who works at it stands in an aisle.
Sound(l) ==
    /\ \A z \in DOMAIN l.zone : /\ Squares(ZoneRect(l, z)) # {}
                                /\ Squares(ZoneRect(l, z)) \subseteq Squares(CanvasRect(l))
    /\ \A a \in DOMAIN l.aisle : /\ Squares(AisleRect(l, a)) # {}
                                 /\ Squares(AisleRect(l, a)) \subseteq Squares(CanvasRect(l))
    /\ \A g \in DOMAIN l.gate : l.gate[g] \in Points(CanvasRect(l))
    /\ \A r \in DOMAIN l.rack :
          /\ l.rack[r].zone \in DOMAIN l.zone
          /\ Squares(RackRect(l, r)) \subseteq Squares(ZoneRect(l, l.rack[r].zone))
          /\ \A a \in DOMAIN l.aisle : Squares(RackRect(l, r)) \cap Squares(AisleRect(l, a)) = {}
          /\ \A q \in DOMAIN l.rack \ {r} : Squares(RackRect(l, r)) \cap Squares(RackRect(l, q)) = {}
          /\ \E a \in DOMAIN l.aisle : l.rack[r].access \in Points(AisleRect(l, a))

\* Whatever edits a layout went through, a part of them not valid by themselves, it is
\* sound; and an edit by the routes is only turned away if it would not be.
RulesAreExact ==
    /\ Sound(layout)
    /\ \A l \in Plans(layout) : Issues(l) = {} <=> Sound(l)

SquaredDistance(p, q) == (p[1] - q[1]) * (p[1] - q[1]) + (p[2] - q[2]) * (p[2] - q[2])

\* A save of the layout would leave every rack with an access point as near to the rack as
\* any point of any aisle is.
SavedAccessIsNearest ==
    LET saved == Normalized(layout) IN
    \A r \in DOMAIN saved.rack :
        LET near(p) == Min({SquaredDistance(p, q) : q \in Points(RackRect(saved, r))})
            access == near(saved.rack[r].access) IN
        \A a \in DOMAIN saved.aisle : \A p \in Points(AisleRect(saved, a)) : access <= near(p)
=============================================================================
