----------------------------- MODULE Navigation -----------------------------
(***************************************************************************)
(* calculateNavigationPath: the way from a gate to a rack along the middle   *)
(* lines of the aisles, by Dijkstra's algorithm.                            *)
(*                                                                         *)
(* Lengths are tenths of a metre, rounded down.  Corners are whole metres,   *)
(* so the tolerances of the code (0.35 m, 1 mm) decide nothing.             *)
(***************************************************************************)
EXTENDS WarehouseGeometry, Sequences, SequencesExt

CONSTANT Span       \* bound: no two points are further apart, in metres

ASSUME SpanAssumption == Span \in Nat

----------------------------------------------------------------------------
\* Lengths

SquareRoots == [n \in 0..(2 * Span * Span) |->
    CHOOSE k \in 0..(20 * Span) : k * k <= 100 * n /\ (k + 1) * (k + 1) > 100 * n]

Distance(p, q) == SquareRoots[(p[1] - q[1]) * (p[1] - q[1]) + (p[2] - q[2]) * (p[2] - q[2])]

----------------------------------------------------------------------------
\* The middle lines of the aisles

Across(l, a) == l.aisle[a].w >= l.aisle[a].h

\* The point of an aisle's middle line that is closest to another point.
Project(l, a, p) ==
    LET r == AisleRect(l, a) IN
    IF Across(l, a)
    THEN <<Clamp(p[1], r.x, r.x + r.w), r.y + r.h \div 2>>
    ELSE <<r.x + r.w \div 2, Clamp(p[2], r.y, r.y + r.h)>>

EndPoints(l, a) ==
    LET r == AisleRect(l, a) IN
    {Project(l, a, <<r.x, r.y>>), Project(l, a, <<r.x + r.w, r.y + r.h>>)}

\* rectanglesTouchOrOverlap
Touch(a, b) ==
    /\ a.x <= b.x + b.w /\ a.x + a.w >= b.x
    /\ a.y <= b.y + b.h /\ a.y + a.h >= b.y

\* intersection and aisleBridge: where two aisles that touch pass into each other, as a
\* pair of points of their middle lines, which are one where the lines cross.
Bridge(l, a, b) ==
    IF ~Touch(AisleRect(l, a), AisleRect(l, b)) THEN {}
    ELSE IF Across(l, a) # Across(l, b)
         THEN LET middle(c) == <<AisleRect(l, c).x + AisleRect(l, c).w \div 2,
                                 AisleRect(l, c).y + AisleRect(l, c).h \div 2>> IN
              {<<Project(l, a, middle(b)), Project(l, b, middle(a))>>}
         ELSE LET start == <<Most(AisleRect(l, a).x, AisleRect(l, b).x),
                             Most(AisleRect(l, a).y, AisleRect(l, b).y)>> IN
              {<<Project(l, a, start), Project(l, b, start)>>}

\* The points of an aisle where a way may turn.
Turns(l, a, more) ==
    EndPoints(l, a) \cup more
    \cup UNION {{pair[1] : pair \in Bridge(l, a, b)} : b \in DOMAIN l.aisle \ {a}}

\* Neighbours on a line are joined, and so are the two ends of a bridge.
Joined(l, more) ==
    UNION {LET points == Turns(l, a, more[a])
               between(p, q) == {m \in points \ {p, q} :
                   /\ m[1] \in Least(p[1], q[1])..Most(p[1], q[1])
                   /\ m[2] \in Least(p[2], q[2])..Most(p[2], q[2])} IN
           {e \in points \X points : e[1] # e[2] /\ between(e[1], e[2]) = {}} :
           a \in DOMAIN l.aisle}
    \cup UNION {{e \in Bridge(l, c[1], c[2]) : e[1] # e[2]} :
                c \in {d \in (DOMAIN l.aisle) \X (DOMAIN l.aisle) : d[1] # d[2]}}

----------------------------------------------------------------------------
\* Dijkstra's algorithm

\* Mutated: the first way found to a point is kept.
FirstWay(known, p, q) == q \notin DOMAIN known

Nearer(known, p, q) ==
    q \notin DOMAIN known \/ known[p].far + Distance(p, q) < known[q].far

RECURSIVE Settle(_, _, _, _)

\* Of the points left, the nearest is settled, until that is the target.
Settle(edges, target, left, known) ==
    LET reached == left \cap DOMAIN known
        p == CHOOSE q \in reached : \A o \in reached : known[q].far <= known[o].far
        better == {q \in {e[2] : e \in {d \in edges : d[1] = p}} : Nearer(known, p, q)} IN
    IF reached = {} \/ p = target THEN known
    ELSE Settle(edges, target, left \ {p},
                [q \in better |-> [far |-> known[p].far + Distance(p, q), via |-> p]] @@ known)

RECURSIVE WayBack(_, _, _)

WayBack(known, start, p) ==
    IF p = start THEN <<p>> ELSE Append(WayBack(known, start, known[p].via), p)

\* shortestPath: none, as the empty sequence, or a way from start to target.
ShortestPath(edges, start, target) ==
    LET nodes == {e[1] : e \in edges} \cup {start, target}
        known == Settle(edges, target, nodes, start :> [far |-> 0, via |-> start]) IN
    IF target \in DOMAIN known THEN WayBack(known, start, target) ELSE <<>>

----------------------------------------------------------------------------
\* calculateNavigationPath

\* appendUnique: a point that is on the list already is not put on it again.
AppendUnique(points, p) == IF p \in ToSet(points) THEN points ELSE Append(points, p)

WayLength(points) ==
    FoldLeftDomain(LAMBDA sum, i : IF i = 1 THEN 0 ELSE sum + Distance(points[i - 1], points[i]),
                   0, points)

AislesAt(l, p) == {a \in DOMAIN l.aisle : p \in
    LET r == AisleRect(l, a) IN (r.x..(r.x + r.w)) \X (r.y..(r.y + r.h))}

NoPath(error) == [error |-> error, points |-> <<>>, distance |-> 0]

\* Where the way enters the lines from a gate, and leaves them to a rack.
Entry(l, g) == Project(l, Min(AislesAt(l, l.gate[g])), l.gate[g])
Exit(l, r) == Project(l, Min(AislesAt(l, l.rack[r].access)), l.rack[r].access)

Network(l, g, r) ==
    Joined(l, [a \in DOMAIN l.aisle |->
        {Entry(l, h) : h \in {k \in {g} : a = Min(AislesAt(l, l.gate[k]))}}
        \cup {Exit(l, q) : q \in {k \in {r} : a = Min(AislesAt(l, l.rack[k].access))}}])

NavigationPath(l, g, r) ==
    IF g \notin DOMAIN l.gate THEN NoPath("NAVIGATION_GATE_NOT_FOUND")
    ELSE IF r \notin DOMAIN l.rack THEN NoPath("NAVIGATION_RACK_NOT_FOUND")
    ELSE IF AislesAt(l, l.gate[g]) = {} THEN NoPath("NAVIGATION_GATE_NOT_CONNECTED")
    ELSE IF AislesAt(l, l.rack[r].access) = {} THEN NoPath("NAVIGATION_RACK_NOT_CONNECTED")
    ELSE LET way == ShortestPath(Network(l, g, r), Entry(l, g), Exit(l, r))
             points == FoldLeft(AppendUnique, <<>>, <<l.gate[g]>> \o way \o <<l.rack[r].access>>) IN
         IF way = <<>> THEN NoPath("NAVIGATION_PATH_NOT_FOUND")
         ELSE [error |-> "", points |-> points, distance |-> WayLength(points)]

----------------------------------------------------------------------------
\* Properties

\* The points there are on the ground of an aisle.
Ground(l, a) == Points(AisleRect(l, a))

\* The aisles one gets to from some aisles, on ground that is aisle all the way.
RECURSIVE Reach(_, _)
Reach(l, aisles) ==
    LET next == {b \in DOMAIN l.aisle : \E a \in aisles : Ground(l, a) \cap Ground(l, b) # {}} IN
    IF next = aisles THEN aisles ELSE Reach(l, next)

Reachable(l, g, r) ==
    Reach(l, AislesAt(l, l.gate[g])) \cap AislesAt(l, l.rack[r].access) # {}

\* Bellman and Ford: the least lengths of the ways from a point to all, after n more steps.
RECURSIVE Relaxed(_, _, _)
Relaxed(edges, least, n) ==
    IF n = 0 THEN least
    ELSE LET into == {e[2] : e \in {d \in edges : d[1] \in DOMAIN least}} \cup DOMAIN least
             offers(p) == {least[e[1]] + Distance(e[1], p) :
                              e \in {d \in edges : d[2] = p /\ d[1] \in DOMAIN least}}
                          \cup {least[q] : q \in {p} \cap DOMAIN least}
             next == [p \in into |-> Min(offers(p))] IN
         Relaxed(edges, next, IF next = least THEN 0 ELSE n - 1)

\* In an aisle, or straight from one to another that touches it: over a corner of theirs,
\* maybe, and over what stands there.
Walkable(l, p, q) ==
    \E a \in AislesAt(l, p), b \in AislesAt(l, q) : Ground(l, a) \cap Ground(l, b) # {}

\* Whatever layout was saved, a rack is found from a gate if there is aisle ground all the
\* way between them, and only then; the way leads from the gate by the rack's access point,
\* each leg of it in an aisle or from one to the next.  (It is not the last point where the
\* way has been there before: the list repeats none.)
WaysFollowAisles ==
    \A g \in DOMAIN layout.gate, r \in DOMAIN layout.rack :
        LET path == NavigationPath(layout, g, r) IN
        /\ path.error = "" <=> Reachable(layout, g, r)
        /\ path.error = "" =>
               /\ Head(path.points) = layout.gate[g]
               /\ layout.rack[r].access \in ToSet(path.points)
               /\ \A i \in 2..Len(path.points) :
                     Walkable(layout, path.points[i - 1], path.points[i])

\* A way is found exactly where there is one, it follows the aisles, and the distance it is
\* said to have is that of the shortest walk on their lines.
WaysAreShortest ==
    WaysFollowAisles /\ \A g \in DOMAIN layout.gate, r \in DOMAIN layout.rack :
        LET path == NavigationPath(layout, g, r)
            edges == Network(layout, g, r)
            least == Relaxed(edges, Entry(layout, g) :> 0, Cardinality(edges)) IN
        path.error = "" /\ Last(path.points) = layout.rack[r].access =>
            path.distance = Distance(layout.gate[g], Entry(layout, g)) + least[Exit(layout, r)]
                            + Distance(Exit(layout, r), layout.rack[r].access)
=============================================================================
