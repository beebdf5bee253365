---------------------------- MODULE RoutingPolicy ----------------------------
(***************************************************************************)
(* The routing tables of a network (libnet/RoutingPolicy.cpp,              *)
(* RoutingTable.cpp).  A network t gives its type, the number n of its     *)
(* routers (and the width of a mesh), its latencies and fixMessagePath.    *)
(* adjacent[i][j] is the list of the wires by which i sends to j: the next *)
(* router rID, the port towards it and the distance dist of j.             *)
(***************************************************************************)
EXTENDS Naturals, Sequences, SequencesExt, FiniteSetsExt

UP_PORT == 1
DOWN_PORT == 2
RIGHT_PORT == 3
LEFT_PORT == 4
LOCAL_PORT1 == 100

(* INT_MAX, as the 16 bits of a TimeDelta_t keep it.                       *)
NoLink == 65535

Wire(rID, port, dist) == [rID |-> rID, port |-> port, dist |-> dist]
Routers(t) == 0 .. t.n - 1

(* f itself.  TLC computes its values here and not at each use of them.    *)
Computed(f) == CHOOSE g \in {f} : g = f

-----------------------------------------------------------------------------
(* create: triples of a router, its neighbour and the port between them.   *)
UniRing(t) == {<<(i + t.n - 1) % t.n, i, UP_PORT>> : i \in Routers(t)}

(* Of two routers, each is both neighbours of the other: the second wire   *)
(* takes the place of the first.                                           *)
BiRing(t) ==
  LET back == {<<(i + 1) % t.n, i, DOWN_PORT>> : i \in Routers(t)}
  IN  back \cup {l \in UniRing(t) : \A b \in back : <<l[1], l[2]>> # <<b[1], b[2]>>}

(* Rows and columns are closed to rings but in the mesh of 2 x 2.          *)
Mesh(t) ==
  LET w == t.width
      at(row, col) == (row % w) * w + (col % w)
  IN  IF w = 2
      THEN {<<1, 0, RIGHT_PORT>>, <<2, 0, DOWN_PORT>>, <<0, 1, LEFT_PORT>>,
            <<3, 1, DOWN_PORT>>, <<0, 2, UP_PORT>>, <<3, 2, RIGHT_PORT>>,
            <<1, 3, UP_PORT>>, <<2, 3, LEFT_PORT>>}
      ELSE UNION {LET row == i \div w
                      col == i % w
                  IN  {<<at(row + w - 1, col), i, UP_PORT>>,
                       <<at(row + 1, col), i, DOWN_PORT>>,
                       <<at(row, col + w - 1), i, LEFT_PORT>>,
                       <<at(row, col + 1), i, RIGHT_PORT>>} : i \in Routers(t)}

(* Port j + 1 changes bit j.                                               *)
Hypercube(t) ==
  {<<i, IF (i \div 2^j) % 2 = 1 THEN i - 2^j ELSE i + 2^j, j + 1>> :
     i \in Routers(t), j \in 0 .. t.nPorts - 1}

Links(t) == CASE t.type = "uniring" -> UniRing(t)
              [] t.type = "biring" -> BiRing(t)
              [] t.type = "mesh" -> Mesh(t)
              [] t.type = "hypercube" -> Hypercube(t)

(* The matrix make starts from.                                            *)
create(t) ==
  LET links == Links(t)
      dist == IF t.type = "mesh" /\ t.width = 2 THEN 1 ELSE t.wireLat
      between(i, j) == {l \in links : l[1] = i /\ l[2] = j}
      port(i, j) == (CHOOSE l \in between(i, j) : TRUE)[3]
  IN  Computed([i \in Routers(t) |-> [j \in Routers(t) |->
         IF between(i, j) = {} THEN <<Wire(0, 0, NoLink)>>
                               ELSE <<Wire(j, port(i, j), dist)>>]])

(* The router that broadcasts of i go to next, in a ring.                  *)
next(t, i) == (i + 1) % t.n
-----------------------------------------------------------------------------
(* One round of shortestPaths(dest): the paths from dest that go on from k *)
(* to a tentative router, as long as the best one known, are added to it;  *)
(* shorter ones replace what is known.  A row finished before may stand    *)
(* for a path to k's neighbours, not only for a wire.                      *)
relax(t, adjacent, row, k, tentative) ==
  LET total(i) == row[k][1].dist + adjacent[k][i][1].dist + t.crossLat
      via(i, w) == Wire(w.rID, w.port, w.dist + adjacent[k][i][1].dist + t.crossLat)
      add(i, wires, w) == IF via(i, w) \in Range(wires) THEN wires
                          ELSE Append(wires, via(i, w))
      usable == row[k][1].port >= UP_PORT /\ row[k][1].port < LOCAL_PORT1
  IN  [i \in Routers(t) |->
         IF adjacent[k][i][1].dist = 0 \/ i \notin tentative
              \/ total(i) > row[i][1].dist
         THEN row[i]
         ELSE LET known == IF total(i) < row[i][1].dist THEN <<>> ELSE row[i]
                  step(wires, w) == add(i, wires, w)
              IN  IF usable THEN FoldLeft(step, known, row[k]) ELSE known]

(* The row of dest in the matrix.                                          *)
shortestPaths(t, adjacent, dest) ==
  LET start == [adjacent EXCEPT ![dest][dest] = <<Wire(dest, LOCAL_PORT1, 0)>>]
      nearest(row, S) ==
        Min({i \in S : \A j \in S : row[i][1].dist <= row[j][1].dist})
      round(s, x) ==
        LET row == Computed(relax(t, [adjacent EXCEPT ![dest] = s.row], s.row,
                                  s.k, s.tentative))
            k == nearest(row, s.tentative)
        IN  [row |-> row, k |-> k, tentative |-> s.tentative \ {k}]
      first == [row |-> start[dest], k |-> dest, tentative |-> Routers(t) \ {dest}]
  IN  FoldLeft(round, first, [x \in 1 .. t.n - 1 |-> x]).row

(* The matrix make ends with: one router after the other.                  *)
make(t) ==
  LET step(adjacent, i) == [adjacent EXCEPT ![i] = shortestPaths(t, adjacent, i)]
  IN  FoldLeft(step, create(t), [i \in 1 .. t.n |-> i - 1])
-----------------------------------------------------------------------------
(* addNeighborWire: with fixMessagePath one wire is kept for a router, of  *)
(* the port that fewer routers are reached by.                             *)
addNeighborWire(t, nextHop, id, wire) ==
  LET users(port) == Cardinality({i \in Routers(t) : nextHop[i] # <<>>
                                                     /\ nextHop[i][1].port = port})
  IN  IF t.fixMessagePath /\ nextHop[id] # <<>>
      THEN IF users(nextHop[id][1].port) > users(wire.port)
           THEN [nextHop EXCEPT ![id] = <<wire>>]
           ELSE nextHop
      ELSE [nextHop EXCEPT ![id] = Append(@, wire)]

(* The table of each router.                                               *)
Tables(t) ==
  LET adjacent == make(t)
      rowTable(i) ==
        LET forRouter(nextHop, j) ==
              LET addWire(h, w) == addNeighborWire(t, h, j, w)
              IN  FoldLeft(addWire, nextHop, adjacent[i][j])
        IN  FoldLeft(forRouter, [j \in Routers(t) |-> <<>>], [x \in 1 .. t.n |-> x - 1])
  IN  Computed([i \in Routers(t) |-> Computed(rowTable(i))])

(* The position getWire takes in nextHop, counted from 0, which is prevTurn *)
(* after it.                                                               *)
getWire(t, nextHop, prevTurn) ==
  IF t.fixMessagePath \/ prevTurn + 1 >= Len(nextHop) THEN 0 ELSE prevTurn + 1
-----------------------------------------------------------------------------
(* Reference: the least number of wires from i to j, t.n standing for none *)
(* found yet.                                                              *)
Distance(t) ==
  LET direct == [i \in Routers(t) |-> [j \in Routers(t) |->
        IF i = j THEN 0 ELSE IF \E l \in Links(t) : l[1] = i /\ l[2] = j THEN 1 ELSE t.n]]
      through(d, k) == Computed([i \in Routers(t) |-> [j \in Routers(t) |->
        Min({d[i][j], d[i][k] + d[k][j]})]])
  IN  FoldLeft(through, Computed(direct), [x \in 1 .. t.n |-> x - 1])
=============================================================================
