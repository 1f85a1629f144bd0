-------------------------------- MODULE RbTree --------------------------------
(***************************************************************************)
(* The red-black tree of containers/rbtree.hpp as functions of a working   *)
(* record: the memory an attempt sees, the variables it has read with      *)
(* get (tracked: the commit validates them), those it has written, and the *)
(* nodes it destroys.  A variable is a pair <<node, field>>; root_ is the  *)
(* variable <<Nil, "root">>.  Whatever is the mirror image of something    *)
(* else in the source takes the side it works on as a parameter.           *)
(***************************************************************************)
EXTENDS Integers, FiniteSets, Sequences, TLC

CONSTANT N  \* nodes the allocator can hand out

Nil == 0

Nodes == 1 .. N

Links == {"parent", "left", "right"}

Root == <<Nil, "root">>

Locs == {Root} \cup (Nodes \X (Links \cup {"key", "value", "color"}))

Opposite == [left |-> "right", right |-> "left"]

(* Constructor of a node: red, linked to nothing.  Memory that is not      *)
(* allocated looks the same, with key 0.                                   *)
NewNode(n, key) ==
    [l \in {n} \X (Links \cup {"key", "value", "color"}) |->
        IF l[2] \in Links THEN Nil ELSE IF l[2] = "color" THEN "red" ELSE key]

EmptyMemory == [l \in Locs |-> IF l = Root THEN Nil ELSE NewNode(l[1], 0)[l]]

Working(mem) == [mem |-> mem, reads |-> {}, writes |-> {}, gone |-> {}]

Track(s, locs) == [s EXCEPT !.reads = @ \cup locs]

(* The writes of a handler: a function from variables to their values. *)
SetAll(s, f) == [s EXCEPT !.mem = f @@ @, !.writes = @ \cup DOMAIN f]

Set(s, n, field, x) == SetAll(s, <<n, field>> :> x)

Relink(n, field, x) == IF n = Nil THEN <<>> ELSE <<n, field>> :> x

Color(s, n) == IF n = Nil THEN "black" ELSE s.mem[n, "color"]

ColorRead(n) == IF n = Nil THEN {} ELSE {<<n, "color">>}

(* The side of its parent that a node is on; the source asks for the left. *)
SideOf(s, parent, n) == IF s.mem[parent, "left"] = n THEN "left" ELSE "right"

(* rotate_left and rotate_right: n goes down on the side. *)
Rotate(s, n, side) ==
    LET other == Opposite[side]
        p == s.mem[n, other]
        child == s.mem[p, side]
        up == s.mem[n, "parent"]
    IN  SetAll(Track(s, {<<n, other>>, <<p, side>>, <<n, "parent">>}
                        \cup IF up = Nil THEN {} ELSE {<<up, "left">>}),
               <<n, other>> :> child @@ Relink(child, "parent", n)
               @@ <<p, side>> :> n @@ <<n, "parent">> :> p @@ <<p, "parent">> :> up
               @@ IF up = Nil THEN Root :> p ELSE <<up, SideOf(s, up, n)>> :> p)
-----------------------------------------------------------------------------
(* Insertion *)

Grandparent(s, n) == s.mem[s.mem[n, "parent"], "parent"]

Sibling(s, parent, n) == s.mem[parent, Opposite[SideOf(s, parent, n)]]

SiblingReads(s, parent, n) ==
    {<<parent, "left">>} \cup IF s.mem[parent, "left"] = n THEN {<<parent, "right">>} ELSE {}

InsertCase5(s, n) ==
    LET p == s.mem[n, "parent"]
        g == s.mem[p, "parent"]
        side == SideOf(s, p, n)
    IN  Rotate(SetAll(Track(s, {<<n, "parent">>, <<p, "parent">>, <<p, "left">>}),
                      <<p, "color">> :> "black" @@ <<g, "color">> :> "red"),
               g, Opposite[side])

(* An inner grandchild first changes places with its parent. *)
InsertCase4(s, n) ==
    LET p == s.mem[n, "parent"]
        g == s.mem[p, "parent"]
        side == SideOf(s, g, p)
        child == s.mem[n, side]
        read == Track(s, {<<n, "parent">>, <<p, "parent">>, <<p, "right">>}
                         \cup (IF n = s.mem[p, "right"] THEN {<<g, "left">>} ELSE {})
                         \cup (IF n = s.mem[p, "left"] THEN {<<p, "left">>, <<g, "right">>}
                               ELSE IF side = "right" THEN {<<p, "left">>} ELSE {}))
    IN  IF n = s.mem[p, Opposite[side]]
        THEN InsertCase5(SetAll(Track(read, {<<n, side>>}),
                                <<g, side>> :> n @@ <<n, "parent">> :> g
                                @@ <<n, side>> :> p @@ <<p, "parent">> :> n
                                @@ <<p, Opposite[side]>> :> child
                                @@ Relink(child, "parent", p)),
                         p)
        ELSE InsertCase5(read, n)

(* insert_case1 to insert_case3: the parent and the uncle are repainted    *)
(* for as long as both are red, two levels up every time.                  *)
RECURSIVE InsertCase1(_, _)
InsertCase1(s, n) ==
    LET p == s.mem[n, "parent"]
        g == s.mem[p, "parent"]
        uncle == Sibling(s, g, p)
        read == Track(s, {<<n, "parent">>, <<p, "color">>, <<p, "parent">>}
                         \cup SiblingReads(s, g, p) \cup ColorRead(uncle))
    IN  IF p = Nil THEN Set(Track(s, {<<n, "parent">>}), n, "color", "black")
        ELSE IF Color(s, p) = "black" THEN Track(s, {<<n, "parent">>, <<p, "color">>})
        ELSE IF Color(s, uncle) = "red"
        THEN InsertCase1(SetAll(read, <<p, "color">> :> "black" @@ <<uncle, "color">> :> "black"
                                      @@ <<g, "color">> :> "red"), g)
        ELSE InsertCase4(read, n)

(* The walk of push_impl, with reads nobody validates: where the new node  *)
(* goes.  What is equal goes right.                                        *)
RECURSIVE Descend(_, _, _, _)
Descend(mem, key, parent, loc) ==
    IF mem[loc] = Nil THEN <<parent, loc>>
    ELSE Descend(mem, key, mem[loc],
                 <<mem[loc], IF key < mem[mem[loc], "key"] THEN "left" ELSE "right">>)

(* Mutant: the parent is not validated at all. *)
TrackNothing(s, parent) == s

(* What push_impl reads again, for the commit to validate. *)
TrackPath(s, parent) ==
    LET root == s.mem[Root]
        pp == s.mem[parent, "parent"]
    IN  Track(s, {Root}
                 \cup (IF parent \in {Nil, root} THEN {}
                       ELSE {<<parent, f>> : f \in {"key", "left", "right", "parent"}}
                            \cup IF pp \in {Nil, root} THEN {} ELSE {<<pp, "left">>, <<pp, "right">>}))

(* push_impl of a node that has just been constructed. *)
PushImpl(s, n) ==
    LET place == Descend(s.mem, s.mem[n, "key"], Nil, Root)
        linked == [TrackPath(s, place[1]) EXCEPT !.mem[<<n, "parent">>] = place[1]]
    IN  InsertCase1(SetAll(linked, place[2] :> n), n)

(* emplace: a node is allocated and constructed, and pushed. *)
Emplace(s, n, key) == PushImpl([s EXCEPT !.mem = NewNode(n, key) @@ @], n)
-----------------------------------------------------------------------------
(* Removal *)

(* find: the first node with the key, read with reads nobody validates. *)
RECURSIVE FindFrom(_, _, _)
FindFrom(mem, key, n) ==
    IF n = Nil \/ mem[n, "key"] = key THEN n
    ELSE FindFrom(mem, key, mem[n, IF key < mem[n, "key"] THEN "left" ELSE "right"])

Find(mem, key) == FindFrom(mem, key, mem[Root])

ReplaceNode(s, n, child) ==
    LET parent == s.mem[n, "parent"]
        read == Track(s, {<<n, "parent">>}
                         \cup IF parent = Nil THEN {} ELSE {<<parent, "left">>})
    IN  SetAll(read, Relink(child, "parent", parent)
                     @@ IF parent = Nil THEN Root :> child
                        ELSE <<parent, SideOf(s, parent, n)>> :> child)

(* color(left) == black && color(right) == black, up to the first that is  *)
(* not.                                                                    *)
BlackChildren(s, n) ==
    Color(s, s.mem[n, "left"]) = "black" /\ Color(s, s.mem[n, "right"]) = "black"

ChildrenReads(s, n) ==
    LET left == s.mem[n, "left"]
        right == s.mem[n, "right"]
    IN  {<<n, "left">>} \cup ColorRead(left)
        \cup IF Color(s, left) = "black" THEN {<<n, "right">>} \cup ColorRead(right) ELSE {}

(* The sibling's red child, if it is the outer one, takes over a black.    *)
DeleteCase6(s, parent, n) ==
    LET side == SideOf(s, parent, n)
        sib == Sibling(s, parent, n)
        outer == s.mem[sib, Opposite[side]]
    IN  Rotate(SetAll(Track(s, SiblingReads(s, parent, n)
                               \cup {<<parent, "color">>, <<sib, Opposite[side]>>}),
                      <<sib, "color">> :> Color(s, parent) @@ <<parent, "color">> :> "black"
                      @@ <<outer, "color">> :> "black"),
               parent, side)

(* An inner red child is rotated to the outside first. *)
DeleteCase5(s, parent, n) ==
    LET side == SideOf(s, parent, n)
        sib == Sibling(s, parent, n)
        inner == s.mem[sib, side]
        outer == s.mem[sib, Opposite[side]]
        black == Color(s, sib) = "black"
        read == Track(s, SiblingReads(s, parent, n) \cup {<<sib, "color">>}
                         \cup IF black THEN {<<sib, "left">>, <<sib, "right">>} \cup ColorRead(outer)
                                             \cup (IF Color(s, outer) = "black" THEN ColorRead(inner)
                                                   ELSE {})
                                             \cup (IF side = "right" \/ Color(s, outer) = "red"
                                                   THEN {<<parent, "right">>} ELSE {})
                              ELSE {})
    IN  IF black /\ Color(s, outer) = "black" /\ Color(s, inner) = "red"
        THEN DeleteCase6(Rotate(SetAll(read, <<sib, "color">> :> "red"
                                             @@ <<inner, "color">> :> "black"),
                                sib, Opposite[side]),
                         parent, n)
        ELSE DeleteCase6(read, parent, n)

(* delete_case1 to delete_case4: a black is missing at n, a child of the   *)
(* parent.  A red sibling goes up first; a sibling without red children is *)
(* repainted, and a black parent is short of a black itself.               *)
RECURSIVE DeleteCase3(_, _, _)

DeleteCase1(s, parent, n) ==
    LET side == SideOf(s, parent, n)
        sib == Sibling(s, parent, n)
        read == Track(s, SiblingReads(s, parent, n) \cup ColorRead(sib))
    IN  IF parent = Nil THEN s
        ELSE IF Color(s, sib) = "red"
        THEN DeleteCase3(Rotate(SetAll(read, <<parent, "color">> :> "red"
                                             @@ <<sib, "color">> :> "black"),
                                parent, side),
                         parent, n)
        ELSE DeleteCase3(read, parent, n)

DeleteCase3(s, parent, n) ==
    LET sib == Sibling(s, parent, n)
        black == Color(s, sib) = "black" /\ BlackChildren(s, sib)
        read == Track(s, SiblingReads(s, parent, n) \cup {<<parent, "color">>} \cup ColorRead(sib)
                         \cup IF Color(s, sib) = "black" THEN ChildrenReads(s, sib) ELSE {})
    IN  IF ~black THEN DeleteCase5(read, parent, n)
        ELSE IF Color(s, parent) = "red"
        THEN SetAll(read, <<sib, "color">> :> "red" @@ <<parent, "color">> :> "black")
        ELSE DeleteCase1(Set(Track(read, {<<parent, "parent">>}), sib, "color", "red"),
                         s.mem[parent, "parent"], parent)

(* Mutant: what is black is removed like what is red. *)
DeleteOneChildUnbalanced(s, n) ==
    LET child == IF s.mem[n, "right"] = Nil THEN s.mem[n, "left"] ELSE s.mem[n, "right"]
    IN  [ReplaceNode(s, n, child) EXCEPT !.gone = @ \cup {n}]

DeleteOneChild(s, n) ==
    LET right == s.mem[n, "right"]
        child == IF right = Nil THEN s.mem[n, "left"] ELSE right
        replaced == ReplaceNode(Track(s, {<<n, "right">>, <<n, "color">>}
                                         \cup IF right = Nil THEN {<<n, "left">>} ELSE {}),
                                n, child)
        balanced ==
            IF Color(s, n) = "red" THEN replaced
            ELSE IF Color(s, child) = "red" THEN Set(replaced, child, "color", "black")
            ELSE DeleteCase1(Track(replaced, ColorRead(child)), s.mem[n, "parent"], child)
    IN  [balanced EXCEPT !.gone = @ \cup {n}]

(* The leftmost path from n, as min_node reads it. *)
RECURSIVE LeftPath(_, _)
LeftPath(mem, n) ==
    IF mem[n, "left"] = Nil THEN <<n>> ELSE <<n>> \o LeftPath(mem, mem[n, "left"])

(* Mutant: the key moves up, the value does not. *)
EraseImplKeyOnly(s, n) ==
    LET path == LeftPath(s.mem, s.mem[n, "right"])
        min == path[Len(path)]
    IN  IF s.mem[n, "left"] # Nil /\ s.mem[n, "right"] # Nil
        THEN DeleteOneChild(Set(s, n, "key", s.mem[min, "key"]), min)
        ELSE DeleteOneChild(s, n)

(* Mutant: the node that was found is destroyed, not the one unlinked. *)
EraseImplWrongNode(s, n) ==
    LET path == LeftPath(s.mem, s.mem[n, "right"])
    IN  IF s.mem[n, "left"] # Nil /\ s.mem[n, "right"] # Nil
        THEN [DeleteOneChild(s, path[Len(path)]) EXCEPT !.gone = {n}]
        ELSE DeleteOneChild(s, n)

(* With two children, the next element moves up and its node is removed. *)
EraseImpl(s, n) ==
    LET path == LeftPath(s.mem, s.mem[n, "right"])
        min == path[Len(path)]
        both == s.mem[n, "left"] # Nil /\ s.mem[n, "right"] # Nil
        read == Track(s, {<<n, "left">>} \cup IF s.mem[n, "left"] = Nil THEN {} ELSE {<<n, "right">>})
    IN  IF ~both THEN DeleteOneChild(read, n)
        ELSE DeleteOneChild(
                 SetAll(Track(read, {<<path[i], "left">> : i \in 1 .. Len(path)}
                                    \cup {<<min, "key">>, <<min, "value">>}),
                        <<n, "key">> :> s.mem[min, "key"] @@ <<n, "value">> :> s.mem[min, "value"]),
                 min)
-----------------------------------------------------------------------------
(* destroy_deallocate_subtree: the nodes it destroys, in this order.  The  *)
(* leftmost leaf goes first, and its parent's right subtree takes its      *)
(* place; nobody else sees the nodes.  A right child of the leaf, or of a  *)
(* node that has no left child, is lost.                                   *)
RECURSIVE DestroySubtree(_, _)
DestroySubtree(mem, n) ==
    LET path == LeftPath(mem, n)
        leaf == path[Len(path)]
        parent == path[Len(path) - 1]
    IN  IF Len(path) = 1 THEN <<n>>
        ELSE <<leaf>> \o DestroySubtree([mem EXCEPT ![parent, "left"] = mem[parent, "right"],
                                                    ![parent, "right"] = Nil], n)

RECURSIVE Subtree(_, _)
Subtree(mem, n) ==
    IF n = Nil THEN {} ELSE {n} \cup Subtree(mem, mem[n, "left"]) \cup Subtree(mem, mem[n, "right"])
-----------------------------------------------------------------------------
(* verify: heights of a subtree, and the assertions of minmax_height.      *)
RECURSIVE Heights(_, _)
Heights(mem, n) ==
    LET l == Heights(mem, mem[n, "left"])
        r == Heights(mem, mem[n, "right"])
    IN  IF n = Nil THEN [min |-> 0, max |-> 0, black |-> 0]
        ELSE [min |-> (IF l.min < r.min THEN l.min ELSE r.min) + 1,
              max |-> (IF l.max > r.max THEN l.max ELSE r.max) + 1,
              black |-> l.black + IF mem[n, "color"] = "black" THEN 1 ELSE 0]

NodeVerified(mem, n) ==
    LET left == mem[n, "left"]
        right == mem[n, "right"]
    IN  /\ Heights(mem, left).black = Heights(mem, right).black
        /\ left # Nil => mem[left, "parent"] = n /\ mem[left, "key"] <= mem[n, "key"]
        /\ right # Nil => mem[right, "parent"] = n /\ mem[n, "key"] <= mem[right, "key"]
        /\ mem[n, "color"] = "red" =>
               \A child \in {left, right} \ {Nil} : mem[child, "color"] = "black"

Verified(mem) ==
    LET root == mem[Root]
        heights == Heights(mem, root)
    IN  /\ root # Nil => mem[root, "color"] = "black"
        /\ \A n \in Subtree(mem, root) : NodeVerified(mem, n)
        /\ heights.min * 2 >= heights.max
=============================================================================
